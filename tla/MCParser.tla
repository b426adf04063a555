------------------------------ MODULE MCParser ------------------------------
(***************************************************************************)
(* Model of Parser for TLC: texts of a few tokens, chosen so that dots,    *)
(* comments, quotes, escapes and encoded words meet in every order.        *)
(***************************************************************************)
EXTENDS Parser

CONSTANT MaxTokens          \* bound: tokens in a text

Word(charset, enc) == <<"=", "?", charset, "?", enc, "?", "x", "?", "=">>

Tokens == {<<"x">>, <<".">>, <<" ">>, <<"NL">>, <<"(", "x", ")">>, <<"(">>,
           <<"\"", ".", "\"">>, <<"\"">>, <<"\\">>, <<"8">>,
           Word("x", "q"), Word("q", "b"), <<"=", "?", "x", "?", "q", "?", "x">>}

\* "x" is a charset and "q" is not.
MCCharsets == {<<"x">>}

MCTexts ==
    LET texts[n \in 0..MaxTokens] ==
            IF n = 0 THEN {<<>>}
            ELSE texts[n - 1] \cup {t \o w : t \in texts[n - 1], w \in Tokens}
    IN  texts[MaxTokens]

=============================================================================

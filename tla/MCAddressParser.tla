-------------------------- MODULE MCAddressParser --------------------------
(***************************************************************************)
(* AddressParser on lists as they are written, on all texts of a few       *)
(* characters and on all texts put together from a few larger pieces.      *)
(***************************************************************************)
EXTENDS AddressParser

CONSTANTS MaxChars, MaxPieces, MaxList

MCTldLengths == 2..4

a == <<"a">>
b == <<"b">>

\* The pieces of lists, of groups and of quoted texts.
Pieces ==
    { a \o <<"@">> \o b, <<"<">> \o a \o <<"@">> \o b \o <<">">>, a, <<" ">>, b \o <<":">>, <<";">>,
      <<",">>, <<"\"">>, <<"(">> \o a \o <<")">>, <<"@">>, <<"<", ">">>, <<".">> }

\* The pieces of what address() takes for a group without members, or for a node.
OddPieces ==
    { a, <<" ">>, <<"<">>, <<">">>, <<":", ";">>, <<":", "@", "b", ";">>, <<"(", "a", ")">>,
      <<"@">>, <<":", ":">>, <<"\"">> }

MadeOf(P) == {FlattenSeq(p) : p \in UNION {[1..n -> P] : n \in 0..MaxPieces}}

Texts ==
    UNION {[1..n -> Char \ {"b", "-", "'", "]"}] : n \in 0..MaxChars}
    \cup MadeOf(Pieces) \cup MadeOf(OddPieces)
    \cup {<<"a", ",", ":", "b", ";">>}      \* ends at the start of the text, not at a ":"

Names == {<<>>, a, <<"a", " ", "b">>, <<"a", ",", "b">>, <<"a", ".", "b">>, <<"-", "a">>}
Localparts == {a, <<"a", ".", "b">>, <<"a", " ", "b">>, <<"a", "@">>}
Domains == {b, <<"a", ".", "b">>}

Pool ==
    [name : Names, lp : Localparts, dom : Domains]
    \cup [name : {<<>>}, lp : {lp \in Localparts : localpartIsSensible(lp)}, dom : {<<>>}]
    \cup [name : Names, lp : {<<>>}, dom : {<<>>}]

ListsOf(P) == UNION {[1..n -> P] : n \in 1..MaxList}

Written(P) ==
    {[text |-> rfc822(l, gap), list |-> l] : l \in ListsOf(P), gap \in {<<" ">>, <<" ", " ">>}}

MCGivens == {[text |-> t, list |-> <<>>] : t \in Texts} \cup Written(Pool)

\* Addresses the code writes and does not read back: at a domain literal, with an
\* apostrophe in a name that has to be quoted, and a quoted localpart alone.
UnreadGivens ==
    Written([name : {<<>>}, lp : {a}, dom : {<<"[", "a", "b", "]">>}])
    \cup Written([name : {<<"a", "'", "b", ",">>}, lp : {a}, dom : {b}])
    \cup Written([name : {<<>>}, lp : {<<"a", " ", "b">>}, dom : {<<>>}])

\* The same, and an address that may be in the list twice.
CommentGivens == UnreadGivens \cup Written([name : {<<>>}, lp : {a}, dom : {b}])
=============================================================================

----------------------------- MODULE MCUniquify -----------------------------
(***************************************************************************)
(* Uniquify on every list of at most MaxLen addresses over two spellings   *)
(* of one localpart, another localpart, a domain, two names, the memberless*)
(* groups and the bounce address.                                          *)
(***************************************************************************)
EXTENDS Uniquify

MCNames == {"", "Ann", "Bob"}
MCLocalparts == {"", "a", "A", "b"}
MCDomains == {"", "x"}

MCToTitle(s) == CASE s = "a" -> "A" [] s = "b" -> "B" [] s = "x" -> "X"
                  [] OTHER -> s

=============================================================================

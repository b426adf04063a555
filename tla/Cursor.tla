------------------------------- MODULE Cursor -------------------------------
(***************************************************************************)
(* What the comments of parser.go promise a caller of the parser: a cursor *)
(* in the text that the productions only move forward, and marks to go     *)
(* back to.  mark saves "the current cursor position and error state",     *)
(* restore restores "the last or a specified mark".                        *)
(***************************************************************************)
EXTENDS Naturals, Sequences

VARIABLES
    limit,              \* no cursor is beyond this position
    at,                 \* the cursor
    valid,              \* no error is recorded
    saved               \* the positions marked, the oldest first

vars == <<limit, at, valid, saved>>

Init == limit \in Nat /\ at = 0 /\ valid = TRUE /\ saved = <<>>

\* Any production.
Move == at' \in at..limit /\ UNCHANGED <<limit, valid, saved>>

Mark == saved' = Append(saved, at) /\ UNCHANGED <<limit, at, valid>>

\* Going back to a mark gives up the newer ones.
Restore(k) ==
    /\ at' = saved[k]
    /\ saved' = SubSeq(saved, 1, k - 1)
    /\ UNCHANGED <<limit, valid>>

Next == Move \/ Mark \/ \E k \in DOMAIN saved : Restore(k)

Spec == Init /\ [][Next]_vars

=============================================================================

---------------------------- MODULE MCBodyParts ----------------------------
(***************************************************************************)
(* BodyParts for TLC: an empty message; one as parseMultipart leaves it,   *)
(* with parts 1, 1.1 and 2; and one a caller built (Parts and Number are   *)
(* exported) whose numbers have gaps.                                      *)
(***************************************************************************)
EXTENDS BodyParts, TLC

MCTrees ==
    {[kids |-> (0 :> <<>>), num |-> (0 :> 0), hdr |-> {0}],
     [kids |-> (0 :> <<1, 2>> @@ 1 :> <<3>> @@ 2 :> <<>> @@ 3 :> <<>>),
      num |-> (0 :> 0 @@ 1 :> 1 @@ 2 :> 2 @@ 3 :> 1), hdr |-> 0..3],
     [kids |-> (0 :> <<1, 2, 3>> @@ 1 :> <<>> @@ 2 :> <<>> @@ 3 :> <<>>),
      num |-> (0 :> 0 @@ 1 :> 2 @@ 2 :> 4 @@ 3 :> 5), hdr |-> {0}]}

MCPaths == UNION {[1..n -> 0..5] : n \in 1..2}

=============================================================================

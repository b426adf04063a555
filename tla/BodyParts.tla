----------------------------- MODULE BodyParts -----------------------------
(***************************************************************************)
(* Message.BodyPart: finding a part by its IMAP part number, and creating  *)
(* the parts on the way if asked to.  Part 0 is the message itself, and    *)
(* also stands for a nil *Part.                                            *)
(***************************************************************************)
EXTENDS Naturals, Sequences, FiniteSets

CONSTANTS
    Trees,      \* initial trees: records [kids, num, hdr]
    Paths,      \* part numbers asked for, split at the dots; 0 is a component
                \* that is zero, no number, or too large for an int
    MaxParts    \* bound: parts that can be created

Part == 0..MaxParts

\* The numbers of siblings ascend.
ASSUME TreesAssumption ==
    /\ MaxParts \in Nat
    /\ Paths \subseteq Seq(Nat)
    /\ \A t \in Trees :
          /\ DOMAIN t.kids \subseteq Part /\ 0 \in DOMAIN t.kids
          /\ t.kids \in [DOMAIN t.kids -> Seq(DOMAIN t.kids)]
          /\ t.num \in [DOMAIN t.kids -> Nat]
          /\ \A p \in DOMAIN t.kids : \A k, l \in DOMAIN t.kids[p] :
                k < l => t.num[t.kids[p][k]] < t.num[t.kids[p][l]]

VARIABLES
    kids,       \* kids[p]: p.Parts
    num,        \* num[p]: p.Number
    hdr,        \* p has a Header
    used,       \* the parts that exist
    todo,       \* the components of s still to be followed
    bp,         \* the part reached so far
    call,       \* [s, create, kids]: the arguments, and the tree at the call
    lookup

tree == <<kids, num, hdr, used>>
treeVars == <<kids, num, hdr, used, todo, bp, call, lookup>>

TreeInit ==
    /\ \E t \in Trees : /\ kids = t.kids /\ num = t.num /\ hdr = t.hdr
                        /\ used = DOMAIN t.kids
    /\ todo = <<>> /\ bp = 0
    /\ call = [s |-> <<>>, create |-> FALSE, kids |-> kids]
    /\ lookup = "idle"

-----------------------------------------------------------------------------
\* Position of n that stops too early.
PositionBefore(cs, n) ==
    LET here == {k \in DOMAIN cs : num[cs[k]] + 1 >= n}
    IN  IF here = {} THEN Len(cs) ELSE CHOOSE k \in here : \A l \in here : k <= l

\* Where the loop over cs stops: the first part numbered n or more, or the
\* last one.
Position(cs, n) ==
    LET here == {k \in DOMAIN cs : num[cs[k]] >= n}
    IN  IF here = {} THEN Len(cs) ELSE CHOOSE k \in here : \A l \in here : k <= l

Found(cs, n) == cs # <<>> /\ num[cs[Position(cs, n)]] = n

\* Overwritten one place too early.
OverwrittenBefore(cs, k, child, room) ==
    [l \in DOMAIN cs |-> IF l + 1 = k THEN child ELSE cs[l]]

\* append(append(cs[:i], child), cs[i:]...), seen through the slice cs, which
\* keeps its length as the result is stored nowhere.  The first append
\* overwrites cs[i].  If the capacity of cs leaves room, the second one shifts
\* the rest, which now starts with child.
Overwritten(cs, k, child, room) ==
    [l \in DOMAIN cs |-> IF l = k \/ (room /\ l = k + 1) THEN child
                         ELSE IF room /\ l > k THEN cs[l - 1] ELSE cs[l]]

-----------------------------------------------------------------------------
CallBodyPart(s, create) ==
    /\ lookup = "idle"
    /\ create => Cardinality(used) + Len(s) <= MaxParts + 1
    /\ todo' = s /\ bp' = 0 /\ lookup' = "walk"
    /\ call' = [s |-> s, create |-> create, kids |-> kids]
    /\ UNCHANGED tree

\* The part exists.  A first child without a header gets an empty one, or that
\* of the message bp holds, unless that is missing or a multipart's.
Follow ==
    LET n == Head(todo)
        c == kids[bp][Position(kids[bp], n)]
    IN  /\ lookup = "walk" /\ todo # <<>> /\ n # 0 /\ Found(kids[bp], n)
        /\ bp' = c /\ todo' = Tail(todo)
        /\ \/ hdr' = IF n = 1 THEN hdr \cup {c} ELSE hdr
           \/ bp # 0 /\ hdr' = hdr
        /\ UNCHANGED <<kids, num, used, call, lookup>>

Create ==
    LET n == Head(todo)
        cs == kids[bp]
        child == CHOOSE p \in Part : p \notin used
    IN  /\ lookup = "walk" /\ todo # <<>> /\ n # 0 /\ ~Found(cs, n)
        /\ call.create
        /\ \E room \in BOOLEAN :
              kids' = [p \in used \cup {child} |->
                          IF p = child THEN <<>>
                          ELSE IF p = bp THEN Overwritten(cs, Position(cs, n), child, room)
                          ELSE kids[p]]
        /\ num' = [p \in used \cup {child} |-> IF p = child THEN n ELSE num[p]]
        /\ used' = used \cup {child}
        /\ bp' = child /\ todo' = Tail(todo)
        /\ UNCHANGED <<hdr, call, lookup>>

\* return nil
ReturnNil ==
    /\ lookup = "walk" /\ todo # <<>>
    /\ Head(todo) = 0 \/ (~Found(kids[bp], Head(todo)) /\ ~call.create)
    /\ bp' = 0 /\ todo' = <<>> /\ lookup' = "idle"
    /\ UNCHANGED <<kids, num, hdr, used, call>>

ReturnPart ==
    /\ lookup = "walk" /\ todo = <<>>
    /\ lookup' = "idle"
    /\ UNCHANGED <<kids, num, hdr, used, todo, bp, call>>

TreeNext ==
    \/ \E s \in Paths, create \in BOOLEAN : CallBodyPart(s, create)
    \/ Follow \/ Create \/ ReturnNil \/ ReturnPart

TreeSpec == TreeInit /\ [][TreeNext]_treeVars

-----------------------------------------------------------------------------
(***************************************************************************)
(* Properties                                                              *)
(***************************************************************************)
\* Overwriting siblings never disturbs their order, on which the loop that
\* looks for a number relies.
NumbersInOrder ==
    \A p \in used : \A k, l \in DOMAIN kids[p] :
        k < l => num[kids[p][k]] <= num[kids[p][l]]

\* The parts that s leads to, following equal numbers only, and those its first
\* m components lead to.
Children(p, n) == {kids[p][k] : k \in {k \in DOMAIN kids[p] : num[kids[p][k]] = n}}
Leads(w, s, m) == w[0] = 0 /\ \A k \in 1..m : w[k] \in Children(w[k - 1], s[k])
ReachedBy(s, m) == {w[m] : w \in {w \in [0..Len(s) -> used] : Leads(w, s, m)}}
Reached(s) == ReachedBy(s, Len(s))

\* Asking for an existing part returns it, and for another one nil, even after
\* calls that damaged the tree.
LookupFinds ==
    lookup = "idle" /\ ~call.create /\ call.s # <<>> =>
        LET reached == Reached(call.s)
        IN  IF 0 \in {call.s[k] : k \in DOMAIN call.s} \/ reached = {}
            THEN bp = 0
            ELSE {bp} = reached

\* The comment on BodyPart: "Returns a pointer to the Bodypart whose IMAP part
\* number is s and possibly create it.  Creates Bodypart objects if create is
\* true": afterwards the part is in the tree, and so are the others.
CreateAdds ==
    lookup = "idle" /\ call.create /\ bp # 0 =>
        /\ bp \in Reached(call.s)
        /\ \A p \in DOMAIN call.kids : \A k \in DOMAIN call.kids[p] :
              \E l \in DOMAIN kids[p] : kids[p][l] = call.kids[p][k]

=============================================================================

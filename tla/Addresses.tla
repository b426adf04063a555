----------------------------- MODULE Addresses -----------------------------
(***************************************************************************)
(* The Address value of addresses.go and the operations on lists of        *)
(* addresses that the header code relies on.  An address is a display      *)
(* name, a localpart and a domain, each an uninterpreted token; "" is the  *)
(* empty string.  Its type t is not stored: NewAddress derives it from     *)
(* which of the three parts are empty, and nothing changes it afterwards.  *)
(***************************************************************************)
EXTENDS Naturals, Sequences, FiniteSets

CONSTANTS
    Names,          \* display names that occur
    Localparts,     \* localparts that occur
    Domains,        \* domains that occur
    ToTitle(_)      \* strings.ToTitle, used to ignore case

ASSUME EmptyStrings == "" \in Names /\ "" \in Localparts /\ "" \in Domains

Address == [name : Names, lp : Localparts, dom : Domains]

(***************************************************************************)
(* NewAddress(name, localpart, domain), without its type.                  *)
(***************************************************************************)
NewAddress(name, lp, dom) == [name |-> name, lp |-> lp, dom |-> dom]

(***************************************************************************)
(* The type NewAddress gives an address.                                   *)
(***************************************************************************)
TypeOf(a) ==
    IF a.dom # "" THEN "Normal"
    ELSE IF a.lp # "" THEN "Local"
    ELSE IF a.name # "" THEN "EmptyGroup"
    ELSE "Bounce"

(***************************************************************************)
(* The key under which Uniquify looks an address up: both sides without    *)
(* regard to case.                                                         *)
(***************************************************************************)
UniquifyKey(a) == <<ToTitle(a.lp), ToTitle(a.dom)>>

UniquifyKeys(l) == {UniquifyKey(l[i]) : i \in DOMAIN l}

(***************************************************************************)
(* The key sameAddresses compares: the localpart as it is, the domain      *)
(* without regard to case.                                                 *)
(***************************************************************************)
SameKey(a) == <<a.lp, ToTitle(a.dom)>>

Keys(l) == {SameKey(l[i]) : i \in DOMAIN l}

(***************************************************************************)
(* sameAddresses(a, b) on two address lists.  A missing field and a field  *)
(* without addresses are both the empty list, and never the same as        *)
(* anything.  The code builds mmap from l a second time, so of the two     *)
(* inclusions only "every address of m is in l" is ever tested.            *)
(***************************************************************************)
sameAddresses(l, m) ==
    /\ l # <<>> /\ m # <<>>
    /\ Len(l) = Len(m)
    /\ Keys(m) \subseteq Keys(l)

\* The member of the set of positions S that has n smaller ones, or 0.
NthOf(S, n) ==
    IF Cardinality(S) > n
    THEN CHOOSE p \in S : Cardinality({q \in S : q < p}) = n
    ELSE 0

\* The members of the list l at positions S, in order.
At(l, S) == [n \in 1..Cardinality(S) |-> l[NthOf(S, n - 1)]]

(***************************************************************************)
(* The list Addresses.Uniquify leaves.  Module Uniquify checks its loop    *)
(* against this definition.                                                *)
(***************************************************************************)
Uniquified(l) ==
    LET Copies(i) == {j \in DOMAIN l : UniquifyKey(l[j]) = UniquifyKey(l[i])}
        firsts == {i \in DOMAIN l : \A j \in Copies(i) : i <= j}
        Best(i) == LET named == {j \in Copies(i) : l[j].name # ""}
                   IN  IF named = {} THEN l[i] ELSE l[NthOf(named, 0)]
    IN  [n \in 1..Cardinality(firsts) |-> Best(NthOf(firsts, n - 1))]

=============================================================================

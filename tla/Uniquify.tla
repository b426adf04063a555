------------------------------ MODULE Uniquify ------------------------------
(***************************************************************************)
(* Addresses.Uniquify: the loop that removes the addresses that occur      *)
(* twice in an address list, keeping for each key the first occurrence, or *)
(* the first one that has a display name.                                  *)
(*                                                                         *)
(* The list is an arbitrary sequence of at most MaxLen addresses.  One     *)
(* step of the loop is one action.  Indices count from 1 where the code    *)
(* counts from 0.                                                          *)
(***************************************************************************)
EXTENDS Addresses

CONSTANT MaxLen     \* longest list considered

ASSUME MaxLenAssumption == MaxLen \in Nat

VARIABLES
    as,         \* the receiver *as: the input, and after Return the result
    input,      \* the list Uniquify was called with (never changes)
    i,          \* position of the next address the range loop visits
    dict,       \* key -> index into unique
    unique,     \* the list being built
    pc

uniquifyVars == <<as, input, i, dict, unique, pc>>

Lists == UNION {[1..n -> Address] : n \in 0..MaxLen}

UniquifyInit ==
    /\ input \in Lists
    /\ as = input
    /\ i = 1
    /\ dict = [k \in {} |-> 0]
    /\ unique = <<>>
    /\ pc = "enter"

\* if len(*as) == 0 { return }
Enter ==
    /\ pc = "enter"
    /\ pc' = IF Len(as) = 0 THEN "done" ELSE "loop"
    /\ UNCHANGED <<as, input, i, dict, unique>>

\* Insert with the index taken after the append instead of before it.
InsertAfterAppend(a, k) ==
    /\ k \notin DOMAIN dict
    /\ dict' = [x \in DOMAIN dict \cup {k} |->
                    IF x = k THEN Len(unique) + 2 ELSE dict[x]]
    /\ unique' = Append(unique, a)

\* Insert at the front, as AddressParser.add prepends.
InsertAtFront(a, k) ==
    /\ k \notin DOMAIN dict
    /\ dict' = [x \in DOMAIN dict \cup {k} |->
                    IF x = k THEN 1 ELSE dict[x] + 1]
    /\ unique' = <<a>> \o unique

\* ix, ok := dict[k]; !ok
Insert(a, k) ==
    /\ k \notin DOMAIN dict
    /\ dict' = [x \in DOMAIN dict \cup {k} |->
                    IF x = k THEN Len(unique) + 1 ELSE dict[x]]
    /\ unique' = Append(unique, a)

\* Replace without looking at the names: the last occurrence wins.
ReplaceAlways(a, k) ==
    /\ k \in DOMAIN dict
    /\ unique' = [unique EXCEPT ![dict[k]] = a]
    /\ UNCHANGED dict

\* else if unique[ix].name == "" && a.name != "" { unique[ix] = a }
Replace(a, k) ==
    /\ k \in DOMAIN dict
    /\ unique' = IF unique[dict[k]].name = "" /\ a.name # ""
                 THEN [unique EXCEPT ![dict[k]] = a]
                 ELSE unique
    /\ UNCHANGED dict

Visit ==
    /\ pc = "loop"
    /\ i <= Len(as)
    /\ \/ Insert(as[i], UniquifyKey(as[i]))
       \/ Replace(as[i], UniquifyKey(as[i]))
    /\ i' = i + 1
    /\ UNCHANGED <<as, input, pc>>

\* *as = unique
Return ==
    /\ pc = "loop"
    /\ i > Len(as)
    /\ as' = unique
    /\ pc' = "done"
    /\ UNCHANGED <<input, i, dict, unique>>

UniquifyNext == Enter \/ Visit \/ Return

UniquifySpec == UniquifyInit /\ [][UniquifyNext]_uniquifyVars

-----------------------------------------------------------------------------
(***************************************************************************)
(* Properties                                                              *)
(***************************************************************************)

\* The state of the loop has the shape the code gives it.
UniquifyTypeOK ==
    /\ input \in Seq(Address)
    /\ as \in Seq(Address)
    /\ i \in 1..(Len(input) + 1)
    /\ unique \in Seq(Address)
    /\ \A k \in DOMAIN dict : dict[k] \in 1..Len(unique)
    /\ pc \in {"enter", "loop", "done"}

\* dict is the inverse of unique, so unique[ix] in the loop body never
\* indexes out of range and always finds an address with the key looked up.
DictExact ==
    /\ \A k \in DOMAIN dict : /\ dict[k] \in DOMAIN unique
                              /\ UniquifyKey(unique[dict[k]]) = k
    /\ \A j \in DOMAIN unique : /\ UniquifyKey(unique[j]) \in DOMAIN dict
                                /\ dict[UniquifyKey(unique[j])] = j

\* What Uniquify promises when it returns: no key occurs twice; every
\* address of the input is still represented, by a named address if any of
\* its copies had a name; and every address of the result was in the input.
Deduplicated ==
    pc = "done" =>
        /\ \A j, k \in DOMAIN as :
               UniquifyKey(as[j]) = UniquifyKey(as[k]) => j = k
        /\ \A m \in DOMAIN input : \E j \in DOMAIN as :
               /\ UniquifyKey(as[j]) = UniquifyKey(input[m])
               /\ input[m].name # "" => as[j].name # ""
        /\ \A j \in DOMAIN as : \E m \in DOMAIN input : as[j] = input[m]

\* A representative is never a later copy than needed: if the address that
\* is kept has a name, no earlier copy has one, and if it has none, it is
\* the first copy and no copy has one.
KeepsFirst ==
    pc = "done" =>
        \A j \in DOMAIN as : \E m \in DOMAIN input :
            /\ input[m] = as[j]
            /\ \A n \in DOMAIN input :
                  UniquifyKey(input[n]) = UniquifyKey(as[j]) =>
                      /\ n < m => as[j].name # ""
                      /\ n < m \/ as[j].name = "" => input[n].name = ""

\* a stands for the addresses with key k among the first n of the input: it
\* is the first of them that has a name, or the first if none has.
Represents(a, k, n) ==
    \E m \in 1..n :
        /\ a = input[m]
        /\ UniquifyKey(input[m]) = k
        /\ \A p \in 1..n : UniquifyKey(input[p]) = k =>
               /\ p < m => a.name # ""
               /\ p < m \/ a.name = "" => input[p].name = ""

\* The loop invariant: after i - 1 addresses, unique holds exactly one
\* representative for each key seen so far, in the order of first sight.
LoopInvariant ==
    /\ pc # "done" => as = input
    /\ pc = "enter" => i = 1 /\ unique = <<>>
    /\ pc = "done" => as = unique /\ i = Len(input) + 1
    /\ \A m \in 1..(i - 1) : UniquifyKey(input[m]) \in DOMAIN dict
    /\ \A j \in DOMAIN unique :
          Represents(unique[j], UniquifyKey(unique[j]), i - 1)
    /\ \A j, k \in DOMAIN unique : j < k =>
          \A n \in 1..(i - 1) : UniquifyKey(input[n]) = UniquifyKey(unique[k]) =>
              \E m \in 1..(n - 1) : UniquifyKey(input[m]) = UniquifyKey(unique[j])

\* The result lists its keys in the order in which the input first has them.
KeepsOrder ==
    pc = "done" =>
        \A j, k \in DOMAIN as : j < k =>
            \A n \in DOMAIN input :
                UniquifyKey(input[n]) = UniquifyKey(as[k]) =>
                    \E m \in 1..(n - 1) :
                        UniquifyKey(input[m]) = UniquifyKey(as[j])

\* What the comment on Uniquify says is removed: "any addresses that exist
\* twice in the list".  Two memberless groups with different names are not
\* the same address, so a group may only go if its name is still there.
RemovesOnlyRepeats ==
    pc = "done" =>
        \A m \in DOMAIN input :
            TypeOf(input[m]) = "EmptyGroup" =>
                \E j \in DOMAIN as : as[j].name = input[m].name

=============================================================================

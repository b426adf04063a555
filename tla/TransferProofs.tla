--------------------------- MODULE TransferProofs ---------------------------
(***************************************************************************)
(* What e64, de64, eQP and deQP do to any string: decoding gives back what *)
(* was encoded, and the encoded lines are no longer than they may be.      *)
(***************************************************************************)
EXTENDS TransferEncoding, SequenceTheorems, WellFoundedInduction, NaturalsInduction, TLAPS

-----------------------------------------------------------------------------
(***************************************************************************)
(* Types.  How far deQP has read is known from what eQP wrote, see below.  *)
(***************************************************************************)
TransferType ==
    /\ e \in {"base64", "qp", "word", "binary", "foreign"}
    /\ s \in Seq(Byte) /\ lineLength \in Nat
    /\ i \in 0..Len(s) /\ c \in Nat /\ buf \in Seq(Nat) /\ noise \in Nat
    /\ pc \in {"encode", "sent", "decode", "done"}
    /\ e = "foreign" => pc \in {"decode", "done"}
    /\ e = "binary" => pc \in {"encode", "done"}
    /\ e = "base64" => p \in Nat /\ m \in 0..3 /\ decoded \in Byte /\ out \in Seq(Nat)
    /\ pc = "encode" => noise = 0
    /\ e \in {"qp", "word"} => c <= Len(buf)
    /\ pc \in {"encode", "sent"} => p = 0 /\ m = 0 /\ out = <<>>

\* One sequence after another.
LEMMA Joined ==
    ASSUME NEW b \in Seq(Nat), NEW w \in Seq(Nat)
    PROVE  /\ b \o w \in Seq(Nat) /\ Len(b \o w) = Len(b) + Len(w)
           /\ \A x \in 1..Len(b) : (b \o w)[x] = b[x]
           /\ \A x \in 1..Len(w) : (b \o w)[Len(b) + x] = w[x]
  <1> DEFINE d == b \o w
  <1>1. /\ d \in Seq(Nat) /\ Len(d) = Len(b) + Len(w)
        /\ \A x \in 1..(Len(b) + Len(w)) : d[x] = IF x <= Len(b) THEN b[x] ELSE w[x - Len(b)]
    BY ConcatProperties, Zenon
  <1>2. Len(b) \in Nat /\ Len(w) \in Nat
    OBVIOUS
  <1> HIDE DEF d
  <1>3. \A x \in 1..Len(b) : d[x] = b[x]
    BY <1>1, <1>2
  <1>4. ASSUME NEW x \in 1..Len(w) PROVE d[Len(b) + x] = w[x]
    <2>1. /\ Len(b) + x \in 1..(Len(b) + Len(w)) /\ ~(Len(b) + x <= Len(b))
          /\ Len(b) + x - Len(b) = x
      BY <1>2
    <2> QED BY <2>1, <1>1
  <1> QED BY <1>1, <1>3, <1>4, Zenon DEF d

\* A sequence in two pieces, with something put between them.
LEMMA Spliced ==
    ASSUME NEW b \in Seq(Nat), NEW k \in 0..Len(b), NEW w \in Seq(Nat)
    PROVE  LET d == SubSeq(b, 1, k) \o w \o SubSeq(b, k + 1, Len(b))
           IN  /\ d \in Seq(Nat) /\ Len(d) = Len(b) + Len(w)
               /\ \A x \in 1..k : d[x] = b[x]
               /\ \A x \in 1..Len(w) : d[k + x] = w[x]
               /\ \A x \in (k + 1)..Len(b) : d[Len(w) + x] = b[x]
  <1> DEFINE u == SubSeq(b, 1, k)
             v == SubSeq(b, k + 1, Len(b))
  <1>0. Len(b) \in Nat /\ Len(w) \in Nat /\ k \in Nat /\ k <= Len(b)
    OBVIOUS
  <1>1. u \in Seq(Nat) /\ Len(u) = k /\ \A x \in 1..k : u[x] = b[x]
    <2>1. \A x \in 1..k : b[x] \in Nat
      BY <1>0
    <2> QED BY <1>0, <2>1, SubSeqProperties
  <1>2. /\ v \in Seq(Nat) /\ Len(v) = Len(b) - k
        /\ \A x \in (k + 1)..Len(b) : v[x - k] = b[x]
    <2>1. \A x \in (k + 1)..Len(b) : b[x] \in Nat
      BY <1>0
    <2>2. /\ v \in Seq(Nat)
          /\ Len(v) = IF k + 1 <= Len(b) THEN Len(b) - (k + 1) + 1 ELSE 0
          /\ \A x \in 1..(Len(b) - (k + 1) + 1) : v[x] = b[k + 1 + x - 1]
      BY <1>0, <2>1, SubSeqProperties
    <2> HIDE DEF v
    <2>3. ASSUME NEW x \in (k + 1)..Len(b) PROVE v[x - k] = b[x]
      <3>1. x - k \in 1..(Len(b) - (k + 1) + 1) /\ k + 1 + (x - k) - 1 = x
        BY <1>0
      <3> QED BY <3>1, <2>2, Zenon
    <2> QED BY <1>0, <2>2, <2>3 DEF v
  <1> HIDE DEF u, v
  <1>3. /\ u \o w \in Seq(Nat) /\ Len(u \o w) = k + Len(w)
        /\ \A x \in 1..k : (u \o w)[x] = b[x]
        /\ \A x \in 1..Len(w) : (u \o w)[k + x] = w[x]
    <2>1. /\ u \o w \in Seq(Nat) /\ Len(u \o w) = Len(u) + Len(w)
          /\ \A x \in 1..Len(u) : (u \o w)[x] = u[x]
          /\ \A x \in 1..Len(w) : (u \o w)[Len(u) + x] = w[x]
      BY <1>1, Joined, Zenon
    <2> QED BY <1>1, <2>1, Zenon
  <1> DEFINE uw == u \o w
  <1> HIDE DEF uw
  <1>4. /\ uw \o v \in Seq(Nat) /\ Len(uw \o v) = Len(b) + Len(w)
        /\ \A x \in 1..(k + Len(w)) : (uw \o v)[x] = uw[x]
        /\ \A x \in 1..Len(v) : (uw \o v)[k + Len(w) + x] = v[x]
    <2>1. uw \in Seq(Nat) /\ v \in Seq(Nat)
      BY <1>2, <1>3, Zenon DEF uw
    <2>2. Len(uw) = k + Len(w) /\ Len(v) = Len(b) - k
      BY <1>2, <1>3, Zenon DEF uw
    <2>3. /\ uw \o v \in Seq(Nat) /\ Len(uw \o v) = Len(uw) + Len(v)
          /\ \A x \in 1..Len(uw) : (uw \o v)[x] = uw[x]
          /\ \A x \in 1..Len(v) : (uw \o v)[Len(uw) + x] = v[x]
      BY <2>1, Joined, Zenon
    <2>4. Len(uw \o v) = Len(b) + Len(w)
      BY <1>0, <2>2, <2>3
    <2> QED BY <2>2, <2>3, <2>4, Zenon
  <1>5. ASSUME NEW x \in (k + 1)..Len(b) PROVE (uw \o v)[Len(w) + x] = b[x]
    <2>1. x - k \in 1..Len(v) /\ k + Len(w) + (x - k) = Len(w) + x
      BY <1>0, <1>2
    <2> QED BY <2>1, <1>2, <1>4, Zenon
  <1>6. \A x \in 1..k : (uw \o v)[x] = b[x]
    BY <1>0, <1>3, <1>4 DEF uw
  <1>7. \A x \in 1..Len(w) : (uw \o v)[k + x] = w[x]
    <2> SUFFICES ASSUME NEW x \in 1..Len(w) PROVE (uw \o v)[k + x] = w[x]
      BY Zenon
    <2>1. k + x \in 1..(k + Len(w))
      BY <1>0
    <2> QED BY <2>1, <1>3, <1>4, Zenon DEF uw
  <1> QED BY <1>4, <1>5, <1>6, <1>7, Zenon DEF u, v, uw
-----------------------------------------------------------------------------
(***************************************************************************)
(* What eQP writes for one character.                                      *)
(***************************************************************************)
HexDigit == (48..57) \cup (65..70)

\* deQP reads two digits as the byte that eQP wrote them for.
LEMMA EscapedIs ==
    ASSUME NEW x \in Byte
    PROVE  /\ Hex(x \div 16) \in HexDigit /\ Hex(x % 16) \in HexDigit
           /\ HexValue(Hex(x \div 16)) < 16 /\ HexValue(Hex(x % 16)) < 16
           /\ 16 * HexValue(Hex(x \div 16)) + HexValue(Hex(x % 16)) = x
  <1>1. ASSUME NEW n \in 0..15
        PROVE  Hex(n) \in HexDigit /\ HexValue(Hex(n)) = n
    BY DEF Hex, HexValue, HexDigit
  <1>2. x \div 16 \in 0..15 /\ x % 16 \in 0..15 /\ 16 * (x \div 16) + (x % 16) = x
    <2>1. x \in Nat /\ x <= 255
      BY DEF Byte
    <2>2. x \div 16 \in Nat /\ x % 16 \in Nat /\ x % 16 <= 15 /\ x = 16 * (x \div 16) + (x % 16)
      BY <2>1
    <2> QED BY <2>1, <2>2
  <1>3. /\ Hex(x \div 16) \in HexDigit /\ HexValue(Hex(x \div 16)) = x \div 16
        /\ Hex(x % 16) \in HexDigit /\ HexValue(Hex(x % 16)) = x % 16
    BY <1>1, <1>2, Zenon
  <1> QED BY <1>2, <1>3

\* The three characters for an encoded byte.
LEMMA EscapedType ==
    ASSUME NEW x \in Byte
    PROVE  /\ Escaped(x) \in Seq(Nat) /\ Len(Escaped(x)) = 3 /\ Escaped(x)[1] = Equals
           /\ Escaped(x)[2] = Hex(x \div 16) /\ Escaped(x)[3] = Hex(x % 16)
  BY EscapedIs DEF Escaped, Equals, HexDigit

\* The piece that a soft line break moves starts after a blank, or is empty.
LEMMA MovedIs ==
    ASSUME NEW b \in Seq(Nat), Len(b) >= 9
    PROVE  /\ Moved(b) \in 0..8
           /\ Moved(b) # 0 => b[Len(b) - Moved(b)] = Space
  <1> DEFINE Blank == {j \in 1..9 : b[Len(b) + 1 - j] = Space}
             R == OpToRel(<, Nat)
  <1>1. CASE Blank = {}
    BY <1>1 DEF Moved
  <1>2. CASE Blank # {}
    <2>1. IsWellFoundedOn(R, Nat)
      BY NatLessThanWellFounded, Zenon
    <2>2. PICK j \in Blank : \A k \in Blank : ~(<<k, j>> \in R)
      <3>1. Blank \in SUBSET Nat
        OBVIOUS
      <3> HIDE DEF R, Blank
      <3> QED BY <1>2, <2>1, <3>1, WFMin, Zenon
    <2>3. \A k \in Blank : j <= k
      <3>1. Blank \in SUBSET Nat /\ j \in Nat
        OBVIOUS
      <3>2. \A k \in Nat : k < j => <<k, j>> \in R
        BY <3>1, Zenon DEF OpToRel
      <3> HIDE DEF R, Blank
      <3>3. ASSUME NEW k \in Blank PROVE j <= k
        <4>1. k \in Nat /\ ~(k < j)
          BY <2>2, <3>1, <3>2, Zenon
        <4> QED BY <3>1, <4>1
      <3> QED BY <3>3, Zenon
    <2> DEFINE first == CHOOSE k \in Blank : \A l \in Blank : k <= l
    <2>4. first \in Blank
      BY <2>3, Zenon
    <2>5. Moved(b) = first - 1
      BY <1>2, Zenon DEF Moved
    <2> HIDE DEF first
    <2>6. first \in 1..9 /\ b[Len(b) + 1 - first] = Space
      BY <2>4, Zenon
    <2>7. Len(b) + 1 - first = Len(b) - Moved(b)
      BY <2>5, <2>6
    <2> QED BY <2>5, <2>6, <2>7
  <1> QED BY <1>1, <1>2, Zenon

\* A soft line break in a sequence.
LEMMA SoftBreakIs ==
    ASSUME NEW b \in Seq(Nat), Len(b) >= 9
    PROVE  /\ SoftBreak(b) \in Seq(Nat) /\ Len(SoftBreak(b)) = Len(b) + 3
           /\ \A x \in 1..(Len(b) - Moved(b)) : SoftBreak(b)[x] = b[x]
           /\ SoftBreak(b)[Len(b) - Moved(b) + 1] = Equals
           /\ SoftBreak(b)[Len(b) - Moved(b) + 2] = CR
           /\ SoftBreak(b)[Len(b) - Moved(b) + 3] = LF
           /\ \A x \in (Len(b) - Moved(b) + 1)..Len(b) : SoftBreak(b)[3 + x] = b[x]
  <1> DEFINE k == Len(b) - Moved(b)
             w == <<Equals, CR, LF>>
  <1>1. k \in 0..Len(b)
    <2>1. Moved(b) \in 0..8
      BY MovedIs, Zenon
    <2>2. Len(b) \in Nat
      OBVIOUS
    <2>3. \A x \in 0..8, y \in Nat : y >= 9 => y - x \in 0..y
      OBVIOUS
    <2> QED BY <2>1, <2>2, <2>3, Zenon
  <1>2. w \in Seq(Nat) /\ Len(w) = 3 /\ w[1] = Equals /\ w[2] = CR /\ w[3] = LF
    BY DEF Equals, CR, LF
  <1>3. SoftBreak(b) = SubSeq(b, 1, k) \o w \o SubSeq(b, k + 1, Len(b))
    BY Zenon DEF SoftBreak
  <1> HIDE DEF k, w
  <1>4. /\ SoftBreak(b) \in Seq(Nat) /\ Len(SoftBreak(b)) = Len(b) + Len(w)
        /\ \A x \in 1..k : SoftBreak(b)[x] = b[x]
        /\ \A x \in 1..Len(w) : SoftBreak(b)[k + x] = w[x]
        /\ \A x \in (k + 1)..Len(b) : SoftBreak(b)[Len(w) + x] = b[x]
    <2> DEFINE d == SubSeq(b, 1, k) \o w \o SubSeq(b, k + 1, Len(b))
    <2>1. /\ d \in Seq(Nat) /\ Len(d) = Len(b) + Len(w)
          /\ \A x \in 1..k : d[x] = b[x]
          /\ \A x \in 1..Len(w) : d[k + x] = w[x]
          /\ \A x \in (k + 1)..Len(b) : d[Len(w) + x] = b[x]
      BY <1>1, <1>2, Spliced, Zenon
    <2> HIDE DEF d
    <2>2. SoftBreak(b) = d
      BY <1>3, Zenon DEF d
    <2> QED BY <2>1, <2>2, Zenon
  <1>5. /\ SoftBreak(b)[k + 1] = Equals /\ SoftBreak(b)[k + 2] = CR
        /\ SoftBreak(b)[k + 3] = LF
    BY <1>2, <1>4
  <1> QED BY <1>2, <1>4, <1>5, Zenon DEF k

\* A blank at the end becomes three characters, everything before it stays.
LEMMA ProtectedIs ==
    ASSUME NEW b \in Seq(Nat), b # <<>>, b[Len(b)] = Space
    PROVE  /\ Protected(b) \in Seq(Nat) /\ Len(Protected(b)) = Len(b) + 2
           /\ \A x \in 1..(Len(b) - 1) : Protected(b)[x] = b[x]
           /\ Protected(b)[Len(b)] = Equals
           /\ Protected(b)[Len(b) + 1] = Hex(Space \div 16)
           /\ Protected(b)[Len(b) + 2] = Hex(Space % 16)
  <1> DEFINE u == SubSeq(b, 1, Len(b) - 1)
             w == Escaped(Space)
  <1>1. Len(b) \in Nat /\ Len(b) >= 1
    OBVIOUS
  <1>2. /\ u \in Seq(Nat) /\ Len(u) = Len(b) - 1
        /\ \A x \in 1..(Len(b) - 1) : u[x] = b[x]
    <2>1. \A x \in 1..(Len(b) - 1) : b[x] \in Nat
      BY <1>1
    <2>2. /\ u \in Seq(Nat)
          /\ Len(u) = IF 1 <= Len(b) - 1 THEN (Len(b) - 1) - 1 + 1 ELSE 0
          /\ \A x \in 1..((Len(b) - 1) - 1 + 1) : u[x] = b[1 + x - 1]
      <3>1. 1 \in Int /\ Len(b) - 1 \in Int
        BY <1>1
      <3> QED BY <2>1, <3>1, SubSeqProperties
    <2> HIDE DEF u
    <2>3. Len(u) = Len(b) - 1
      <3>1. Len(u) = IF 1 <= Len(b) - 1 THEN (Len(b) - 1) - 1 + 1 ELSE 0
        BY <2>2, Zenon
      <3>2. \A y \in Nat : y >= 1 => (IF 1 <= y - 1 THEN (y - 1) - 1 + 1 ELSE 0) = y - 1
        OBVIOUS
      <3> QED BY <1>1, <3>1, <3>2, Zenon
    <2>4. ASSUME NEW x \in 1..(Len(b) - 1) PROVE u[x] = b[x]
      <3>1. x \in 1..((Len(b) - 1) - 1 + 1) /\ 1 + x - 1 = x
        BY <1>1
      <3> QED BY <2>2, <3>1, Zenon
    <2> QED BY <2>2, <2>3, <2>4, Zenon DEF u
  <1>3. /\ w \in Seq(Nat) /\ Len(w) = 3 /\ w[1] = Equals
        /\ w[2] = Hex(Space \div 16) /\ w[3] = Hex(Space % 16)
    BY EscapedType DEF Space, Byte
  <1>4. Protected(b) = u \o w
    BY Zenon DEF Protected
  <1> HIDE DEF u, w
  <1>5. /\ Protected(b) \in Seq(Nat) /\ Len(Protected(b)) = Len(u) + Len(w)
        /\ \A x \in 1..Len(u) : Protected(b)[x] = u[x]
        /\ \A x \in 1..Len(w) : Protected(b)[Len(u) + x] = w[x]
    <2>1. /\ u \o w \in Seq(Nat) /\ Len(u \o w) = Len(u) + Len(w)
          /\ \A x \in 1..Len(u) : (u \o w)[x] = u[x]
          /\ \A x \in 1..Len(w) : (u \o w)[Len(u) + x] = w[x]
      BY <1>2, <1>3, Joined, Zenon
    <2> QED BY <1>4, <2>1, Zenon
  <1>6. /\ Protected(b)[Len(u) + 1] = w[1] /\ Protected(b)[Len(u) + 2] = w[2]
        /\ Protected(b)[Len(u) + 3] = w[3]
    BY <1>3, <1>5
  <1>7. Len(u) + 1 = Len(b) /\ Len(u) + 2 = Len(b) + 1 /\ Len(u) + 3 = Len(b) + 2
    BY <1>1, <1>2
  <1> QED BY <1>1, <1>2, <1>3, <1>5, <1>6, <1>7, Zenon

\* Without a blank at its end a line stays as it is.
LEMMA ProtectedNothing ==
    ASSUME NEW b \in Seq(Nat), b # <<>> => b[Len(b)] # Space
    PROVE  Protected(b) = b
  BY Zenon DEF Protected
-----------------------------------------------------------------------------
(***************************************************************************)
(* The lines of eQP.  L characters are written, the last n of them on the  *)
(* present line.                                                           *)
(***************************************************************************)
LineEnd == {CR, LF}

Unbroken(b, x, y) == \A k \in x..y : b[k] \notin LineEnd

QPLineInv(b, L, n) ==
    /\ n \in 0..75 /\ n <= L
    /\ Unbroken(b, L - n + 1, L)
    /\ n < L => b[L - n] \in LineEnd
    /\ L > 0 /\ b[L] = Space => n \in 1..73
    /\ \A k \in 2..L : b[k] \in LineEnd => b[k - 1] # Space
    /\ \A x, y \in 1..L : x <= y /\ Unbroken(b, x, y) => y - x + 1 <= 76

\* Characters that end no line are added to a line of at most 72.
LEMMA LineAppend ==
    ASSUME NEW b, NEW d, NEW L \in Nat, NEW n \in 0..72, NEW w \in 1..3, QPLineInv(b, L, n),
           \A x \in 1..L : d[x] = b[x],
           \A x \in (L + 1)..(L + w) : d[x] \notin LineEnd,
           d[L + w] = Space => w = 1
    PROVE  QPLineInv(d, L + w, n + w)
  <1> USE DEF QPLineInv, Unbroken
  <1>1. n + w \in 0..75 /\ n + w <= L + w
    OBVIOUS
  <1>2. ASSUME NEW k \in (L + w - (n + w) + 1)..(L + w) PROVE d[k] \notin LineEnd
    <2>1. CASE k <= L
      BY <2>1
    <2>2. CASE k > L
      BY <2>2
    <2> QED BY <2>1, <2>2
  <1>3. n + w < L + w => d[L + w - (n + w)] \in LineEnd
    <2>1. L + w - (n + w) = L - n
      OBVIOUS
    <2> QED BY <2>1
  <1>4. d[L + w] = Space => n + w \in 1..73
    OBVIOUS
  <1>5. ASSUME NEW k \in 2..(L + w), d[k] \in LineEnd PROVE d[k - 1] # Space
    <2>1. k <= L
      BY <1>5
    <2> QED BY <1>5, <2>1
  <1>6. ASSUME NEW x \in 1..(L + w), NEW y \in 1..(L + w), x <= y, Unbroken(d, x, y)
        PROVE  y - x + 1 <= 76
    <2>1. CASE y <= L
      <3>1. x \in 1..L /\ y \in 1..L
        BY <1>6, <2>1
      <3>2. Unbroken(b, x, y)
        BY <1>6, <3>1
      <3> QED BY <1>6, <3>1, <3>2, Zenon
    <2>2. CASE y > L
      <3>1. x > L - n
        <4>1. SUFFICES ASSUME x <= L - n PROVE FALSE
          OBVIOUS
        <4>2. L - n \in x..y /\ L - n \in 1..L /\ n < L
          BY <2>2, <4>1
        <4> QED BY <1>6, <4>2, Zenon
      <3> QED BY <2>2, <3>1
    <2> QED BY <2>1, <2>2
  <1> QED BY <1>1, <1>2, <1>3, <1>4, <1>5, <1>6

\* A soft line break leaves v characters for the next line.
LEMMA LineSoftBreak ==
    ASSUME NEW b, NEW d, NEW L \in Nat, NEW n \in 73..75, NEW v \in 0..8, QPLineInv(b, L, n),
           \A x \in 1..(L - v) : d[x] = b[x],
           d[L - v + 1] = Equals, d[L - v + 2] = CR, d[L - v + 3] = LF,
           \A x \in (L - v + 1)..L : d[3 + x] = b[x]
    PROVE  QPLineInv(d, L + 3, v)
  <1> USE DEF QPLineInv, Unbroken
  <1>0. L >= 73 /\ Equals \notin LineEnd /\ Equals # Space /\ CR \in LineEnd /\ LF \in LineEnd
        /\ CR # Space /\ LF # Space
    BY DEF Equals, LineEnd, CR, LF, Space
  <1>1. ASSUME NEW k \in (L + 3 - v + 1)..(L + 3) PROVE d[k] \notin LineEnd /\ d[k] = b[k - 3]
    <2>1. k - 3 \in (L - v + 1)..L /\ k - 3 \in (L - n + 1)..L /\ 3 + (k - 3) = k
      BY <1>0
    <2> QED BY <2>1, Zenon
  <1>2. d[L + 3 - v] \in LineEnd
    <2>1. L + 3 - v = L - v + 3
      OBVIOUS
    <2> QED BY <1>0, <2>1, Zenon
  <1>3. d[L + 3] = Space => v \in 1..73
    <2>1. ASSUME v = 0 PROVE d[L + 3] # Space
      <3>1. L - v + 3 = L + 3
        BY <2>1
      <3> QED BY <1>0, <3>1, Zenon
    <2> QED BY <2>1
  <1>4. ASSUME NEW k \in 2..(L + 3), d[k] \in LineEnd PROVE d[k - 1] # Space
    <2>1. k <= L - v + 3
      <3>1. SUFFICES ASSUME k > L - v + 3 PROVE FALSE
        OBVIOUS
      <3> QED BY <1>1, <1>4, <3>1
    <2>2. CASE k <= L - v
      <3>1. k \in 1..(L - v) /\ k - 1 \in 1..(L - v) /\ k \in 2..L
        BY <1>0, <2>2
      <3> QED BY <1>4, <3>1, Zenon
    <2>3. CASE k = L - v + 1
      BY <1>0, <1>4, <2>3, Zenon
    <2>4. CASE k = L - v + 2
      <3>1. k - 1 = L - v + 1
        BY <2>4
      <3> QED BY <1>0, <3>1, Zenon
    <2>5. CASE k = L - v + 3
      <3>1. k - 1 = L - v + 2
        BY <2>5
      <3> QED BY <1>0, <3>1, Zenon
    <2> QED BY <2>1, <2>2, <2>3, <2>4, <2>5
  <1>5. ASSUME NEW x \in 1..(L + 3), NEW y \in 1..(L + 3), x <= y, Unbroken(d, x, y)
        PROVE  y - x + 1 <= 76
    <2>1. CASE y <= L - v
      <3>1. x \in 1..L /\ y \in 1..L /\ x..y \subseteq 1..(L - v)
        BY <1>5, <2>1
      <3>2. Unbroken(b, x, y)
        BY <1>5, <3>1, Zenon
      <3> QED BY <1>5, <3>1, <3>2, Zenon
    <2>2. CASE y = L - v + 1
      <3>1. x > L - n
        <4>1. SUFFICES ASSUME x <= L - n PROVE FALSE
          OBVIOUS
        <4>2. L - n \in x..y /\ L - n \in 1..(L - v) /\ n < L
          BY <1>0, <2>2, <4>1
        <4> QED BY <1>5, <4>2, Zenon
      <3> QED BY <2>2, <3>1
    <2>3. CASE y > L - v + 1
      <3>1. x > L - v + 3
        <4>1. SUFFICES ASSUME x <= L - v + 3 PROVE FALSE
          OBVIOUS
        <4>2. L - v + 2 \in x..y \/ L - v + 3 \in x..y
          BY <2>3, <4>1, <1>5
        <4> QED BY <1>0, <1>5, <4>2, Zenon
      <3> QED BY <3>1
    <2> QED BY <2>1, <2>2, <2>3
  <1>6. v \in 0..75 /\ v <= L + 3
    BY <1>0
  <1> QED BY <1>1, <1>2, <1>3, <1>4, <1>5, <1>6
\* The blank at the end of the line is encoded.
LEMMA LineProtect ==
    ASSUME NEW b, NEW d, NEW L \in Nat \ {0}, NEW n \in Nat, QPLineInv(b, L, n), b[L] = Space,
           \A x \in 1..(L - 1) : d[x] = b[x],
           \A x \in L..(L + 2) : d[x] \notin LineEnd /\ d[x] # Space
    PROVE  QPLineInv(d, L + 2, n + 2) /\ d[L + 2] # Space
  <1> USE DEF QPLineInv, Unbroken
  <1>0. n \in 1..73 /\ d[L + 2] # Space
    OBVIOUS
  <1>1. ASSUME NEW k \in (L + 2 - (n + 2) + 1)..(L + 2) PROVE d[k] \notin LineEnd
    <2>1. CASE k < L
      <3>1. k \in (L - n + 1)..L /\ k \in 1..(L - 1)
        BY <1>0, <2>1
      <3> QED BY <3>1, Zenon
    <2>2. CASE k >= L
      BY <2>2
    <2> QED BY <2>1, <2>2
  <1>2. n + 2 < L + 2 => d[L + 2 - (n + 2)] \in LineEnd
    <2>1. L + 2 - (n + 2) = L - n /\ (n < L => L - n \in 1..(L - 1))
      BY <1>0
    <2> QED BY <2>1
  <1>3. ASSUME NEW k \in 2..(L + 2), d[k] \in LineEnd PROVE d[k - 1] # Space
    <2>1. k < L
      BY <1>3
    <2>2. k \in 1..(L - 1) /\ k - 1 \in 1..(L - 1) /\ k \in 2..L
      BY <2>1
    <2> QED BY <1>3, <2>2, Zenon
  <1>4. ASSUME NEW x \in 1..(L + 2), NEW y \in 1..(L + 2), x <= y, Unbroken(d, x, y)
        PROVE  y - x + 1 <= 76
    <2>1. CASE y < L
      <3>1. x \in 1..L /\ y \in 1..L /\ x..y \subseteq 1..(L - 1)
        BY <1>4, <2>1
      <3>2. Unbroken(b, x, y)
        BY <1>4, <3>1, Zenon
      <3> QED BY <1>4, <3>1, <3>2, Zenon
    <2>2. CASE y >= L
      <3>1. x > L - n
        <4>1. SUFFICES ASSUME x <= L - n PROVE FALSE
          OBVIOUS
        <4>2. L - n \in x..y /\ L - n \in 1..(L - 1) /\ n < L
          BY <1>0, <2>2, <4>1
        <4> QED BY <1>4, <4>2, Zenon
      <3> QED BY <1>0, <2>2, <3>1
    <2> QED BY <2>1, <2>2
  <1> QED BY <1>0, <1>1, <1>2, <1>3, <1>4

\* A line feed, with or without a CR, ends a line without a blank before it.
LEMMA LineFeedEnds ==
    ASSUME NEW b, NEW d, NEW L \in Nat, NEW n \in Nat, NEW w \in 1..2, QPLineInv(b, L, n),
           L > 0 => b[L] # Space,
           \A x \in 1..L : d[x] = b[x],
           \A x \in (L + 1)..(L + w) : d[x] \in LineEnd
    PROVE  QPLineInv(d, L + w, 0)
  <1> USE DEF QPLineInv, Unbroken
  <1>1. d[L + w] \in LineEnd /\ d[L + w] # Space /\ L + w - 0 = L + w
    BY DEF LineEnd, CR, LF, Space
  <1>2. ASSUME NEW k \in 2..(L + w), d[k] \in LineEnd PROVE d[k - 1] # Space
    <2>1. CASE k <= L
      <3>1. k \in 1..L /\ k - 1 \in 1..L
        BY <2>1
      <3> QED BY <1>2, <2>1, <3>1
    <2>2. CASE k = L + 1
      <3>1. k - 1 = L /\ L \in 1..L
        BY <2>2
      <3> QED BY <3>1
    <2>3. CASE k = L + 2
      <3>1. k - 1 = L + 1 /\ L + 1 \in (L + 1)..(L + w)
        BY <2>3
      <3>2. d[k - 1] \in LineEnd
        BY <3>1, Zenon
      <3> QED BY <3>2 DEF LineEnd, CR, LF, Space
    <2> QED BY <2>1, <2>2, <2>3
  <1>3. ASSUME NEW x \in 1..(L + w), NEW y \in 1..(L + w), x <= y, Unbroken(d, x, y)
        PROVE  y - x + 1 <= 76
    <2>1. y <= L
      <3>1. y \in x..y
        BY <1>3
      <3> QED BY <1>3, <3>1
    <2>2. x \in 1..L /\ y \in 1..L /\ x..y \subseteq 1..L
      BY <1>3, <2>1
    <2>3. Unbroken(b, x, y)
      BY <1>3, <2>2, Zenon
    <2> QED BY <1>3, <2>2, <2>3, Zenon
  <1>4. 0 \in 0..75 /\ 0 <= L + w /\ (L + w - 0 + 1)..(L + w) = {}
    OBVIOUS
  <1> QED BY <1>1, <1>2, <1>3, <1>4
-----------------------------------------------------------------------------
\* What deQP makes of a character other than the equals sign.
ReadAs(x) == IF underscore /\ x = Underscore THEN Space ELSE x

WrittenFor(w, k) ==
    \/ w = Escaped(s[k])
    \/ \E x \in Nat \ {Equals, CR, LF} : w = <<x>> /\ s[k] = ReadAs(x)

\* eQP writes a character that deQP reads as the one given, or encodes it.
LEMMA WrittenIs ==
    ASSUME s \in Seq(Byte), NEW k \in 1..Len(s), NEW first
    PROVE  WrittenFor(Written(k, first), k)
  <1> USE DEF WrittenFor
  <1>1. s[k] \in Nat
    <2>1. s[k] \in Byte
      OBVIOUS
    <2>2. \A x \in Byte : x \in Nat
      BY DEF Byte
    <2> QED BY <2>1, <2>2, Zenon
  <1>2. CASE underscore /\ s[k] = Space
    <2>1. Written(k, first) = <<Underscore>> /\ ReadAs(Underscore) = Space
      BY <1>2, Zenon DEF Written, ReadAs
    <2>2. Underscore \in Nat \ {Equals, CR, LF}
      BY DEF Underscore, Equals, CR, LF
    <2> QED BY <1>2, <2>1, <2>2, Zenon
  <1>3. CASE ~(underscore /\ s[k] = Space) /\ Written(k, first) = <<s[k]>> /\ Written(k, first) # Escaped(s[k])
    <2>1. ~(underscore /\ s[k] \notin Alphanumeric)
      BY <1>3, Zenon DEF Written
    <2>2. (s[k] \in Space..126 /\ s[k] # Equals) \/ s[k] = Tab
      BY <1>3, Zenon DEF Written
    <2>3. s[k] \in Nat \ {Equals, CR, LF}
      <3>1. \A x \in Nat : (x \in Space..126 /\ x # Equals) \/ x = Tab => x \in Nat \ {Equals, CR, LF}
        BY DEF Space, Tab, Equals, CR, LF
      <3> QED BY <1>1, <2>2, <3>1, Zenon
    <2>4. ~(underscore /\ s[k] = Underscore)
      <3>1. Underscore \notin Alphanumeric
        BY DEF Alphanumeric, Underscore
      <3> QED BY <2>1, <3>1, Zenon
    <2>5. ReadAs(s[k]) = s[k]
      BY <2>4, Zenon DEF ReadAs
    <2> QED BY <1>3, <2>3, <2>5, Zenon
  <1>4. \/ underscore /\ s[k] = Space
        \/ Written(k, first) = <<s[k]>>
        \/ Written(k, first) = Escaped(s[k])
    BY Zenon DEF Written
  <1> QED BY <1>2, <1>3, <1>4, Zenon

\* A character becomes one character or three.
LEMMA WrittenForType ==
    ASSUME s \in Seq(Byte), NEW k \in 1..Len(s), NEW w, WrittenFor(w, k)
    PROVE  w \in Seq(Nat) /\ Len(w) \in {1, 3}
  <1>1. s[k] \in Byte
    OBVIOUS
  <1>2. CASE w = Escaped(s[k])
    BY <1>1, <1>2, EscapedType, Zenon
  <1>3. ASSUME NEW x \in Nat, w = <<x>> PROVE w \in Seq(Nat) /\ Len(w) \in {1, 3}
    BY <1>3
  <1> QED BY <1>2, <1>3, Zenon DEF WrittenFor

\* The step that eQP makes for a character: the line may be broken first.
BrokenOrNot(b, n) ==
    IF c > 72 THEN b = SoftBreak(buf) /\ n = Moved(buf) ELSE b = buf /\ n = c

\* What eQP adds to its text for one character.
LEMMA QPCharIs ==
    ASSUME TransferType, QPChar
    PROVE  \E b \in Seq(Nat), n \in Nat, w \in Seq(Nat) :
               /\ BrokenOrNot(b, n) /\ n <= Len(b)
               /\ WrittenFor(w, i + 1) /\ Len(w) \in {1, 3}
               /\ buf' = b \o w /\ c' = n + Len(w)
  <1> DEFINE b == IF c > 72 THEN SoftBreak(buf) ELSE buf
             n == IF c > 72 THEN Moved(buf) ELSE c
             w == Written(i + 1, n = 0)
  <1>1. buf' = b \o w /\ c' = n + Len(w)
    BY Zenon DEF QPChar, LineLong
  <1>2. i + 1 \in 1..Len(s) /\ s \in Seq(Byte)
    BY DEF TransferType, QPChar
  <1>3. WrittenFor(w, i + 1)
    BY <1>2, WrittenIs, Zenon
  <1>4. buf \in Seq(Nat) /\ c \in Nat /\ Len(buf) \in Nat /\ c <= Len(buf)
    BY DEF TransferType, QPChar
  <1>5. b \in Seq(Nat) /\ n \in Nat /\ n <= Len(b)
    <2>1. CASE c > 72
      <3>1. Len(buf) >= 9
        BY <1>4, <2>1
      <3>2. SoftBreak(buf) \in Seq(Nat) /\ Len(SoftBreak(buf)) = Len(buf) + 3 /\ Moved(buf) \in 0..8
        BY <1>4, <3>1, SoftBreakIs, MovedIs, Zenon
      <3>3. Moved(buf) \in Nat /\ Moved(buf) <= Len(SoftBreak(buf))
        <4>1. Len(SoftBreak(buf)) = Len(buf) + 3 /\ Moved(buf) \in 0..8 /\ Len(buf) \in Nat
          BY <1>4, <3>2, Zenon
        <4> QED BY <3>1, <4>1
      <3>4. b = SoftBreak(buf) /\ n = Moved(buf)
        BY <2>1, Zenon
      <3> HIDE DEF b, n
      <3>5. b \in Seq(Nat) /\ n \in Nat /\ n <= Len(b)
        BY <3>2, <3>3, <3>4, Zenon
      <3> QED BY <3>5, Zenon DEF b, n
    <2>2. CASE ~(c > 72)
      BY <1>4, <2>2, Zenon
    <2> QED BY <2>1, <2>2, Zenon
  <1>6. BrokenOrNot(b, n)
    BY Zenon DEF BrokenOrNot
  <1> HIDE DEF b, n, w
  <1>7. w \in Seq(Nat) /\ Len(w) \in {1, 3}
    BY <1>2, <1>3, WrittenForType, Zenon
  <1> QED BY <1>1, <1>3, <1>5, <1>6, <1>7, Zenon
-----------------------------------------------------------------------------
(***************************************************************************)
(* Every step keeps the types.                                             *)
(***************************************************************************)
\* Of three bytes e64 makes four characters of its alphabet.
LEMMA EncodedIs ==
    ASSUME NEW x \in Byte, NEW y \in Byte, NEW z \in Byte
    PROVE  /\ Encoded(x, y, z) \in Seq(Nat) /\ Len(Encoded(x, y, z)) = 4
           /\ Encoded(x, y, z)[1] = x \div 4
           /\ Encoded(x, y, z)[2] = (x % 4) * 16 + (y \div 16)
           /\ Encoded(x, y, z)[3] = (y % 16) * 4 + (z \div 64)
           /\ Encoded(x, y, z)[4] = z % 64
           /\ \A k \in 1..4 : Encoded(x, y, z)[k] \in 0..63
  <1>1. /\ x \div 4 \in 0..63 /\ (x % 4) * 16 + (y \div 16) \in 0..63
        /\ (y % 16) * 4 + (z \div 64) \in 0..63 /\ z % 64 \in 0..63
    BY DEF Byte
  <1> QED BY <1>1 DEF Encoded

\* The rest of a string is four characters of base-64, or none.
LEMMA RestType ==
    ASSUME s \in Seq(Byte), i \in 0..Len(s)
    PROVE  /\ Rest \in Seq(Nat) /\ Len(Rest) \in {0, 4}
           /\ \A k \in 1..Len(Rest) : Rest[k] \in 0..64
  <1>1. CASE i < Len(s)
    <2> DEFINE y == IF i + 1 < Len(s) THEN s[i + 2] ELSE 0
               r == Encoded(s[i + 1], y, 0)
    <2>1. s[i + 1] \in Byte
      BY <1>1
    <2>2. y \in Byte /\ 0 \in Byte
      <3>1. 0 \in Byte
        BY DEF Byte
      <3> QED BY <3>1
    <2>3. /\ r[1] \in 0..63 /\ r[2] \in 0..63 /\ r[3] \in 0..63
      <3>1. \A k \in 1..4 : r[k] \in 0..63
        BY <2>1, <2>2, EncodedIs, Zenon
      <3> HIDE DEF r
      <3>2. r[1] \in 0..63 /\ r[2] \in 0..63 /\ r[3] \in 0..63
        BY <3>1
      <3> QED BY <3>2, Zenon DEF r
    <2>4. Rest = <<r[1], r[2], IF i + 1 < Len(s) THEN r[3] ELSE 64, 64>>
      BY <1>1, Zenon DEF Rest, Pad
    <2> DEFINE q == IF i + 1 < Len(s) THEN r[3] ELSE 64
    <2> HIDE DEF r
    <2>5. q \in 0..64 /\ r[1] \in 0..64 /\ r[2] \in 0..64 /\ 64 \in 0..64
      BY <2>3
    <2>6. Rest = <<r[1], r[2], q, 64>>
      BY <2>4, Zenon
    <2> HIDE DEF q
    <2>7. ASSUME NEW a1 \in 0..64, NEW a2 \in 0..64, NEW a3 \in 0..64, NEW a4 \in 0..64
          PROVE  /\ <<a1, a2, a3, a4>> \in Seq(Nat) /\ Len(<<a1, a2, a3, a4>>) = 4
                 /\ \A k \in 1..4 : <<a1, a2, a3, a4>>[k] \in 0..64
      OBVIOUS
    <2> QED BY <2>5, <2>6, <2>7, Zenon
  <1>2. CASE ~(i < Len(s))
    BY <1>2 DEF Rest
  <1> QED BY <1>1, <1>2, Zenon

\* The types hold at the start.
LEMMA TransferTypeInit ==
    ASSUME CInit PROVE TransferType
  <1>1. s \in Seq(Byte) /\ lineLength \in Nat
    <2>1. s \in Strings \/ s = <<>> \/ s \in QPStrings
      BY Zenon DEF CInit
    <2>2. lineLength \in LineLengths \/ lineLength \in {0, 72}
      BY Zenon DEF CInit
    <2>3. <<>> \in Seq(Byte) /\ {0, 72} \subseteq Nat
      OBVIOUS
    <2> QED BY <2>1, <2>2, <2>3, TransferAssumption, Zenon
  <1>2. buf \in Seq(Nat)
    <2>1. CASE e = "foreign"
      <3>1. buf \in Seq(Byte)
        BY <2>1, TransferAssumption, Zenon DEF CInit
      <3>2. Byte \subseteq Nat
        BY DEF Byte
      <3> QED BY <3>1, <3>2, SeqMonotonic, Zenon
    <2>2. CASE e # "foreign"
      BY <2>2 DEF CInit
    <2> QED BY <2>1, <2>2, Zenon
  <1>3. 0 \in 0..Len(s) /\ Len(buf) \in Nat
    BY <1>1, <1>2
  <1>4. i = 0 /\ c = 0 /\ noise = 0 /\ p = 0 /\ m = 0 /\ decoded = 0 /\ out = <<>>
    BY Zenon DEF CInit
  <1>5. /\ e \in {"base64", "qp", "word", "binary", "foreign"}
        /\ pc = IF e = "foreign" THEN "decode" ELSE "encode"
    BY Zenon DEF CInit
  <1> QED BY <1>1, <1>2, <1>3, <1>4, <1>5 DEF TransferType, Byte
\* What eQP has at the end of a line, ready for the line feed.
LEMMA ProtectedType ==
    ASSUME NEW b \in Seq(Nat)
    PROVE  Protected(b) \in Seq(Nat) /\ Len(Protected(b)) \in {Len(b), Len(b) + 2}
  <1>1. CASE b # <<>> /\ b[Len(b)] = Space
    BY <1>1, ProtectedIs, Zenon
  <1>2. CASE ~(b # <<>> /\ b[Len(b)] = Space)
    BY <1>2, ProtectedNothing, Zenon
  <1> QED BY <1>1, <1>2, Zenon

\* The end of a line keeps the types.
LEMMA TypeQPLineFeed ==
    ASSUME TransferType, QPLineFeed PROVE TransferType'
  <1> DEFINE w == IF BareLF THEN <<LF>> ELSE <<CR, LF>>
  <1>1. w \in Seq(Nat)
    BY DEF LF, CR
  <1>2. Protected(buf) \in Seq(Nat)
    BY ProtectedType, Zenon DEF TransferType
  <1>3. buf' \in Seq(Nat)
    <2>1. buf' = Protected(buf) \o w
      BY Zenon DEF QPLineFeed
    <2> HIDE DEF w
    <2> QED BY <1>1, <1>2, <2>1, Joined, Zenon
  <1>4. i' \in 0..Len(s')
    <2>1. i \in 0..Len(s) /\ Len(s) \in Nat
      BY DEF TransferType
    <2>2. (IF BareLF THEN i + 1 ELSE i + 2) \in 0..Len(s)
      BY <2>1 DEF QPLineFeed, CRLF
    <2> QED BY <2>2, Zenon DEF QPLineFeed
  <1>5. c' = 0 /\ Len(buf') \in Nat
    BY <1>3 DEF QPLineFeed
  <1> QED BY <1>3, <1>4, <1>5 DEF TransferType, QPLineFeed

\* A character that eQP writes keeps the types.
LEMMA TypeQPChar ==
    ASSUME TransferType, QPChar PROVE TransferType'
  <1>1. PICK b \in Seq(Nat), n \in Nat, w \in Seq(Nat) :
            n <= Len(b) /\ buf' = b \o w /\ c' = n + Len(w)
    BY QPCharIs, Zenon
  <1>2. buf' \in Seq(Nat) /\ Len(buf') = Len(b) + Len(w)
    BY <1>1, Joined, Zenon
  <1>3. Len(b) \in Nat /\ Len(w) \in Nat
    OBVIOUS
  <1>4. c' \in Nat /\ c' <= Len(buf')
    <2>1. n <= Len(b) /\ c' = n + Len(w) /\ Len(buf') = Len(b) + Len(w)
      BY <1>1, <1>2, Zenon
    <2> QED BY <1>3, <2>1
  <1>5. i' \in 0..Len(s')
    <2>1. i \in 0..Len(s) /\ Len(s) \in Nat
      BY DEF TransferType
    <2> QED BY <2>1 DEF QPChar
  <1> QED BY <1>2, <1>4, <1>5, Zenon DEF TransferType, QPChar

\* White space that is added to quoted-printable keeps the types.
LEMMA TypeQPInsert ==
    ASSUME TransferType, NEW k \in 1..(Len(buf) - 1), QPInsert(k) PROVE TransferType'
  <1>1. buf \in Seq(Nat) /\ Len(buf) \in Nat /\ c \in Nat /\ noise \in Nat
    BY DEF TransferType
  <1>2. k \in 0..Len(buf) /\ <<Space>> \in Seq(Nat) /\ Len(<<Space>>) = 1
    BY <1>1 DEF Space
  <1>3. buf' \in Seq(Nat) /\ Len(buf') = Len(buf) + 1
    BY <1>1, <1>2, Spliced, Zenon DEF QPInsert
  <1>4. c <= Len(buf) => c' <= Len(buf')
    BY <1>1, <1>3 DEF QPInsert
  <1>5. noise' \in Nat /\ pc' = "sent" /\ c' = c
    BY <1>1 DEF QPInsert
  <1> QED BY <1>1, <1>3, <1>4, <1>5, Zenon DEF TransferType, QPInsert

\* A group that e64 writes keeps the types.
LEMMA TypeGroup ==
    ASSUME TransferType, e = "base64", Group, e' = e PROVE TransferType'
  <1>1. i \in 0..Len(s) /\ Len(s) \in Nat /\ i + 3 <= Len(s) /\ s \in Seq(Byte) /\ buf \in Seq(Nat)
    BY DEF TransferType, Group
  <1> DEFINE w == Encoded(s[i + 1], s[i + 2], s[i + 3])
             v == IF LineFull(c + 4) THEN <<Break, Break>> ELSE <<>>
  <1>2. w \in Seq(Nat)
    <2>1. i + 1 \in 1..Len(s) /\ i + 2 \in 1..Len(s) /\ i + 3 \in 1..Len(s)
      BY <1>1
    <2>2. s[i + 1] \in Byte /\ s[i + 2] \in Byte /\ s[i + 3] \in Byte
      BY <1>1, <2>1, ElementOfSeq, Zenon
    <2> QED BY <2>2, EncodedIs, Zenon
  <1>3. v \in Seq(Nat)
    BY DEF Break
  <1>4. buf' = (buf \o w) \o v
    BY Zenon DEF Group
  <1> HIDE DEF w, v
  <1>5. buf' \in Seq(Nat)
    <2>1. buf \o w \in Seq(Nat)
      BY <1>1, <1>2, Joined, Zenon
    <2> QED BY <1>3, <1>4, <2>1, Joined, Zenon
  <1>6. i' \in 0..Len(s)
    BY <1>1 DEF Group
  <1>7. c' \in Nat
    <2>1. c \in Nat
      BY Zenon DEF TransferType
    <2> QED BY <2>1 DEF Group
  <1> QED BY <1>5, <1>6, <1>7, Zenon DEF TransferType, Group

\* The last characters that e64 writes keep the types.
LEMMA TypeFinish ==
    ASSUME TransferType, e = "base64", Finish, e' = e PROVE TransferType'
  <1> DEFINE v == IF lineLength > 0 /\ c > 0 THEN <<Break, Break>> ELSE <<>>
  <1>1. buf \in Seq(Nat) /\ Rest \in Seq(Nat)
    BY RestType, Zenon DEF TransferType
  <1>2. v \in Seq(Nat)
    BY DEF Break
  <1>3. buf' = (buf \o Rest) \o v
    BY Zenon DEF Finish
  <1> HIDE DEF v
  <1>4. buf' \in Seq(Nat)
    <2>1. buf \o Rest \in Seq(Nat)
      BY <1>1, Joined, Zenon
    <2> QED BY <1>2, <1>3, <2>1, Joined, Zenon
  <1> QED BY <1>4, Zenon DEF TransferType, Finish

\* A character added to base-64 keeps the types.
LEMMA TypeInsert ==
    ASSUME TransferType, e = "base64", NEW k \in 0..Len(buf), NEW ch \in {Break, Other},
           Insert(k, ch), e' = e
    PROVE  TransferType'
  <1>1. buf \in Seq(Nat) /\ noise \in Nat
    BY Zenon DEF TransferType
  <1>2. <<ch>> \in Seq(Nat) /\ Len(<<ch>>) = 1
    BY DEF Break, Other
  <1>3. buf' \in Seq(Nat)
    BY <1>1, <1>2, Spliced, Zenon DEF Insert
  <1>4. noise' \in Nat /\ pc' = "sent"
    BY <1>1 DEF Insert
  <1> QED BY <1>3, <1>4, Zenon DEF TransferType, Insert
\* The bits de64 takes from a character, phase by phase.
LEMMA Phases ==
    ASSUME NEW ch \in Nat
    PROVE  /\ Low(ch, 0) = ch * 4 /\ Low(ch, 1) = (ch % 16) * 16
           /\ Low(ch, 2) = (ch % 4) * 64 /\ Low(ch, 3) = decoded
           /\ High(ch, 1) = ch \div 16 /\ High(ch, 2) = ch \div 4 /\ High(ch, 3) = ch
  BY DEF Low, High

\* A character that de64 reads keeps the types.
LEMMA TypeDecode ==
    ASSUME TransferType, e = "base64", Decode, e' = e PROVE TransferType'
  <1> DEFINE ch == buf[p + 1]
  <1>1. p \in Nat /\ m \in 0..3 /\ decoded \in Byte /\ out \in Seq(Nat) /\ buf \in Seq(Nat)
    BY Zenon DEF TransferType
  <1>2. p + 1 \in 1..Len(buf)
    BY <1>1 DEF Decode
  <1>3. ch \in Nat
    BY <1>1, <1>2, ElementOfSeq, Zenon
  <1> HIDE DEF ch
  <1>4. \A x \in Nat : x % 256 \in Byte
    BY DEF Byte
  <1>5. decoded' \in Byte
    <2>1. decoded' = IF ch < 64 THEN Low(ch, m) % 256 ELSE decoded
      BY Zenon DEF Decode, ch
    <2>2. Low(ch, m) \in Nat
      <3>1. m = 0 \/ m = 1 \/ m = 2 \/ m = 3
        BY <1>1
      <3>2. decoded \in Nat
        BY <1>1 DEF Byte
      <3>3. Low(ch, 0) \in Nat /\ Low(ch, 1) \in Nat /\ Low(ch, 2) \in Nat /\ Low(ch, 3) \in Nat
        <4>1. ch * 4 \in Nat /\ (ch % 16) * 16 \in Nat /\ (ch % 4) * 64 \in Nat
          BY <1>3
        <4> QED BY <1>3, <3>2, <4>1, Phases, Zenon
      <3> QED BY <3>1, <3>3, Zenon
    <2> QED BY <1>1, <1>4, <2>1, <2>2, Zenon
  <1>6. out' \in Seq(Nat)
    <2>1. out' = IF ch < 64 /\ m > 0 THEN Append(out, (decoded + High(ch, m)) % 256) ELSE out
      BY Zenon DEF Decode, ch
    <2>2. ASSUME m > 0 PROVE (decoded + High(ch, m)) % 256 \in Nat
      <3>1. m = 1 \/ m = 2 \/ m = 3
        BY <1>1, <2>2
      <3>2. decoded \in Nat
        BY <1>1 DEF Byte
      <3>3. High(ch, 1) \in Nat /\ High(ch, 2) \in Nat /\ High(ch, 3) \in Nat
        <4>1. ch \div 16 \in Nat /\ ch \div 4 \in Nat
          BY <1>3
        <4> QED BY <1>3, <4>1, Phases, Zenon
      <3>4. High(ch, m) \in Nat
        BY <3>1, <3>3, Zenon
      <3> QED BY <3>2, <3>4
    <2> QED BY <1>1, <2>1, <2>2
  <1>7. m' \in 0..3
    BY <1>1 DEF Decode, NextPhase
  <1>8. p' \in Nat /\ pc' \in {"decode", "done"}
    BY <1>1 DEF Decode
  <1> QED BY <1>5, <1>6, <1>7, <1>8, Zenon DEF TransferType, Decode

\* Every step keeps the types.
LEMMA TransferTypeStep ==
    ASSUME TransferType, [CNext]_cvars PROVE TransferType'
  <1>1. CASE e = "base64" /\ Next /\ UNCHANGED e
    <2>1. CASE Receive \/ Return
      BY <1>1, <2>1, Zenon DEF Receive, Return, TransferType
    <2> QED BY <1>1, <2>1, TypeGroup, TypeFinish, TypeInsert, TypeDecode, Zenon DEF Next
  <1>2. CASE QPFinish \/ CReceive \/ QPReturn \/ QPDecode
    BY <1>2, Zenon DEF QPFinish, CReceive, Receive, QPReturn, QPDecode, TransferType
  <1>3. CASE Binary
    <2>1. Byte \subseteq Nat
      BY DEF Byte
    <2>2. buf' \in Seq(Nat)
      BY <1>3, <2>1, SeqMonotonic, Zenon DEF Binary, TransferType
    <2> QED BY <1>3, <2>2, Zenon DEF Binary, TransferType
  <1>4. CASE UNCHANGED cvars
    BY <1>4, Zenon DEF cvars, vars, TransferType
  <1> QED BY <1>1, <1>2, <1>3, <1>4, TypeQPLineFeed, TypeQPChar, TypeQPInsert, Zenon DEF CNext

-----------------------------------------------------------------------------
(***************************************************************************)
(* The lines of quoted-printable, as long as nothing was added.            *)
(***************************************************************************)
QPLinesInv ==
    e \in {"qp", "word"} /\ noise = 0 /\ pc \in {"encode", "sent"} =>
        QPLineInv(buf, Len(buf), c)

\* eQP ends a line: no blank is left before its end.
LEMMA LinesQPLineFeed ==
    ASSUME TransferType, QPLinesInv, QPLineFeed PROVE QPLinesInv'
  <1> DEFINE w == IF BareLF THEN <<LF>> ELSE <<CR, LF>>
             b == Protected(buf)
  <1>1. buf \in Seq(Nat) /\ Len(buf) \in Nat /\ c \in Nat /\ QPLineInv(buf, Len(buf), c)
    BY DEF TransferType, QPLinesInv, QPLineFeed
  <1>2. \E n \in Nat : QPLineInv(b, Len(b), n) /\ (Len(b) > 0 => b[Len(b)] # Space)
    <2>1. CASE buf # <<>> /\ buf[Len(buf)] = Space
      <3>1. /\ Len(b) = Len(buf) + 2
            /\ \A x \in 1..(Len(buf) - 1) : b[x] = buf[x]
            /\ b[Len(buf)] = Equals /\ b[Len(buf) + 1] = Hex(Space \div 16)
            /\ b[Len(buf) + 2] = Hex(Space % 16)
        BY <1>1, <2>1, ProtectedIs, Zenon
      <3>2. Len(buf) \in Nat \ {0} /\ c + 2 \in Nat
        BY <1>1, <2>1
      <3>3. \A x \in {Equals, Hex(Space \div 16), Hex(Space % 16)} : x \notin LineEnd /\ x # Space
        BY DEF Equals, Hex, Space, LineEnd, CR, LF
      <3> HIDE DEF b
      <3>4. \A x \in Len(buf)..(Len(buf) + 2) : b[x] \notin LineEnd /\ b[x] # Space
        <4> TAKE x \in Len(buf)..(Len(buf) + 2)
        <4>1. x = Len(buf) \/ x = Len(buf) + 1 \/ x = Len(buf) + 2
          BY <3>2
        <4> QED BY <3>1, <3>3, <4>1, Zenon
      <3>5. QPLineInv(b, Len(buf) + 2, c + 2) /\ b[Len(buf) + 2] # Space
        BY <1>1, <2>1, <3>1, <3>2, <3>4, LineProtect, Zenon
      <3>6. QPLineInv(b, Len(b), c + 2) /\ b[Len(b)] # Space
        BY <3>1, <3>5, Zenon
      <3> QED BY <3>2, <3>6, Zenon DEF b
    <2>2. CASE ~(buf # <<>> /\ buf[Len(buf)] = Space)
      <3>1. b = buf
        BY <1>1, <2>2, ProtectedNothing, Zenon
      <3>2. Len(buf) > 0 => buf[Len(buf)] # Space
        BY <1>1, <2>2
      <3> HIDE DEF b
      <3>3. QPLineInv(b, Len(b), c) /\ (Len(b) > 0 => b[Len(b)] # Space)
        BY <1>1, <3>1, <3>2, Zenon
      <3> QED BY <1>1, <3>3, Zenon DEF b
    <2> QED BY <2>1, <2>2, Zenon
  <1>3. w \in Seq(Nat) /\ Len(w) \in 1..2 /\ \A x \in 1..Len(w) : w[x] \in LineEnd
    BY DEF LF, CR, LineEnd
  <1>4. buf' = b \o w /\ c' = 0
    BY Zenon DEF QPLineFeed
  <1>5. b \in Seq(Nat)
    BY <1>1, ProtectedType, Zenon
  <1> HIDE DEF b, w
  <1>6. /\ Len(buf') = Len(b) + Len(w)
        /\ \A x \in 1..Len(b) : buf'[x] = b[x]
        /\ \A x \in 1..Len(w) : buf'[Len(b) + x] = w[x]
    BY <1>3, <1>4, <1>5, Joined, Zenon
  <1>7. Len(b) \in Nat
    BY <1>5
  <1>8. \A x \in (Len(b) + 1)..(Len(b) + Len(w)) : buf'[x] \in LineEnd
    <2> TAKE x \in (Len(b) + 1)..(Len(b) + Len(w))
    <2>1. x - Len(b) \in 1..Len(w) /\ Len(b) + (x - Len(b)) = x
      BY <1>3, <1>7
    <2> QED BY <1>3, <1>6, <2>1, Zenon
  <1>9. PICK n \in Nat : QPLineInv(b, Len(b), n) /\ (Len(b) > 0 => b[Len(b)] # Space)
    BY <1>2, Zenon
  <1>10. QPLineInv(buf', Len(b) + Len(w), 0)
    BY <1>3, <1>6, <1>7, <1>8, <1>9, LineFeedEnds, Zenon
  <1> QED BY <1>4, <1>6, <1>10, Zenon DEF QPLinesInv
\* eQP writes a character: the line is broken before it grows too long.
LEMMA LinesQPChar ==
    ASSUME TransferType, QPLinesInv, QPChar PROVE QPLinesInv'
  <1>1. buf \in Seq(Nat) /\ Len(buf) \in Nat /\ QPLineInv(buf, Len(buf), c)
    BY DEF TransferType, QPLinesInv, QPChar
  <1>2. PICK b \in Seq(Nat), n \in Nat, w \in Seq(Nat) :
            /\ BrokenOrNot(b, n) /\ WrittenFor(w, i + 1) /\ Len(w) \in {1, 3}
            /\ buf' = b \o w /\ c' = n + Len(w)
    BY QPCharIs, Zenon
  <1>3. c \in 0..75 /\ c <= Len(buf)
    BY <1>1, Zenon DEF QPLineInv
  <1>4. Len(b) \in Nat /\ n \in 0..72 /\ QPLineInv(b, Len(b), n)
    <2>1. CASE c > 72
      <3>1. c \in 73..75 /\ Len(buf) >= 9
        BY <1>1, <1>3, <2>1
      <3>2. b = SoftBreak(buf) /\ n = Moved(buf)
        BY <1>2, <2>1, Zenon DEF BrokenOrNot
      <3>3. Moved(buf) \in 0..8
        BY <1>1, <3>1, MovedIs, Zenon
      <3>4. /\ Len(SoftBreak(buf)) = Len(buf) + 3
            /\ QPLineInv(SoftBreak(buf), Len(buf) + 3, Moved(buf))
        BY <1>1, <3>1, <3>3, SoftBreakIs, LineSoftBreak, Zenon
      <3>5. QPLineInv(b, Len(b), n)
        BY <3>2, <3>4, Zenon
      <3>6. n \in 0..72
        BY <3>2, <3>3
      <3> QED BY <3>5, <3>6
    <2>2. CASE ~(c > 72)
      <3>1. b = buf /\ n = c
        BY <1>2, <2>2, Zenon DEF BrokenOrNot
      <3>2. c \in 0..72
        BY <1>3, <2>2
      <3> QED BY <1>1, <3>1, <3>2, Zenon
    <2> QED BY <2>1, <2>2, Zenon
  <1>5. /\ Len(buf') = Len(b) + Len(w)
        /\ \A x \in 1..Len(b) : buf'[x] = b[x]
        /\ \A x \in 1..Len(w) : buf'[Len(b) + x] = w[x]
    BY <1>2, Joined, Zenon
  <1>6. /\ \A x \in 1..Len(w) : w[x] \notin LineEnd
        /\ w[Len(w)] = Space => Len(w) = 1
    <2>1. CASE w = Escaped(s[i + 1])
      <3>1. s[i + 1] \in Byte
        <4>1. i + 1 \in 1..Len(s) /\ s \in Seq(Byte)
          BY DEF TransferType, QPChar
        <4> QED BY <4>1, ElementOfSeq, Zenon
      <3>2. /\ Len(w) = 3 /\ w[1] = Equals
            /\ w[2] \in HexDigit /\ w[3] \in HexDigit
        BY <2>1, <3>1, EscapedIs, EscapedType, Zenon
      <3>3. Equals \notin LineEnd /\ \A x \in HexDigit : x \notin LineEnd /\ x # Space
        BY DEF HexDigit, LineEnd, Equals, CR, LF, Space
      <3>4. \A x \in 1..3 : x = 1 \/ x = 2 \/ x = 3
        OBVIOUS
      <3> QED BY <3>2, <3>3, <3>4, Zenon
    <2>2. ASSUME NEW x \in Nat \ {Equals, CR, LF}, w = <<x>>
          PROVE  Len(w) = 1 /\ \A y \in 1..Len(w) : w[y] \notin LineEnd
      BY <2>2 DEF LineEnd
    <2> QED BY <1>2, <2>1, <2>2, Zenon DEF WrittenFor
  <1>7. \A x \in (Len(b) + 1)..(Len(b) + Len(w)) : buf'[x] \notin LineEnd
    <2> TAKE x \in (Len(b) + 1)..(Len(b) + Len(w))
    <2>1. x - Len(b) \in 1..Len(w) /\ Len(b) + (x - Len(b)) = x
      BY <1>2, <1>4
    <2> QED BY <1>5, <1>6, <2>1, Zenon
  <1>8. buf'[Len(b) + Len(w)] = w[Len(w)]
    <2>1. \A y \in {1, 3} : y \in 1..y
      OBVIOUS
    <2>2. Len(w) \in {1, 3}
      BY <1>2, Zenon
    <2> QED BY <1>5, <2>1, <2>2, Zenon
  <1>9. QPLineInv(buf', Len(b) + Len(w), n + Len(w))
    <2>1. Len(w) \in 1..3
      BY <1>2
    <2>2. buf'[Len(b) + Len(w)] = Space => Len(w) = 1
      BY <1>6, <1>8, Zenon
    <2> QED BY <1>4, <1>5, <1>7, <2>1, <2>2, LineAppend, Zenon
  <1> QED BY <1>2, <1>5, <1>9, Zenon DEF QPLinesInv

\* The lines stay short and without a blank at the end.
LEMMA QPLinesStep ==
    ASSUME TransferType, QPLinesInv, [CNext]_cvars PROVE QPLinesInv'
  <1>1. CASE e \notin {"qp", "word"}
    <2>1. e' = e
      BY <1>1, Zenon DEF CNext, QPLineFeed, QPChar, QPFinish, QPInsert, CReceive, QPDecode,
                  QPReturn, Binary, cvars
    <2> QED BY <1>1, <2>1, Zenon DEF QPLinesInv
  <1>2. CASE e \in {"qp", "word"} /\ CNext
    <2>1. CASE QPFinish
      BY <2>1, Zenon DEF QPFinish, QPLinesInv
    <2>2. ASSUME NEW k \in 1..(Len(buf) - 1), QPInsert(k) PROVE QPLinesInv'
      <3>1. noise' # 0
        BY <2>2 DEF QPInsert, TransferType
      <3> QED BY <3>1, Zenon DEF QPLinesInv
    <2>3. CASE CReceive \/ QPDecode \/ QPReturn
      BY <2>3, Zenon DEF CReceive, Receive, QPDecode, QPReturn, QPLinesInv
    <2>4. ~Binary
      BY <1>2, Zenon DEF Binary
    <2> QED BY <1>2, <2>1, <2>2, <2>3, <2>4, LinesQPLineFeed, LinesQPChar, Zenon DEF CNext
  <1>3. CASE UNCHANGED cvars
    BY <1>3, Zenon DEF cvars, vars, QPLinesInv
  <1> QED BY <1>1, <1>2, <1>3, Zenon

\* The lines of eQP are as they should be all the time.
LEMMA QPLinesAlways == CSpec => [](TransferType /\ QPLinesInv)
  <1>1. CInit => TransferType /\ QPLinesInv
    <2> SUFFICES ASSUME CInit PROVE QPLinesInv
      BY TransferTypeInit, Zenon
    <2>1. SUFFICES ASSUME e \in {"qp", "word"} PROVE QPLineInv(<<>>, 0, 0)
      BY Zenon DEF CInit, QPLinesInv
    <2> QED BY DEF QPLineInv, Unbroken
  <1>2. TransferType /\ QPLinesInv /\ [CNext]_cvars => (TransferType /\ QPLinesInv)'
    BY TransferTypeStep, QPLinesStep, Zenon
  <1> QED BY <1>1, <1>2, PTL DEF CSpec

\* No line that eQP ends with a line feed or a soft break ends with a space, for
\* every text; a tab, and the end of a text without a line feed, are excepted.
THEOREM TransferNoSpaceBeforeBreak == CSpec => []NoSpaceBeforeBreak
  <1>1. TransferType /\ QPLinesInv => NoSpaceBeforeBreak
    BY Zenon DEF TransferType, QPLinesInv, QPLineInv, LineEnd, NoSpaceBeforeBreak
  <1> QED BY <1>1, QPLinesAlways, PTL
-----------------------------------------------------------------------------
(***************************************************************************)
(* The lines of e64, for a line length W: n characters are on the present  *)
(* one.                                                                    *)
(***************************************************************************)
NoBreak(b, x, y) == \A k \in x..y : b[k] # Break

B64LineInv(b, L, n, W) ==
    /\ n \in Nat /\ n <= L
    /\ IF W = 0 THEN \A k \in 1..L : b[k] # Break
       ELSE /\ NoBreak(b, L - n + 1, L)
            /\ n < L => b[L - n] = Break
            /\ \A x, y \in 1..L : x <= y /\ NoBreak(b, x, y) => y - x + 1 <= ((W + 3) \div 4) * 4

\* A group that still fits is added to the line, or nothing is.
LEMMA B64Append ==
    ASSUME NEW b, NEW d, NEW L \in Nat, NEW n \in Nat, NEW W \in Nat, NEW w \in {0, 4},
           B64LineInv(b, L, n, W), n % 4 = 0, W > 0 => n < W,
           \A x \in 1..L : d[x] = b[x], \A x \in (L + 1)..(L + w) : d[x] # Break
    PROVE  B64LineInv(d, L + w, n + w, W)
  <1>1. CASE W = 0
    <2>1. ASSUME NEW k \in 1..(L + w) PROVE d[k] # Break
      <3>1. k \in 1..L \/ k \in (L + 1)..(L + w)
        OBVIOUS
      <3> QED BY <1>1, <3>1, Zenon DEF B64LineInv
    <2> QED BY <1>1, <2>1 DEF B64LineInv
  <1>2. CASE W > 0
    <2> DEFINE most == ((W + 3) \div 4) * 4
    <2>1. n + w <= most /\ most \in Nat
      BY <1>2
    <2>2. /\ n <= L /\ \A k \in (L - n + 1)..L : b[k] # Break
          /\ n < L => b[L - n] = Break
          /\ \A x, y \in 1..L : x <= y /\ NoBreak(b, x, y) => y - x + 1 <= most
      BY <1>2 DEF B64LineInv, NoBreak
    <2> HIDE DEF most
    <2>3. ASSUME NEW k \in (L + w - (n + w) + 1)..(L + w) PROVE d[k] # Break
      <3>1. (k \in (L - n + 1)..L /\ k \in 1..L) \/ k \in (L + 1)..(L + w)
        BY <2>2
      <3> QED BY <2>2, <3>1, Zenon
    <2>4. n + w < L + w => d[L + w - (n + w)] = Break
      <3>1. L + w - (n + w) = L - n
        OBVIOUS
      <3> QED BY <2>2, <3>1
    <2>5. ASSUME NEW x \in 1..(L + w), NEW y \in 1..(L + w), x <= y, NoBreak(d, x, y)
          PROVE  y - x + 1 <= most
      <3>1. CASE y <= L
        <4>1. x \in 1..L /\ y \in 1..L
          BY <2>5, <3>1
        <4>2. NoBreak(b, x, y)
          BY <2>5, <4>1 DEF NoBreak
        <4> QED BY <2>2, <2>5, <4>1, <4>2, Zenon
      <3>2. CASE y > L
        <4>1. x > L - n
          <5>1. SUFFICES ASSUME x <= L - n PROVE FALSE
            OBVIOUS
          <5>2. L - n \in x..y /\ L - n \in 1..L /\ n < L
            BY <2>2, <3>2, <5>1
          <5> QED BY <2>2, <2>5, <5>2, Zenon DEF NoBreak
        <4> QED BY <2>1, <3>2, <4>1
      <3> QED BY <3>1, <3>2
    <2>6. n + w \in Nat /\ n + w <= L + w
      BY <2>2
    <2> QED BY <1>2, <2>3, <2>4, <2>5, <2>6 DEF B64LineInv, NoBreak, most
  <1> QED BY <1>1, <1>2

\* A line break starts a new line.
LEMMA B64Break ==
    ASSUME NEW b, NEW d, NEW L \in Nat, NEW n \in Nat, NEW W \in Nat \ {0},
           B64LineInv(b, L, n, W),
           \A x \in 1..L : d[x] = b[x], d[L + 1] = Break, d[L + 2] = Break
    PROVE  B64LineInv(d, L + 2, 0, W)
  <1> DEFINE most == ((W + 3) \div 4) * 4
  <1>1. \A x, y \in 1..L : x <= y /\ NoBreak(b, x, y) => y - x + 1 <= most
    BY Zenon DEF B64LineInv
  <1> HIDE DEF most
  <1>2. ASSUME NEW x \in 1..(L + 2), NEW y \in 1..(L + 2), x <= y, NoBreak(d, x, y)
        PROVE  y - x + 1 <= most
    <2>1. x \in 1..L /\ y \in 1..L
      <3>1. SUFFICES ASSUME y > L PROVE FALSE
        BY <1>2
      <3>2. L + 1 \in x..y \/ L + 2 \in x..y
        BY <1>2, <3>1
      <3> QED BY <1>2, <3>2, Zenon DEF NoBreak
    <2>2. NoBreak(b, x, y)
      BY <1>2, <2>1 DEF NoBreak
    <2> QED BY <1>1, <1>2, <2>1, <2>2, Zenon
  <1>3. L + 2 - 0 = L + 2 /\ W # 0 /\ \A k \in (L + 2 - 0 + 1)..(L + 2) : d[k] # Break
    OBVIOUS
  <1> QED BY <1>2, <1>3 DEF B64LineInv, NoBreak, most

\* What e64 has written, and the line it is on: the rest of the string, which
\* Finish writes, starts no line of its own.
B64LinesInv ==
    e = "base64" /\ noise = 0 /\ pc \in {"encode", "sent"} =>
        /\ \E n \in Nat : B64LineInv(buf, Len(buf), n, lineLength)
        /\ pc = "encode" => /\ c % 4 = 0 /\ (lineLength > 0 => c < lineLength)
                            /\ B64LineInv(buf, Len(buf), c, lineLength)

\* A group is written, with or without a line break after it.
LEMMA B64Write ==
    ASSUME NEW b \in Seq(Nat), NEW w \in Seq(Nat), NEW n \in Nat, NEW W \in Nat,
           Len(w) \in {0, 4}, \A k \in 1..Len(w) : w[k] # Break,
           B64LineInv(b, Len(b), n, W), n % 4 = 0, W > 0 => n < W
    PROVE  /\ B64LineInv(b \o w, Len(b \o w), n + Len(w), W)
           /\ W > 0 => B64LineInv((b \o w) \o <<Break, Break>>,
                                  Len((b \o w) \o <<Break, Break>>), 0, W)
  <1> DEFINE d == b \o w
             v == <<Break, Break>>
             f == d \o v
  <1>1. /\ d \in Seq(Nat) /\ Len(d) = Len(b) + Len(w)
        /\ \A x \in 1..Len(b) : d[x] = b[x]
        /\ \A x \in 1..Len(w) : d[Len(b) + x] = w[x]
    BY Joined, Zenon
  <1>2. v \in Seq(Nat) /\ Len(v) = 2 /\ v[1] = Break /\ v[2] = Break
    BY DEF Break
  <1> HIDE DEF d, v
  <1>3. /\ f \in Seq(Nat) /\ Len(f) = Len(d) + Len(v)
        /\ \A x \in 1..Len(d) : f[x] = d[x]
        /\ \A x \in 1..Len(v) : f[Len(d) + x] = v[x]
    BY <1>1, <1>2, Joined, Zenon
  <1>4. Len(b) \in Nat /\ Len(w) \in Nat
    OBVIOUS
  <1>5. \A x \in (Len(b) + 1)..(Len(b) + Len(w)) : d[x] # Break
    <2> TAKE x \in (Len(b) + 1)..(Len(b) + Len(w))
    <2>1. x - Len(b) \in 1..Len(w) /\ Len(b) + (x - Len(b)) = x
      BY <1>4
    <2>2. d[Len(b) + (x - Len(b))] = w[x - Len(b)] /\ w[x - Len(b)] # Break
      BY <1>1, <2>1, Zenon
    <2> QED BY <2>1, <2>2, Zenon
  <1>6. B64LineInv(d, Len(b) + Len(w), n + Len(w), W)
    BY <1>1, <1>4, <1>5, B64Append, Zenon
  <1>7. Len(b) + Len(w) \in Nat /\ n + Len(w) \in Nat
    BY <1>4
  <1>8. f[Len(d) + 1] = Break /\ f[Len(d) + 2] = Break /\ Len(f) = Len(d) + 2
    BY <1>2, <1>3
  <1>9. ASSUME W > 0 PROVE B64LineInv(f, Len(f), 0, W)
    <2>1. B64LineInv(d, Len(d), n + Len(w), W) /\ Len(d) \in Nat
      BY <1>1, <1>6, <1>7, Zenon
    <2>2. W \in Nat \ {0}
      BY <1>9
    <2>3. \A x \in 1..Len(d) : f[x] = d[x]
      BY <1>3, Zenon
    <2> HIDE DEF f
    <2>4. B64LineInv(f, Len(d) + 2, 0, W)
      BY <1>7, <1>8, <2>1, <2>2, <2>3, B64Break, Zenon
    <2> QED BY <1>8, <2>4, Zenon
  <1> QED BY <1>1, <1>6, <1>9, Zenon DEF f, d, v

\* A group of three bytes, and the line is broken once it is full.
LEMMA LinesGroup ==
    ASSUME TransferType, B64LinesInv, e = "base64", Group PROVE B64LinesInv'
  <1>1. i \in 0..Len(s) /\ Len(s) \in Nat /\ i + 3 <= Len(s) /\ s \in Seq(Byte)
    BY DEF TransferType, Group
  <1>2. /\ buf \in Seq(Nat) /\ c \in Nat /\ lineLength \in Nat /\ c % 4 = 0
        /\ lineLength > 0 => c < lineLength
        /\ B64LineInv(buf, Len(buf), c, lineLength)
    BY Zenon DEF TransferType, Group, B64LinesInv
  <1> DEFINE w == Encoded(s[i + 1], s[i + 2], s[i + 3])
  <1>3. w \in Seq(Nat) /\ Len(w) = 4 /\ \A k \in 1..Len(w) : w[k] # Break
    <2>1. i + 1 \in 1..Len(s) /\ i + 2 \in 1..Len(s) /\ i + 3 \in 1..Len(s)
      BY <1>1
    <2>2. s[i + 1] \in Byte /\ s[i + 2] \in Byte /\ s[i + 3] \in Byte
      BY <1>1, <2>1, ElementOfSeq, Zenon
    <2>3. w \in Seq(Nat) /\ Len(w) = 4 /\ \A k \in 1..4 : w[k] \in 0..63
      BY <2>2, EncodedIs, Zenon
    <2>4. \A x \in 0..63 : x # Break
      BY DEF Break
    <2> QED BY <2>3, <2>4, Zenon
  <1>4. /\ buf' = IF LineFull(c + 4) THEN (buf \o w) \o <<Break, Break>> ELSE (buf \o w) \o <<>>
        /\ c' = IF LineFull(c + 4) THEN 0 ELSE c + 4
        /\ UNCHANGED <<lineLength, pc>> /\ pc = "encode"
    BY Zenon DEF Group
  <1> HIDE DEF w
  <1>5. /\ B64LineInv(buf \o w, Len(buf \o w), c + 4, lineLength)
        /\ lineLength > 0 => B64LineInv((buf \o w) \o <<Break, Break>>,
                                        Len((buf \o w) \o <<Break, Break>>), 0, lineLength)
    BY <1>2, <1>3, B64Write, Zenon
  <1>6. CASE LineFull(c + 4)
    <2>1. buf' = (buf \o w) \o <<Break, Break>> /\ c' = 0 /\ lineLength > 0
      BY <1>4, <1>6, Zenon DEF LineFull
    <2>2. B64LineInv(buf', Len(buf'), c', lineLength')
      BY <1>4, <1>5, <2>1, Zenon
    <2>3. c' % 4 = 0 /\ c' < lineLength /\ c' \in Nat
      BY <1>2, <2>1
    <2> QED BY <1>4, <2>2, <2>3, Zenon DEF B64LinesInv
  <1>7. CASE ~LineFull(c + 4)
    <2>1. buf' = buf \o w /\ c' = c + 4
      <3>1. buf \o w \in Seq(Nat)
        BY <1>2, <1>3, Joined, Zenon
      <3> DEFINE d == buf \o w
      <3> HIDE DEF d
      <3>2. d \o <<>> = d
        BY <3>1, ConcatEmptySeq, Zenon DEF d
      <3> QED BY <1>4, <1>7, <3>2, Zenon DEF d
    <2>2. B64LineInv(buf', Len(buf'), c', lineLength')
      BY <1>4, <1>5, <2>1, Zenon
    <2>3. c' % 4 = 0 /\ (lineLength > 0 => c' < lineLength) /\ c' \in Nat
      BY <1>2, <1>7, <2>1 DEF LineFull
    <2> QED BY <1>4, <2>2, <2>3, Zenon DEF B64LinesInv
  <1> QED BY <1>6, <1>7, Zenon

\* The last group, which has one or two bytes, or nothing at all.
LEMMA LinesFinish ==
    ASSUME TransferType, B64LinesInv, e = "base64", Finish PROVE B64LinesInv'
  <1>1. /\ buf \in Seq(Nat) /\ c \in Nat /\ lineLength \in Nat /\ c % 4 = 0
        /\ lineLength > 0 => c < lineLength
        /\ B64LineInv(buf, Len(buf), c, lineLength)
    BY Zenon DEF TransferType, Finish, B64LinesInv
  <1>2. Rest \in Seq(Nat) /\ Len(Rest) \in {0, 4} /\ \A k \in 1..Len(Rest) : Rest[k] # Break
    <2>1. \A x \in 0..64 : x # Break
      BY DEF Break
    <2>2. s \in Seq(Byte) /\ i \in 0..Len(s)
      BY Zenon DEF TransferType
    <2> QED BY <2>1, <2>2, RestType, Zenon
  <1> DEFINE w == Rest
             broken == lineLength > 0 /\ c > 0
  <1>3. /\ buf' = IF broken THEN (buf \o w) \o <<Break, Break>> ELSE (buf \o w) \o <<>>
        /\ UNCHANGED lineLength /\ pc' = "sent"
    BY Zenon DEF Finish
  <1> HIDE DEF w
  <1>4. w \in Seq(Nat) /\ Len(w) \in {0, 4} /\ \A k \in 1..Len(w) : w[k] # Break
    BY <1>2, Zenon DEF w
  <1>5. /\ B64LineInv(buf \o w, Len(buf \o w), c + Len(w), lineLength)
        /\ lineLength > 0 => B64LineInv((buf \o w) \o <<Break, Break>>,
                                        Len((buf \o w) \o <<Break, Break>>), 0, lineLength)
    BY <1>1, <1>4, B64Write, Zenon
  <1>6. c + Len(w) \in Nat
    BY <1>1, <1>4
  <1>7. \E n \in Nat : B64LineInv(buf', Len(buf'), n, lineLength')
    <2>1. CASE broken
      <3>1. 0 \in Nat /\ lineLength > 0 /\ buf' = (buf \o w) \o <<Break, Break>>
        BY <1>3, <2>1, Zenon
      <3> QED BY <1>3, <1>5, <3>1, Zenon
    <2>2. CASE ~broken
      <3>1. buf \o w \in Seq(Nat)
        BY <1>1, <1>4, Joined, Zenon
      <3> DEFINE d == buf \o w
      <3> HIDE DEF d
      <3>2. d \o <<>> = d
        BY <3>1, ConcatEmptySeq, Zenon DEF d
      <3>3. buf' = buf \o w
        BY <1>3, <2>2, <3>2, Zenon DEF d
      <3> QED BY <1>3, <1>5, <1>6, <3>3, Zenon
    <2> QED BY <2>1, <2>2, Zenon
  <1> QED BY <1>3, <1>7, Zenon DEF B64LinesInv

\* No other action writes a line.
LEMMA B64LinesStep ==
    ASSUME TransferType, B64LinesInv, [CNext]_cvars PROVE B64LinesInv'
  <1>1. CASE e # "base64"
    <2>1. e' = e
      BY <1>1, Zenon DEF CNext, QPLineFeed, QPChar, QPFinish, QPInsert, CReceive, QPDecode,
                  QPReturn, Binary, cvars
    <2> QED BY <1>1, <2>1, Zenon DEF B64LinesInv
  <1>2. CASE e = "base64" /\ CNext
    <2>1. Next /\ e' = e
      BY <1>2, Zenon DEF CNext, QPLineFeed, QPChar, QPFinish, QPInsert, CReceive, QPDecode,
                  QPReturn, Binary
    <2>2. ASSUME NEW k \in 0..Len(buf), NEW ch \in {Break, Other}, Insert(k, ch)
          PROVE  B64LinesInv'
      <3>1. noise' # 0
        BY <2>2 DEF Insert, TransferType
      <3> QED BY <3>1, Zenon DEF B64LinesInv
    <2>3. CASE Receive \/ Return
      BY <2>3, Zenon DEF Receive, Return, B64LinesInv
    <2>4. CASE Decode
      <3>1. pc' \in {"decode", "done"}
        BY <2>4, Zenon DEF Decode
      <3> QED BY <3>1, Zenon DEF B64LinesInv
    <2> QED BY <1>2, <2>1, <2>2, <2>3, <2>4, LinesGroup, LinesFinish, Zenon DEF Next
  <1>3. CASE UNCHANGED cvars
    BY <1>3, Zenon DEF cvars, vars, B64LinesInv
  <1> QED BY <1>1, <1>2, <1>3, Zenon

\* Both encodings keep their lines as short as they say, for every string and
\* every line length.
THEOREM TransferLinesBounded == CSpec => []EncodedLinesBounded
  <1>1. CInit => B64LinesInv
    <2>1. SUFFICES ASSUME CInit, e = "base64" PROVE B64LinesInv
      BY Zenon DEF B64LinesInv
    <2>2. buf = <<>> /\ c = 0 /\ lineLength \in Nat
      BY <2>1, TransferAssumption, Zenon DEF CInit
    <2>3. \A W \in Nat : B64LineInv(<<>>, 0, 0, W)
      BY DEF B64LineInv, NoBreak
    <2>4. 0 % 4 = 0 /\ 0 \in Nat /\ Len(<<>>) = 0 /\ (lineLength > 0 => 0 < lineLength)
      OBVIOUS
    <2>5. B64LineInv(buf, Len(buf), c, lineLength)
      BY <2>2, <2>3, <2>4, Zenon
    <2> QED BY <2>2, <2>4, <2>5, Zenon DEF B64LinesInv
  <1>2. TransferType /\ B64LinesInv /\ [CNext]_cvars => B64LinesInv'
    BY B64LinesStep, Zenon
  <1>3. TransferType /\ QPLinesInv /\ B64LinesInv => EncodedLinesBounded
    <2> SUFFICES ASSUME TransferType, QPLinesInv, B64LinesInv, noise = 0, pc = "sent"
                 PROVE  IF e = "base64" THEN LinesBounded
                        ELSE \A l \in QPLines(buf) : l[2] - l[1] + 1 <= 76
      BY Zenon DEF EncodedLinesBounded
    <2>1. CASE e = "base64"
      <3>1. PICK n \in Nat : B64LineInv(buf, Len(buf), n, lineLength)
        BY <2>1, Zenon DEF B64LinesInv
      <3>2. DOMAIN buf = 1..Len(buf)
        BY DEF TransferType
      <3>3. lineLength = 0 => \A k \in DOMAIN buf : buf[k] # Break
        BY <3>1, <3>2, Zenon DEF B64LineInv
      <3>4. ASSUME lineLength # 0, NEW l \in Lines(buf)
            PROVE  l[2] - l[1] + 1 <= ((lineLength + 3) \div 4) * 4
        <4>1. /\ l[1] \in 1..Len(buf) /\ l[2] \in 1..Len(buf) /\ l[1] <= l[2]
              /\ NoBreak(buf, l[1], l[2])
          BY Zenon DEF Lines, NoBreak
        <4> QED BY <3>1, <3>4, <4>1, Zenon DEF B64LineInv
      <3> QED BY <2>1, <3>3, <3>4, Zenon DEF LinesBounded
    <2>2. CASE e # "base64"
      <3>1. QPLineInv(buf, Len(buf), c)
        BY <2>2, Zenon DEF TransferType, QPLinesInv
      <3> SUFFICES ASSUME NEW l \in QPLines(buf) PROVE l[2] - l[1] + 1 <= 76
        BY <2>2, Zenon
      <3>2. /\ l[1] \in 1..Len(buf) /\ l[2] \in 1..Len(buf) /\ l[1] <= l[2]
            /\ Unbroken(buf, l[1], l[2])
        BY Zenon DEF QPLines, Unbroken, LineEnd
      <3> QED BY <3>1, <3>2, Zenon DEF QPLineInv
    <2> QED BY <2>1, <2>2, Zenon
  <1> QED BY <1>1, <1>2, <1>3, QPLinesAlways, PTL DEF CSpec
-----------------------------------------------------------------------------
(***************************************************************************)
(* What base-64 stands for.  A string t has Codes(t) characters of the     *)
(* alphabet, the n-th of which, from 0, is CodeAt(t, n); n of them make    *)
(* Bytes(n) bytes.  g[a] counts them among the first a of the text.        *)
(***************************************************************************)
Codes(t) == (4 * Len(t) + 2) \div 3
ByteAt(t, k) == IF k <= Len(t) THEN t[k] ELSE 0
CodeAt(t, n) ==
    Encoded(ByteAt(t, 3 * (n \div 4) + 1), ByteAt(t, 3 * (n \div 4) + 2),
            ByteAt(t, 3 * (n \div 4) + 3))[(n % 4) + 1]
Bytes(n) == 3 * (n \div 4) + (IF n % 4 = 0 THEN 0 ELSE (n % 4) - 1)

CodeOK(b, L, g, t) ==
    /\ g[0] = 0
    /\ \A a \in 0..(L - 1) :
          /\ b[a + 1] < 64 => /\ g[a] < Codes(t) /\ g[a + 1] = g[a] + 1
                              /\ b[a + 1] = CodeAt(t, g[a])
          /\ ~(b[a + 1] < 64) => g[a + 1] = g[a] /\ (b[a + 1] = Pad => g[a] = Codes(t))

\* The characters of group q.
LEMMA CodeIs ==
    ASSUME NEW t \in Seq(Byte), NEW q \in Nat
    PROVE  LET x == ByteAt(t, 3 * q + 1)
               y == ByteAt(t, 3 * q + 2)
               z == ByteAt(t, 3 * q + 3)
           IN  /\ x \in Byte /\ y \in Byte /\ z \in Byte
               /\ CodeAt(t, 4 * q) = x \div 4
               /\ CodeAt(t, 4 * q + 1) = (x % 4) * 16 + (y \div 16)
               /\ CodeAt(t, 4 * q + 2) = (y % 16) * 4 + (z \div 64)
               /\ CodeAt(t, 4 * q + 3) = z % 64
               /\ \A r \in 0..3 : CodeAt(t, 4 * q + r) \in 0..63
  <1> DEFINE x == ByteAt(t, 3 * q + 1)
             y == ByteAt(t, 3 * q + 2)
             z == ByteAt(t, 3 * q + 3)
  <1>1. \A k \in Nat \ {0} : ByteAt(t, k) \in Byte
    <2> TAKE k \in Nat \ {0}
    <2>1. CASE k <= Len(t)
      <3>1. k \in 1..Len(t)
        BY <2>1
      <3> QED BY <2>1, <3>1, ElementOfSeq, Zenon DEF ByteAt
    <2>2. CASE ~(k <= Len(t))
      BY <2>2 DEF ByteAt, Byte
    <2> QED BY <2>1, <2>2, Zenon
  <1>2. x \in Byte /\ y \in Byte /\ z \in Byte
    <2>1. 3 * q + 1 \in Nat \ {0} /\ 3 * q + 2 \in Nat \ {0} /\ 3 * q + 3 \in Nat \ {0}
      OBVIOUS
    <2> QED BY <1>1, <2>1, Zenon
  <1>3. ASSUME NEW r \in 0..3 PROVE CodeAt(t, 4 * q + r) = Encoded(x, y, z)[r + 1]
    <2>1. (4 * q + r) \div 4 = q /\ (4 * q + r) % 4 = r
      OBVIOUS
    <2> QED BY <2>1, Zenon DEF CodeAt
  <1>4. /\ CodeAt(t, 4 * q) = Encoded(x, y, z)[1] /\ CodeAt(t, 4 * q + 1) = Encoded(x, y, z)[2]
        /\ CodeAt(t, 4 * q + 2) = Encoded(x, y, z)[3] /\ CodeAt(t, 4 * q + 3) = Encoded(x, y, z)[4]
    <2>1. 4 * q + 0 = 4 * q /\ 0 + 1 = 1 /\ 1 + 1 = 2 /\ 2 + 1 = 3 /\ 3 + 1 = 4
      OBVIOUS
    <2>2. 0 \in 0..3 /\ 1 \in 0..3 /\ 2 \in 0..3 /\ 3 \in 0..3
      OBVIOUS
    <2> HIDE DEF x, y, z
    <2>3. /\ CodeAt(t, 4 * q + 0) = Encoded(x, y, z)[0 + 1]
          /\ CodeAt(t, 4 * q + 1) = Encoded(x, y, z)[1 + 1]
          /\ CodeAt(t, 4 * q + 2) = Encoded(x, y, z)[2 + 1]
          /\ CodeAt(t, 4 * q + 3) = Encoded(x, y, z)[3 + 1]
      BY <1>3, <2>2, Zenon
    <2> QED BY <2>1, <2>3, Zenon
  <1>5. /\ Encoded(x, y, z)[1] = x \div 4
        /\ Encoded(x, y, z)[2] = (x % 4) * 16 + (y \div 16)
        /\ Encoded(x, y, z)[3] = (y % 16) * 4 + (z \div 64)
        /\ Encoded(x, y, z)[4] = z % 64
        /\ \A k \in 1..4 : Encoded(x, y, z)[k] \in 0..63
    <2> HIDE DEF x, y, z
    <2> QED BY <1>2, EncodedIs
  <1> HIDE DEF x, y, z
  <1>6. \A r \in 0..3 : CodeAt(t, 4 * q + r) \in 0..63
    <2>1. \A r \in 0..3 : r + 1 \in 1..4
      OBVIOUS
    <2> QED BY <1>3, <1>5, <2>1, Zenon
  <1> QED BY <1>2, <1>4, <1>5, <1>6, Zenon DEF x, y, z

\* w characters of the alphabet are added to the first L, and v that are none.
CodeGrows(b, d, L, g, t, w, v) ==
    /\ L \in Nat /\ w \in 0..4 /\ v \in 0..4 /\ Codes(t) \in Nat /\ g \in [Nat -> Nat]
    /\ CodeOK(b, L, g, t) /\ g[L] + w <= Codes(t)
    /\ \A x \in 1..L : d[x] = b[x]
    /\ \A x \in 1..w : d[L + x] < 64 /\ d[L + x] = CodeAt(t, g[L] + x - 1)
    /\ \A x \in (w + 1)..(w + v) :
          ~(d[L + x] < 64) /\ (d[L + x] = Pad => g[L] + w = Codes(t))

\* n characters of the alphabet are among the first L.
CodeCounted(d, L, n, t) == \E f \in [Nat -> Nat] : CodeOK(d, L, f, t) /\ f[L] = n

\* With w more characters of the alphabet, and v others, it is the code of the string.
LEMMA CodeGrow ==
    ASSUME NEW b, NEW d, NEW L, NEW g, NEW t, NEW w, NEW v, CodeGrows(b, d, L, g, t, w, v)
    PROVE  CodeCounted(d, L + w + v, g[L] + w, t)
  <1> USE DEF CodeGrows
  <1> DEFINE f == [a \in Nat |-> IF a <= L THEN g[a]
                                 ELSE IF a <= L + w THEN g[L] + (a - L) ELSE g[L] + w]
  <1>1. g[L] \in Nat
    BY Zenon
  <1>2. f \in [Nat -> Nat]
    BY <1>1
  <1>3. /\ \A a \in 0..L : f[a] = g[a]
        /\ \A a \in L..(L + w) : f[a] = g[L] + (a - L)
        /\ \A a \in (L + w)..(L + w + v) : f[a] = g[L] + w
    BY <1>1
  <1> HIDE DEF f
  <1>4. f[0] = 0
    BY <1>3 DEF CodeOK
  <1>5. ASSUME NEW a \in 0..(L + w + v - 1)
        PROVE  /\ d[a + 1] < 64 => /\ f[a] < Codes(t) /\ f[a + 1] = f[a] + 1
                                   /\ d[a + 1] = CodeAt(t, f[a])
               /\ ~(d[a + 1] < 64) => f[a + 1] = f[a] /\ (d[a + 1] = Pad => f[a] = Codes(t))
    <2>1. CASE a < L
      <3>1. a \in 0..(L - 1) /\ a \in 0..L /\ a + 1 \in 0..L /\ a + 1 \in 1..L
        BY <2>1
      <3>2. f[a] = g[a] /\ f[a + 1] = g[a + 1] /\ d[a + 1] = b[a + 1]
        BY <1>3, <3>1, Zenon
      <3> QED BY <3>1, <3>2, Zenon DEF CodeOK
    <2>2. CASE a >= L /\ a < L + w
      <3>1. /\ a \in L..(L + w) /\ a + 1 \in L..(L + w) /\ a + 1 - L \in 1..w
            /\ L + (a + 1 - L) = a + 1 /\ a - L < w
        BY <2>2
      <3>2. f[a] = g[L] + (a - L) /\ f[a + 1] = g[L] + (a + 1 - L)
        BY <1>3, <3>1
      <3>3. g[L] + (a + 1 - L) - 1 = g[L] + (a - L)
        BY <1>1
      <3>4. d[a + 1] < 64 /\ d[a + 1] = CodeAt(t, f[a])
        BY <3>1, <3>2, <3>3
      <3>5. f[a] < Codes(t) /\ f[a + 1] = f[a] + 1
        BY <1>1, <3>1, <3>2
      <3> QED BY <3>4, <3>5, Zenon
    <2>3. CASE a >= L + w
      <3>1. /\ a \in (L + w)..(L + w + v) /\ a + 1 \in (L + w)..(L + w + v)
            /\ a + 1 - L \in (w + 1)..(w + v) /\ L + (a + 1 - L) = a + 1
        BY <2>3
      <3>2. f[a] = g[L] + w /\ f[a + 1] = g[L] + w
        BY <1>3, <3>1, Zenon
      <3>3. ~(d[a + 1] < 64) /\ (d[a + 1] = Pad => g[L] + w = Codes(t))
        BY <3>1, Zenon
      <3> QED BY <3>2, <3>3, Zenon
    <2> QED BY <2>1, <2>2, <2>3
  <1>6. f[L + w + v] = g[L] + w
    BY <1>3
  <1> QED BY <1>2, <1>4, <1>5, <1>6 DEF CodeOK, CodeCounted

\* A character of no meaning is put in after the first k.
CodeInserts(b, d, L, g, t, k) ==
    /\ L \in Nat /\ k \in 0..L /\ g \in [Nat -> Nat] /\ CodeOK(b, L, g, t)
    /\ \A x \in 1..k : d[x] = b[x]
    /\ ~(d[k + 1] < 64) /\ d[k + 1] # Pad
    /\ \A x \in (k + 1)..L : d[1 + x] = b[x]

\* A character outside the alphabet does not change the code.
LEMMA CodeInsert ==
    ASSUME NEW b, NEW d, NEW L, NEW g, NEW t, NEW k, CodeInserts(b, d, L, g, t, k)
    PROVE  CodeCounted(d, L + 1, g[L], t)
  <1> USE DEF CodeInserts
  <1> DEFINE f == [a \in Nat |-> IF a <= k THEN g[a] ELSE g[a - 1]]
  <1>1. f \in [Nat -> Nat]
    OBVIOUS
  <1>2. /\ \A a \in 0..k : f[a] = g[a]
        /\ \A a \in (k + 1)..(L + 1) : f[a] = g[a - 1]
    OBVIOUS
  <1> HIDE DEF f
  <1>3. f[0] = 0
    BY <1>2 DEF CodeOK
  <1>4. ASSUME NEW a \in 0..(L + 1 - 1)
        PROVE  /\ d[a + 1] < 64 => /\ f[a] < Codes(t) /\ f[a + 1] = f[a] + 1
                                   /\ d[a + 1] = CodeAt(t, f[a])
               /\ ~(d[a + 1] < 64) => f[a + 1] = f[a] /\ (d[a + 1] = Pad => f[a] = Codes(t))
    <2>1. CASE a < k
      <3>1. a \in 0..(L - 1) /\ a \in 0..k /\ a + 1 \in 0..k /\ a + 1 \in 1..k
        BY <2>1
      <3>2. f[a] = g[a] /\ f[a + 1] = g[a + 1] /\ d[a + 1] = b[a + 1]
        BY <1>2, <3>1, Zenon
      <3> QED BY <3>1, <3>2, Zenon DEF CodeOK
    <2>2. CASE a = k
      <3>1. k \in 0..k /\ k + 1 \in (k + 1)..(L + 1) /\ k + 1 - 1 = k
        OBVIOUS
      <3>2. f[a] = g[k] /\ f[a + 1] = g[k]
        BY <1>2, <2>2, <3>1
      <3> QED BY <2>2, <3>2, Zenon
    <2>3. CASE a > k
      <3>1. /\ a - 1 \in 0..(L - 1) /\ a \in (k + 1)..(L + 1) /\ a + 1 \in (k + 1)..(L + 1)
            /\ a \in (k + 1)..L /\ 1 + a = a + 1 /\ a - 1 + 1 = a /\ a + 1 - 1 = a
        BY <2>3
      <3>2. f[a] = g[a - 1] /\ f[a + 1] = g[a - 1 + 1] /\ d[a + 1] = b[a - 1 + 1]
        BY <1>2, <3>1
      <3> QED BY <3>1, <3>2, Zenon DEF CodeOK
    <2> QED BY <2>1, <2>2, <2>3
  <1>5. f[L + 1] = g[L]
    <2>1. L + 1 \in (k + 1)..(L + 1) /\ L + 1 - 1 = L
      OBVIOUS
    <2> QED BY <1>2, <2>1
  <1> QED BY <1>1, <1>3, <1>4, <1>5 DEF CodeOK, CodeCounted
\* How many characters and bytes there are.
LEMMA CodesIs ==
    ASSUME NEW t \in Seq(Byte)
    PROVE  /\ Codes(t) \in Nat /\ Bytes(Codes(t)) = Len(t)
           /\ \A q \in Nat : /\ 3 * q + 3 <= Len(t) => 4 * q + 4 <= Codes(t)
                             /\ Len(t) = 3 * q => Codes(t) = 4 * q
                             /\ Len(t) = 3 * q + 1 => Codes(t) = 4 * q + 2
                             /\ Len(t) = 3 * q + 2 => Codes(t) = 4 * q + 3
           /\ \A q \in Nat, r \in 0..3 :
                 4 * q + r < Codes(t) => 3 * q + r <= Len(t) /\ 3 * q < Len(t)
  <1>1. ASSUME NEW L \in Nat, NEW M, M = (4 * L + 2) \div 3
        PROVE  /\ M \in Nat
               /\ \A q \in Nat : /\ 3 * q + 3 <= L => 4 * q + 4 <= M
                                 /\ L = 3 * q => M = 4 * q
                                 /\ L = 3 * q + 1 => M = 4 * q + 2
                                 /\ L = 3 * q + 2 => M = 4 * q + 3
               /\ \A q \in Nat, r \in 0..3 :
                     4 * q + r < M => 3 * q + r <= L /\ 3 * q < L
    BY <1>1
  <1>2. ASSUME NEW L \in Nat, NEW M, M = (4 * L + 2) \div 3
        PROVE  3 * (M \div 4) + (IF M % 4 = 0 THEN 0 ELSE (M % 4) - 1) = L
    <2>1. \E q \in Nat : L = 3 * q \/ L = 3 * q + 1 \/ L = 3 * q + 2
      <3>1. L \div 3 \in Nat /\ L = 3 * (L \div 3) + (L % 3) /\ L % 3 \in 0..2
        OBVIOUS
      <3> QED BY <3>1
    <2>2. PICK q \in Nat : L = 3 * q \/ L = 3 * q + 1 \/ L = 3 * q + 2
      BY <2>1, Zenon
    <2>3. CASE L = 3 * q
      <3>1. M = 4 * q /\ M \div 4 = q /\ M % 4 = 0
        BY <1>2, <2>3
      <3> QED BY <2>3, <3>1
    <2>4. CASE L = 3 * q + 1
      <3>1. M = 4 * q + 2 /\ M \div 4 = q /\ M % 4 = 2
        BY <1>2, <2>4
      <3> QED BY <2>4, <3>1
    <2>5. CASE L = 3 * q + 2
      <3>1. M = 4 * q + 3 /\ M \div 4 = q /\ M % 4 = 3
        BY <1>2, <2>5
      <3> QED BY <2>5, <3>1
    <2> QED BY <2>2, <2>3, <2>4, <2>5, Zenon
  <1>3. Len(t) \in Nat
    OBVIOUS
  <1> DEFINE L == Len(t)
             M == Codes(t)
  <1>4. M = (4 * L + 2) \div 3 /\ L \in Nat
    BY <1>3, Zenon DEF Codes
  <1> HIDE DEF L, M
  <1>5. Bytes(M) = L
    BY <1>2, <1>4, Zenon DEF Bytes
  <1> QED BY <1>1, <1>4, <1>5, Zenon DEF L, M

\* Two sequences after another one.
LEMMA JoinedTwice ==
    ASSUME NEW b \in Seq(Nat), NEW w \in Seq(Nat), NEW v \in Seq(Nat)
    PROVE  LET d == (b \o w) \o v
           IN  /\ d \in Seq(Nat) /\ Len(d) = Len(b) + Len(w) + Len(v)
               /\ \A x \in 1..Len(b) : d[x] = b[x]
               /\ \A x \in 1..Len(w) : d[Len(b) + x] = w[x]
               /\ \A x \in 1..Len(v) : d[Len(b) + (Len(w) + x)] = v[x]
  <1> DEFINE u == b \o w
             d == (b \o w) \o v
  <1>1. /\ u \in Seq(Nat) /\ Len(u) = Len(b) + Len(w)
        /\ \A x \in 1..Len(b) : u[x] = b[x]
        /\ \A x \in 1..Len(w) : u[Len(b) + x] = w[x]
    BY Joined, Zenon
  <1> HIDE DEF u
  <1>2. /\ u \o v \in Seq(Nat) /\ Len(u \o v) = Len(u) + Len(v)
        /\ \A x \in 1..Len(u) : (u \o v)[x] = u[x]
        /\ \A x \in 1..Len(v) : (u \o v)[Len(u) + x] = v[x]
    BY <1>1, Joined, Zenon
  <1>3. d = u \o v
    BY Zenon DEF u
  <1> HIDE DEF d
  <1>4. /\ d \in Seq(Nat) /\ Len(d) = Len(u) + Len(v)
        /\ \A x \in 1..Len(u) : d[x] = u[x]
        /\ \A x \in 1..Len(v) : d[Len(u) + x] = v[x]
    BY <1>2, <1>3, Zenon
  <1>5. Len(b) \in Nat /\ Len(w) \in Nat /\ Len(v) \in Nat
    OBVIOUS
  <1>6. \A B, W \in Nat : /\ \A x \in 1..B : x \in 1..(B + W)
                          /\ \A x \in 1..W : B + x \in 1..(B + W)
    OBVIOUS
  <1>7. \A x \in 1..Len(b) : d[x] = b[x]
    BY <1>1, <1>4, <1>5, <1>6, Zenon
  <1>8. \A x \in 1..Len(w) : d[Len(b) + x] = w[x]
    BY <1>1, <1>4, <1>5, <1>6, Zenon
  <1>9. ASSUME NEW x \in 1..Len(v) PROVE d[Len(b) + (Len(w) + x)] = v[x]
    <2>1. \A B, W \in Nat, y \in 1..Len(v) : B + W + y = B + (W + y)
      BY <1>5
    <2>2. Len(u) + x = Len(b) + (Len(w) + x)
      BY <1>1, <1>5, <2>1
    <2> QED BY <1>4, <2>2, Zenon
  <1> QED BY <1>1, <1>4, <1>7, <1>8, <1>9, Zenon DEF d

\* A line break, or none, at the end of a group.
LEMMA BreakOrNot ==
    ASSUME NEW full \in BOOLEAN
    PROVE  LET v == IF full THEN <<Break, Break>> ELSE <<>>
           IN  v \in Seq(Nat) /\ Len(v) \in 0..4 /\ \A x \in 1..Len(v) : v[x] = Break
  <1>1. Break \in Nat
    BY Zenon DEF Break
  <1>2. CASE full
    BY <1>1, <1>2
  <1>3. CASE ~full
    BY <1>3
  <1> QED BY <1>2, <1>3, Zenon

\* The bytes that n characters make are decoded, and the high bits of the next.
HighBits(x, r) == IF r = 1 THEN 4 * (x \div 4) ELSE IF r = 2 THEN 16 * (x \div 16)
                  ELSE 64 * (x \div 64)

DecodedAs(t, n, ph, o, bits) ==
    /\ ph = n % 4 /\ Len(o) = Bytes(n) /\ \A j \in 1..Bytes(n) : o[j] = t[j]
    /\ ph > 0 => bits = HighBits(ByteAt(t, 3 * (n \div 4) + ph), ph)

DecodedTo(n) == DecodedAs(s, n, m, out, decoded)

B64Code ==
    e = "base64" =>
        \E g \in [Nat -> Nat] :
            /\ CodeOK(buf, Len(buf), g, s)
            /\ pc = "encode" => \E q \in Nat : i = 3 * q /\ g[Len(buf)] = 4 * q
            /\ pc \in {"sent", "decode"} => g[Len(buf)] = Codes(s)
            /\ pc = "decode" => p <= Len(buf) /\ DecodedTo(g[p])
            /\ pc = "done" => out = s

\* A group of three bytes is four characters.
LEMMA CodeGroup ==
    ASSUME TransferType, B64Code, e = "base64", Group PROVE B64Code'
  <1>1. i \in Nat /\ Len(s) \in Nat /\ i + 3 <= Len(s) /\ s \in Seq(Byte) /\ pc = "encode"
    BY DEF TransferType, Group
  <1>2. PICK g \in [Nat -> Nat] : /\ CodeOK(buf, Len(buf), g, s)
                                  /\ \E q \in Nat : i = 3 * q /\ g[Len(buf)] = 4 * q
    BY <1>1, Zenon DEF B64Code
  <1>3. PICK q \in Nat : i = 3 * q /\ g[Len(buf)] = 4 * q
    BY <1>2, Zenon
  <1> DEFINE W == Encoded(s[i + 1], s[i + 2], s[i + 3])
             V == IF LineFull(c + 4) THEN <<Break, Break>> ELSE <<>>
  <1>a. buf' = (buf \o W) \o V /\ i' = i + 3 /\ UNCHANGED <<s, pc>>
    BY Zenon DEF Group
  <1>b. /\ W \in Seq(Nat) /\ Len(W) = 4
        /\ \A x \in 1..4 : W[x] < 64 /\ W[x] = CodeAt(s, 4 * q + x - 1)
    <2>1. i + 1 \in 1..Len(s) /\ i + 2 \in 1..Len(s) /\ i + 3 \in 1..Len(s)
      BY <1>1
    <2>2. s[i + 1] \in Byte /\ s[i + 2] \in Byte /\ s[i + 3] \in Byte
      BY <1>1, <2>1, ElementOfSeq, Zenon
    <2>3. W \in Seq(Nat) /\ Len(W) = 4 /\ \A k \in 1..4 : W[k] \in 0..63
      BY <2>2, EncodedIs, Zenon
    <2>4. /\ ByteAt(s, 3 * q + 1) = s[i + 1] /\ ByteAt(s, 3 * q + 2) = s[i + 2]
          /\ ByteAt(s, 3 * q + 3) = s[i + 3]
      BY <1>3, <2>1 DEF ByteAt
    <2>5. \A x \in 1..4 : (4 * q + x - 1) \div 4 = q /\ ((4 * q + x - 1) % 4) + 1 = x
      OBVIOUS
    <2>6. \A x \in 1..4 : W[x] = CodeAt(s, 4 * q + x - 1)
      BY <2>4, <2>5, Zenon DEF CodeAt
    <2>7. \A k \in 0..63 : k < 64
      OBVIOUS
    <2> QED BY <2>3, <2>6, <2>7, Zenon
  <1>c. V \in Seq(Nat) /\ Len(V) \in 0..4 /\ \A x \in 1..Len(V) : V[x] = Break
    BY BreakOrNot, Zenon
  <1> HIDE DEF W, V
  <1>4. i' = i + 3 /\ UNCHANGED <<s, pc>>
    BY <1>a, Zenon
  <1>5. PICK w, v :
            /\ w \in Seq(Nat) /\ v \in Seq(Nat) /\ buf' = (buf \o w) \o v
            /\ Len(w) = 4 /\ Len(v) \in 0..4
            /\ \A x \in 1..4 : w[x] < 64 /\ w[x] = CodeAt(s, 4 * q + x - 1)
            /\ \A x \in 1..Len(v) : v[x] = Break
    BY <1>a, <1>b, <1>c, Zenon
  <1>6. Len(v) \in 0..4 /\ \A x \in 1..Len(v) : v[x] = Break
    BY <1>5, Zenon
  <1>7. buf \in Seq(Nat) /\ Len(buf) \in Nat
    BY DEF TransferType
  <1>8. /\ buf' \in Seq(Nat) /\ Len(buf') = Len(buf) + Len(w) + Len(v)
        /\ \A x \in 1..Len(buf) : buf'[x] = buf[x]
        /\ \A x \in 1..Len(w) : buf'[Len(buf) + x] = w[x]
        /\ \A x \in 1..Len(v) : buf'[Len(buf) + (Len(w) + x)] = v[x]
    <2> DEFINE d == (buf \o w) \o v
    <2>1. /\ d \in Seq(Nat) /\ Len(d) = Len(buf) + Len(w) + Len(v)
          /\ \A x \in 1..Len(buf) : d[x] = buf[x]
          /\ \A x \in 1..Len(w) : d[Len(buf) + x] = w[x]
          /\ \A x \in 1..Len(v) : d[Len(buf) + (Len(w) + x)] = v[x]
      BY <1>5, <1>7, JoinedTwice, Zenon
    <2> HIDE DEF d
    <2>2. buf' = d
      BY <1>5, Zenon DEF d
    <2> QED BY <2>1, <2>2, Zenon
  <1>9. \A x \in 1..4 : buf'[Len(buf) + x] < 64 /\ buf'[Len(buf) + x] = CodeAt(s, g[Len(buf)] + x - 1)
    BY <1>3, <1>5, <1>8, Zenon
  <1>10. ASSUME NEW x \in 5..(4 + Len(v))
         PROVE  ~(buf'[Len(buf) + x] < 64) /\ buf'[Len(buf) + x] # Pad
    <2>1. x - 4 \in 1..Len(v) /\ 4 + (x - 4) = x
      BY <1>6
    <2>2. buf'[Len(buf) + (4 + (x - 4))] = Break
      BY <1>5, <1>6, <1>8, <2>1, Zenon
    <2>3. buf'[Len(buf) + x] = Break
      BY <2>1, <2>2, Zenon
    <2> QED BY <2>3 DEF Break, Pad
  <1>11. Codes(s) \in Nat /\ 4 * q + 4 <= Codes(s)
    <2>1. 3 * q + 3 <= Len(s)
      BY <1>1, <1>3, Zenon
    <2> QED BY <1>1, <2>1, CodesIs, Zenon
  <1>12. \E f \in [Nat -> Nat] : /\ CodeOK(buf', Len(buf) + Len(w) + Len(v), f, s)
                                 /\ f[Len(buf) + Len(w) + Len(v)] = g[Len(buf)] + Len(w)
    <2> DEFINE n == Len(w)
    <2>1. 4 \in 0..4 /\ 4 + 1 = 5 /\ n = 4
      BY <1>5
    <2>2. g[Len(buf)] + n <= Codes(s) /\ n \in 0..4
      BY <1>3, <1>11, <2>1, Zenon
    <2>3. \A x \in (n + 1)..(n + Len(v)) :
              ~(buf'[Len(buf) + x] < 64) /\ (buf'[Len(buf) + x] = Pad => g[Len(buf)] + n = Codes(s))
      BY <1>10, <2>1, Zenon
    <2>4. \A x \in 1..Len(buf) : buf'[x] = buf[x]
      BY <1>8, Zenon
    <2>5. \A x \in 1..n : /\ buf'[Len(buf) + x] < 64
                          /\ buf'[Len(buf) + x] = CodeAt(s, g[Len(buf)] + x - 1)
      BY <1>9, <2>1, Zenon
    <2>6. Len(v) \in 0..4 /\ Len(buf) \in Nat /\ Codes(s) \in Nat /\ CodeOK(buf, Len(buf), g, s)
      BY <1>2, <1>6, <1>7, <1>11, Zenon
    <2> HIDE DEF n
    <2>7. CodeGrows(buf, buf', Len(buf), g, s, n, Len(v))
      BY <2>2, <2>3, <2>4, <2>5, <2>6, Zenon DEF CodeGrows
    <2>8. \E f \in [Nat -> Nat] : /\ CodeOK(buf', Len(buf) + n + Len(v), f, s)
                                  /\ f[Len(buf) + n + Len(v)] = g[Len(buf)] + n
      <3>1. CodeCounted(buf', Len(buf) + n + Len(v), g[Len(buf)] + n, s)
        BY <2>7, CodeGrow, Zenon
      <3> QED BY <3>1, Zenon DEF CodeCounted
    <2> QED BY <2>8, Zenon DEF n
  <1>13. PICK f \in [Nat -> Nat] : CodeOK(buf', Len(buf'), f, s) /\ f[Len(buf')] = g[Len(buf)] + 4
    BY <1>5, <1>8, <1>12, Zenon
  <1>14. i' = 3 * (q + 1) /\ f[Len(buf')] = 4 * (q + 1) /\ q + 1 \in Nat
    BY <1>3, <1>4, <1>13
  <1> QED BY <1>1, <1>4, <1>13, <1>14, Zenon DEF B64Code
\* What is left over is two or three characters and padding, or nothing.
LEMMA RestCode ==
    ASSUME s \in Seq(Byte), NEW q \in Nat, i = 3 * q, i <= Len(s), i + 3 > Len(s)
    PROVE  \E k, y \in 0..3 :
               /\ Codes(s) = 4 * q + k /\ Len(Rest) = k + y /\ y <= 2
               /\ \A x \in 1..k : Rest[x] < 64 /\ Rest[x] = CodeAt(s, 4 * q + x - 1)
               /\ \A x \in (k + 1)..(k + y) : Rest[x] = Pad
  <1>1. Len(s) \in Nat
    OBVIOUS
  <1>2. CASE Len(s) = 3 * q
    <2>1. Rest = <<>>
      BY <1>2 DEF Rest
    <2>2. Codes(s) = 4 * q + 0
      BY <1>2, CodesIs
    <2>3. 0 \in 0..3 /\ Len(Rest) = 0 + 0 /\ 0 <= 2 /\ 1..0 = {} /\ (0 + 1)..(0 + 0) = {}
      BY <2>1
    <2> QED BY <2>2, <2>3, Zenon
  <1>3. CASE i < Len(s)
    <2> DEFINE two == i + 1 < Len(s)
               a == Encoded(s[i + 1], IF two THEN s[i + 2] ELSE 0, 0)
    <2>1. Rest = <<a[1], a[2], IF two THEN a[3] ELSE Pad, Pad>>
      BY <1>3, Zenon DEF Rest
    <2>2. /\ ByteAt(s, 3 * q + 1) = s[i + 1]
          /\ ByteAt(s, 3 * q + 2) = IF two THEN s[i + 2] ELSE 0
          /\ ByteAt(s, 3 * q + 3) = 0
      BY <1>1, <1>3 DEF ByteAt
    <2>3. \A x \in 1..4 : (4 * q + x - 1) \div 4 = q /\ ((4 * q + x - 1) % 4) + 1 = x
      OBVIOUS
    <2>4. \A x \in 1..4 : a[x] = CodeAt(s, 4 * q + x - 1)
      BY <2>2, <2>3, Zenon DEF CodeAt
    <2>5. \A x \in 1..4 : CodeAt(s, 4 * q + x - 1) < 64
      <3>1. \A x \in 1..4 : x - 1 \in 0..3 /\ 4 * q + (x - 1) = 4 * q + x - 1
        OBVIOUS
      <3>2. \A r \in 0..3 : CodeAt(s, 4 * q + r) \in 0..63
        BY CodeIs, Zenon
      <3>3. \A r \in 0..63 : r < 64
        OBVIOUS
      <3> QED BY <3>1, <3>2, <3>3, Zenon
    <2> HIDE DEF a
    <2>6. CASE two
      <3>1. Codes(s) = 4 * q + 3
        <4>1. Len(s) = 3 * q + 2
          BY <1>1, <2>6
        <4> QED BY <4>1, CodesIs, Zenon
      <3>2. /\ Len(Rest) = 4 /\ Rest[1] = a[1] /\ Rest[2] = a[2] /\ Rest[3] = a[3]
            /\ Rest[4] = Pad
        BY <2>1, <2>6, Zenon
      <3>3. /\ 3 \in 0..3 /\ 1 \in 0..3 /\ 4 = 3 + 1 /\ 1 <= 2
            /\ \A x \in 1..3 : x \in 1..4 /\ (x = 1 \/ x = 2 \/ x = 3)
            /\ \A x \in (3 + 1)..(3 + 1) : x = 4
        OBVIOUS
      <3>4. \A x \in 1..3 : Rest[x] < 64 /\ Rest[x] = CodeAt(s, 4 * q + x - 1)
        <4>1. \A x \in 1..3 : Rest[x] = a[x]
          BY <3>2, <3>3, Zenon
        <4> TAKE x \in 1..3
        <4>2. x \in 1..4
          BY <3>3, Zenon
        <4>3. a[x] = CodeAt(s, 4 * q + x - 1) /\ CodeAt(s, 4 * q + x - 1) < 64
          BY <2>4, <2>5, <4>2, Zenon
        <4> QED BY <4>1, <4>3, Zenon
      <3>5. \A x \in (3 + 1)..(3 + 1) : Rest[x] = Pad
        BY <3>2, <3>3, Zenon
      <3>6. Len(Rest) = 3 + 1
        BY <3>2
      <3> QED BY <3>1, <3>3, <3>4, <3>5, <3>6, Zenon
    <2>7. CASE ~two
      <3>1. Codes(s) = 4 * q + 2
        <4>1. Len(s) = 3 * q + 1
          BY <1>1, <1>3, <2>7
        <4> QED BY <4>1, CodesIs, Zenon
      <3>2. /\ Len(Rest) = 4 /\ Rest[1] = a[1] /\ Rest[2] = a[2] /\ Rest[3] = Pad
            /\ Rest[4] = Pad
        BY <2>1, <2>7, Zenon
      <3>3. /\ 2 \in 0..3 /\ 4 = 2 + 2 /\ 2 <= 2
            /\ \A x \in 1..2 : x \in 1..4 /\ (x = 1 \/ x = 2)
            /\ \A x \in (2 + 1)..(2 + 2) : x = 3 \/ x = 4
        OBVIOUS
      <3>4. \A x \in 1..2 : Rest[x] < 64 /\ Rest[x] = CodeAt(s, 4 * q + x - 1)
        BY <2>4, <2>5, <3>2, <3>3, Zenon
      <3>5. \A x \in (2 + 1)..(2 + 2) : Rest[x] = Pad
        BY <3>2, <3>3, Zenon
      <3>6. Len(Rest) = 2 + 2
        BY <3>2
      <3> QED BY <3>1, <3>3, <3>4, <3>5, <3>6, Zenon
    <2> QED BY <2>6, <2>7, Zenon
  <1> QED BY <1>1, <1>2, <1>3
\* What is left over, and after it a line break or none.
LEMMA CodeFinish ==
    ASSUME TransferType, B64Code, e = "base64", Finish PROVE B64Code'
  <1>1. /\ i \in Nat /\ Len(s) \in Nat /\ i <= Len(s) /\ i + 3 > Len(s) /\ s \in Seq(Byte)
        /\ pc = "encode" /\ i \in 0..Len(s)
    BY DEF TransferType, Finish
  <1>2. PICK g \in [Nat -> Nat] : /\ CodeOK(buf, Len(buf), g, s)
                                  /\ \E q \in Nat : i = 3 * q /\ g[Len(buf)] = 4 * q
    BY <1>1, Zenon DEF B64Code
  <1>3. PICK q \in Nat : i = 3 * q /\ g[Len(buf)] = 4 * q
    BY <1>2, Zenon
  <1>4. PICK k, y \in 0..3 :
            /\ Codes(s) = 4 * q + k /\ Len(Rest) = k + y /\ y <= 2
            /\ \A x \in 1..k : Rest[x] < 64 /\ Rest[x] = CodeAt(s, 4 * q + x - 1)
            /\ \A x \in (k + 1)..(k + y) : Rest[x] = Pad
    BY <1>1, <1>3, RestCode, Zenon
  <1> DEFINE V == IF lineLength > 0 /\ c > 0 THEN <<Break, Break>> ELSE <<>>
  <1>5. buf' = (buf \o Rest) \o V /\ UNCHANGED s /\ pc' = "sent"
    BY Zenon DEF Finish
  <1>6. V \in Seq(Nat) /\ Len(V) \in {0, 2} /\ \A x \in 1..Len(V) : V[x] = Break
    BY BreakOrNot, Zenon
  <1> HIDE DEF V
  <1>7. buf \in Seq(Nat) /\ Rest \in Seq(Nat) /\ Len(buf) \in Nat
    BY <1>1, RestType DEF TransferType
  <1>0. PICK d, L, r, v, t : d = buf' /\ L = Len(buf) /\ r = Rest /\ v = Len(V) /\ t = s
    BY Zenon
  <1>8.     /\ d = buf' /\ L = Len(buf) /\ r = Rest /\ v = Len(V) /\ t = s
            /\ L \in Nat /\ v \in {0, 2} /\ Len(buf') = L + (k + y) + v
            /\ \A x \in 1..L : d[x] = buf[x]
            /\ \A x \in 1..(k + y) : d[L + x] = r[x]
            /\ \A x \in 1..v : d[L + (k + y + x)] = Break
    <2> DEFINE D == (buf \o Rest) \o V
    <2>1. /\ D \in Seq(Nat) /\ Len(D) = Len(buf) + Len(Rest) + Len(V)
          /\ \A x \in 1..Len(buf) : D[x] = buf[x]
          /\ \A x \in 1..Len(Rest) : D[Len(buf) + x] = Rest[x]
          /\ \A x \in 1..Len(V) : D[Len(buf) + (Len(Rest) + x)] = V[x]
      BY <1>6, <1>7, JoinedTwice, Zenon
    <2> HIDE DEF D
    <2>2. D = buf' /\ D = d
      BY <1>0, <1>5, Zenon DEF D
    <2>3. Len(Rest) = k + y
      BY <1>4, Zenon
    <2>4. \A x \in 1..Len(V) : D[Len(buf) + (k + y + x)] = Break
      BY <1>6, <2>1, <2>3, Zenon
    <2>5. L \in Nat /\ v \in {0, 2} /\ Len(buf') = L + (k + y) + v
      BY <1>0, <1>6, <1>7, <2>1, <2>2, <2>3, Zenon
    <2>6. /\ \A x \in 1..L : d[x] = buf[x]
          /\ \A x \in 1..(k + y) : d[L + x] = r[x]
      BY <1>0, <2>1, <2>2, <2>3, Zenon
    <2>7. \A x \in 1..v : d[L + (k + y + x)] = Break
      BY <1>0, <2>2, <2>4, Zenon
    <2> QED BY <1>0, <2>5, <2>6, <2>7, Zenon
  <1>9. \A x \in 1..k : d[L + x] < 64 /\ d[L + x] = CodeAt(t, g[L] + x - 1)
    <2>1. \A x \in 1..k : x \in 1..(k + y)
      OBVIOUS
    <2>2. g[L] = 4 * q /\ r = Rest /\ t = s
      BY <1>3, <1>8, Zenon
    <2> QED BY <1>4, <1>8, <2>1, <2>2, Zenon
  <1>10. ASSUME NEW x \in (k + 1)..(k + (y + v))
         PROVE  ~(d[L + x] < 64) /\ (d[L + x] = Pad => g[L] + k = Codes(t))
    <2>1. v \in Nat /\ L \in Nat
      BY <1>8
    <2>2. CASE x <= k + y
      <3>1. x \in (k + 1)..(k + y) /\ x \in 1..(k + y)
        BY <2>2
      <3>2. d[L + x] = Pad
        BY <1>4, <1>8, <3>1, Zenon
      <3>3. g[L] + k = Codes(t)
        BY <1>3, <1>4, <1>8, Zenon
      <3> QED BY <3>2, <3>3 DEF Pad
    <2>3. CASE x > k + y
      <3>1. x - (k + y) \in 1..v /\ k + y + (x - (k + y)) = x
        BY <2>1, <2>3
      <3>2. d[L + (k + y + (x - (k + y)))] = Break
        BY <1>8, <3>1, Zenon
      <3>3. d[L + x] = Break
        BY <3>1, <3>2, Zenon
      <3> QED BY <3>3 DEF Break, Pad
    <2> QED BY <2>1, <2>2, <2>3
  <1>11. Codes(t) \in Nat /\ g[L] + k <= Codes(t)
    <2>1. Codes(s) \in Nat
      BY <1>1, CodesIs, Zenon
    <2>2. t = s /\ g[L] = 4 * q /\ Codes(s) = 4 * q + k
      BY <1>3, <1>4, <1>8, Zenon
    <2>3. g[L] + k = Codes(t)
      BY <2>2, Zenon
    <2> QED BY <2>1, <2>2, <2>3
  <1> DEFINE z == y + v
  <1>12. CodeGrows(buf, d, L, g, t, k, z)
    <2>1. z \in 0..4 /\ k \in 0..4 /\ L \in Nat
      <3>1. y <= 2 /\ v \in {0, 2} /\ L \in Nat
        BY <1>4, <1>8, Zenon
      <3> QED BY <3>1
    <2>2. \A x \in (k + 1)..(k + z) : ~(d[L + x] < 64) /\ (d[L + x] = Pad => g[L] + k = Codes(t))
      BY <1>10, Zenon
    <2>3. CodeOK(buf, L, g, t)
      BY <1>2, <1>8, Zenon
    <2>4. \A x \in 1..L : d[x] = buf[x]
      BY <1>8, Zenon
    <2> HIDE DEF z
    <2> QED BY <1>9, <1>11, <2>1, <2>2, <2>3, <2>4, Zenon DEF CodeGrows
  <1> HIDE DEF z
  <1>13. PICK f \in [Nat -> Nat] : CodeOK(d, L + k + z, f, t) /\ f[L + k + z] = g[L] + k
    <2>1. CodeCounted(d, L + k + z, g[L] + k, t)
      BY <1>12, CodeGrow, Zenon
    <2> QED BY <2>1, Zenon DEF CodeCounted
  <1>14. Len(buf') = L + k + z
    <2>1. Len(buf') = L + (k + y) + v /\ L \in Nat /\ v \in Nat
      BY <1>8
    <2> QED BY <2>1 DEF z
  <1>15. g[L] + k = Codes(s)
    BY <1>3, <1>4, <1>8, Zenon
  <1>16. CodeOK(buf', Len(buf'), f, s) /\ f[Len(buf')] = Codes(s)
    BY <1>8, <1>13, <1>14, <1>15, Zenon
  <1> QED BY <1>5, <1>16, Zenon DEF B64Code

\* A character of no meaning comes in.
LEMMA CodeInserted ==
    ASSUME TransferType, B64Code, e = "base64", NEW k \in 0..Len(buf),
           NEW ch \in {Break, Other}, Insert(k, ch)
    PROVE  B64Code'
  <1>1. /\ buf \in Seq(Nat) /\ Len(buf) \in Nat /\ pc = "sent" /\ pc' = "sent" /\ s' = s
        /\ buf' = SubSeq(buf, 1, k) \o <<ch>> \o SubSeq(buf, k + 1, Len(buf))
    BY DEF TransferType, Insert
  <1>2. PICK g \in [Nat -> Nat] : CodeOK(buf, Len(buf), g, s) /\ g[Len(buf)] = Codes(s)
    BY <1>1, Zenon DEF B64Code
  <1>3. <<ch>> \in Seq(Nat) /\ Len(<<ch>>) = 1 /\ <<ch>>[1] = ch /\ ~(ch < 64) /\ ch # Pad
    BY DEF Break, Other, Pad
  <1>0. PICK b, d, L, t : b = buf /\ d = buf' /\ L = Len(buf) /\ t = s
    BY Zenon
  <1>4. /\ L \in Nat /\ k \in 0..L /\ Len(buf') = L + 1 /\ d[k + 1] = ch
        /\ \A x \in 1..k : d[x] = b[x]
        /\ \A x \in (k + 1)..L : d[1 + x] = b[x]
    <2> DEFINE w == <<ch>>
               D == SubSeq(buf, 1, k) \o w \o SubSeq(buf, k + 1, Len(buf))
    <2>0. 1 \in 1..1
      OBVIOUS
    <2> HIDE DEF w
    <2>1. /\ D \in Seq(Nat) /\ Len(D) = Len(buf) + Len(w)
          /\ \A x \in 1..k : D[x] = buf[x]
          /\ \A x \in 1..Len(w) : D[k + x] = w[x]
          /\ \A x \in (k + 1)..Len(buf) : D[Len(w) + x] = buf[x]
      BY <1>1, <1>3, Spliced, Zenon DEF w
    <2> HIDE DEF D
    <2>2. D = buf' /\ D = d
      BY <1>0, <1>1, Zenon DEF D, w
    <2>3. Len(w) = 1 /\ w[1] = ch
      BY <1>3, Zenon DEF w
    <2>4. d[k + 1] = ch
      BY <2>0, <2>1, <2>2, <2>3, Zenon
    <2>5. L \in Nat /\ k \in 0..L /\ Len(buf') = L + 1
      BY <1>0, <1>1, <2>1, <2>2, <2>3, Zenon
    <2>6. /\ \A x \in 1..k : d[x] = b[x]
          /\ \A x \in (k + 1)..L : d[1 + x] = b[x]
      BY <1>0, <2>1, <2>2, <2>3, Zenon
    <2> QED BY <2>4, <2>5, <2>6, Zenon
  <1>5. CodeInserts(b, d, L, g, t, k)
    <2>1. CodeOK(b, L, g, t)
      BY <1>0, <1>2, Zenon
    <2>2. ~(d[k + 1] < 64) /\ d[k + 1] # Pad
      BY <1>3, <1>4, Zenon
    <2> QED BY <1>4, <2>1, <2>2, Zenon DEF CodeInserts
  <1>6. PICK f \in [Nat -> Nat] : CodeOK(d, L + 1, f, t) /\ f[L + 1] = g[L]
    <2>1. CodeCounted(d, L + 1, g[L], t)
      BY <1>5, CodeInsert, Zenon
    <2> QED BY <2>1, Zenon DEF CodeCounted
  <1>7. g[L] = Codes(s)
    BY <1>0, <1>2, Zenon
  <1>8. CodeOK(buf', Len(buf'), f, s) /\ f[Len(buf')] = Codes(s)
    BY <1>0, <1>4, <1>6, <1>7, Zenon
  <1> QED BY <1>1, <1>8, Zenon DEF B64Code
\* The bits of two characters of a group make the byte between them.
LEMMA ByteBits ==
    ASSUME NEW x \in Byte, NEW y \in Byte, NEW z \in Byte
    PROVE  LET a == x \div 4
               b == (x % 4) * 16 + (y \div 16)
               d == (y % 16) * 4 + (z \div 64)
               f == z % 64
           IN  /\ (HighBits(x, 1) + (b \div 16)) % 256 = x
               /\ (HighBits(y, 2) + (d \div 4)) % 256 = y
               /\ (HighBits(z, 3) + f) % 256 = z
               /\ (a * 4) % 256 = HighBits(x, 1)
               /\ ((b % 16) * 16) % 256 = HighBits(y, 2)
               /\ ((d % 4) * 64) % 256 = HighBits(z, 3)
  <1>1. x \in 0..255 /\ y \in 0..255 /\ z \in 0..255
    BY Zenon DEF Byte
  <1>2. ASSUME NEW q \in 0..15, NEW r \in 0..3
        PROVE  (r * 16 + q) \div 16 = r /\ (r * 16 + q) % 16 = q
    OBVIOUS
  <1>3. ASSUME NEW q \in 0..3, NEW r \in 0..15
        PROVE  (r * 4 + q) \div 4 = r /\ (r * 4 + q) % 4 = q
    OBVIOUS
  <1>4. /\ y \div 16 \in 0..15 /\ x % 4 \in 0..3 /\ z \div 64 \in 0..3 /\ y % 16 \in 0..15
        /\ x \div 4 \in 0..63 /\ z % 64 \in 0..63
    BY <1>1
  <1>5. /\ 4 * (x \div 4) + (x % 4) = x /\ 16 * (y \div 16) + (y % 16) = y
        /\ 64 * (z \div 64) + (z % 64) = z
    BY <1>1
  <1>6. \A n \in 0..255 : n % 256 = n
    OBVIOUS
  <1>7. /\ ((x % 4) * 16 + (y \div 16)) \div 16 = x % 4
        /\ ((x % 4) * 16 + (y \div 16)) % 16 = y \div 16
        /\ ((y % 16) * 4 + (z \div 64)) \div 4 = y % 16
        /\ ((y % 16) * 4 + (z \div 64)) % 4 = z \div 64
    BY <1>2, <1>3, <1>4, Zenon
  <1>8. /\ (x \div 4) * 4 = 4 * (x \div 4) /\ 4 * (x \div 4) \in 0..255
        /\ (y \div 16) * 16 = 16 * (y \div 16) /\ 16 * (y \div 16) \in 0..255
        /\ (z \div 64) * 64 = 64 * (z \div 64) /\ 64 * (z \div 64) \in 0..255
    BY <1>4
  <1>9. HighBits(x, 1) = 4 * (x \div 4) /\ HighBits(y, 2) = 16 * (y \div 16)
        /\ HighBits(z, 3) = 64 * (z \div 64)
    BY Zenon DEF HighBits
  <1>10. (HighBits(x, 1) + (((x % 4) * 16 + (y \div 16)) \div 16)) % 256 = x
    BY <1>1, <1>5, <1>6, <1>7, <1>9, Zenon
  <1>11. (HighBits(y, 2) + (((y % 16) * 4 + (z \div 64)) \div 4)) % 256 = y
    BY <1>1, <1>5, <1>6, <1>7, <1>9, Zenon
  <1>12. (HighBits(z, 3) + (z % 64)) % 256 = z
    BY <1>1, <1>5, <1>6, <1>9, Zenon
  <1>13. ((x \div 4) * 4) % 256 = HighBits(x, 1)
    BY <1>6, <1>8, <1>9, Zenon
  <1>14. ((((x % 4) * 16 + (y \div 16)) % 16) * 16) % 256 = HighBits(y, 2)
    <2>1. (((x % 4) * 16 + (y \div 16)) % 16) * 16 = 16 * (y \div 16)
      BY <1>7, <1>8, Zenon
    <2> QED BY <1>6, <1>8, <1>9, <2>1, Zenon
  <1>15. ((((y % 16) * 4 + (z \div 64)) % 4) * 64) % 256 = HighBits(z, 3)
    <2>1. (((y % 16) * 4 + (z \div 64)) % 4) * 64 = 64 * (z \div 64)
      BY <1>7, <1>8, Zenon
    <2> QED BY <1>6, <1>8, <1>9, <2>1, Zenon
  <1> QED BY <1>10, <1>11, <1>12, <1>13, <1>14, <1>15, Zenon

\* The number of bytes, one character later.
LEMMA BytesIs ==
    ASSUME NEW q \in Nat, NEW r \in 0..3
    PROVE  /\ (4 * q + r) % 4 = r /\ (4 * q + r) \div 4 = q
           /\ Bytes(4 * q + r) = IF r = 0 THEN 3 * q ELSE 3 * q + (r - 1)
           /\ Bytes(4 * q + r + 1) = 3 * q + r
           /\ r < 3 => (4 * q + r + 1) % 4 = r + 1 /\ (4 * q + r + 1) \div 4 = q
           /\ r = 3 => (4 * q + r + 1) % 4 = 0
  <1>1. (4 * q + r) % 4 = r /\ (4 * q + r) \div 4 = q
    OBVIOUS
  <1>2. r < 3 => (4 * q + r + 1) % 4 = r + 1 /\ (4 * q + r + 1) \div 4 = q
    OBVIOUS
  <1>3. r = 3 => (4 * q + r + 1) % 4 = 0 /\ (4 * q + r + 1) \div 4 = q + 1
    OBVIOUS
  <1>4. Bytes(4 * q + r) = IF r = 0 THEN 3 * q ELSE 3 * q + (r - 1)
    BY <1>1 DEF Bytes
  <1>5. Bytes(4 * q + r + 1) = 3 * q + r
    BY <1>2, <1>3 DEF Bytes
  <1> QED BY <1>1, <1>2, <1>3, <1>4, <1>5, Zenon

\* Bytes are numbers.
LEMMA BytesAreNat == \A x \in Byte : x \in Nat
  BY DEF Byte

\* A range of numbers and the next one.
LEMMA UpTo ==
    ASSUME NEW n \in Nat
    PROVE  \A j \in 1..(n + 1) : j \in 1..n \/ j = n + 1
  OBVIOUS

\* The phases of de64 follow each other.
LEMMA NextInGroup ==
    ASSUME NEW r \in 0..3 PROVE (r < 3 => (r + 1) % 4 = r + 1) /\ (r = 3 => (r + 1) % 4 = 0)
  OBVIOUS

\* Two strings with the same bytes are the same.
LEMMA SameString ==
    ASSUME NEW t \in Seq(Byte), NEW o \in Seq(Nat), Len(o) = Len(t),
           \A j \in 1..Len(t) : o[j] = t[j]
    PROVE  o = t
  <1>1. \A j \in 1..Len(t) : t[j] \in Nat
    <2> TAKE j \in 1..Len(t)
    <2>1. t[j] \in Byte
      BY ElementOfSeq, Zenon
    <2> QED BY <2>1, BytesAreNat, Zenon
  <1>2. t \in Seq(Nat)
    <2>1. t \in [1..Len(t) -> Nat] /\ Len(t) \in Nat
      BY <1>1
    <2> QED BY <2>1
  <1> QED BY <1>2, SeqEqual, Zenon

\* One more character: in phase r it completes a byte, unless r is 0.
LEMMA DecodeCode ==
    ASSUME NEW t \in Seq(Byte), NEW q \in Nat, NEW r \in 0..3, NEW o \in Seq(Nat), NEW bits,
           NEW u, NEW left, NEW ch,
           4 * q + r < Codes(t), ch = CodeAt(t, 4 * q + r),
           DecodedAs(t, 4 * q + r, r, o, bits),
           u = IF r > 0 THEN Append(o, (bits + High(ch, r)) % 256) ELSE o,
           left = Low(ch, r) % 256
    PROVE  DecodedAs(t, 4 * q + r + 1, (r + 1) % 4, u, left)
  <1> DEFINE x == ByteAt(t, 3 * q + 1)
             y == ByteAt(t, 3 * q + 2)
             z == ByteAt(t, 3 * q + 3)
  <1>1. /\ x \in Byte /\ y \in Byte /\ z \in Byte
        /\ CodeAt(t, 4 * q) = x \div 4
        /\ CodeAt(t, 4 * q + 1) = (x % 4) * 16 + (y \div 16)
        /\ CodeAt(t, 4 * q + 2) = (y % 16) * 4 + (z \div 64)
        /\ CodeAt(t, 4 * q + 3) = z % 64
        /\ \A k \in 0..3 : CodeAt(t, 4 * q + k) \in 0..63
    BY CodeIs, Zenon
  <1>2. 3 * q + r <= Len(t) /\ 3 * q < Len(t) /\ Len(t) \in Nat
    BY CodesIs
  <1> HIDE DEF x, y, z
  <1>3. /\ (4 * q + r) \div 4 = q
        /\ Bytes(4 * q + r) = IF r = 0 THEN 3 * q ELSE 3 * q + (r - 1)
        /\ Bytes(4 * q + r + 1) = 3 * q + r
        /\ r < 3 => (4 * q + r + 1) % 4 = r + 1 /\ (4 * q + r + 1) \div 4 = q
        /\ r = 3 => (4 * q + r + 1) % 4 = 0
    BY BytesIs, Zenon
  <1>4. /\ Len(o) = Bytes(4 * q + r) /\ \A j \in 1..Bytes(4 * q + r) : o[j] = t[j]
        /\ r > 0 => bits = HighBits(ByteAt(t, 3 * q + r), r)
    BY <1>3, Zenon DEF DecodedAs
  <1>5. /\ (HighBits(x, 1) + (((x % 4) * 16 + (y \div 16)) \div 16)) % 256 = x
        /\ (HighBits(y, 2) + (((y % 16) * 4 + (z \div 64)) \div 4)) % 256 = y
        /\ (HighBits(z, 3) + (z % 64)) % 256 = z
        /\ ((x \div 4) * 4) % 256 = HighBits(x, 1)
        /\ ((((x % 4) * 16 + (y \div 16)) % 16) * 16) % 256 = HighBits(y, 2)
        /\ ((((y % 16) * 4 + (z \div 64)) % 4) * 64) % 256 = HighBits(z, 3)
    BY <1>1, ByteBits
  <1>6. ch \in Nat
    <2>1. CodeAt(t, 4 * q + r) \in 0..63
      BY <1>1, Zenon
    <2>2. \A k \in 0..63 : k \in Nat
      OBVIOUS
    <2> QED BY <2>1, <2>2, Zenon
  <1>7. /\ Low(ch, 0) = ch * 4 /\ Low(ch, 1) = (ch % 16) * 16 /\ Low(ch, 2) = (ch % 4) * 64
        /\ High(ch, 1) = ch \div 16 /\ High(ch, 2) = ch \div 4 /\ High(ch, 3) = ch
    BY <1>6, Phases, Zenon
  <1>8. r = 0 \/ r = 1 \/ r = 2 \/ r = 3
    OBVIOUS
  <1>9. r < 3 => left = HighBits(ByteAt(t, 3 * q + (r + 1)), r + 1)
    <2>1. CASE r = 0
      <3>1. 4 * q + r = 4 * q /\ 3 * q + (r + 1) = 3 * q + 1 /\ r + 1 = 1
        BY <2>1
      <3>2. ch = x \div 4
        BY <1>1, <3>1, Zenon
      <3>3. left = ((x \div 4) * 4) % 256
        BY <1>7, <2>1, <3>2, Zenon
      <3> QED BY <1>5, <3>1, <3>3, Zenon DEF x
    <2>2. CASE r = 1
      <3>1. 3 * q + (r + 1) = 3 * q + 2 /\ r + 1 = 2
        BY <2>2
      <3> QED BY <1>1, <1>5, <1>7, <2>2, <3>1, Zenon DEF y
    <2>3. CASE r = 2
      <3>1. 3 * q + (r + 1) = 3 * q + 3 /\ r + 1 = 3
        BY <2>3
      <3> QED BY <1>1, <1>5, <1>7, <2>3, <3>1, Zenon DEF z
    <2>4. CASE r = 3
      BY <2>4
    <2> QED BY <1>8, <2>1, <2>2, <2>3, <2>4, Zenon
  <1>10. ASSUME r > 0 PROVE (bits + High(ch, r)) % 256 = t[3 * q + r] /\ 3 * q + r \in 1..Len(t)
    <2>1. ByteAt(t, 3 * q + r) = t[3 * q + r] /\ 3 * q + r \in 1..Len(t)
      BY <1>2, <1>10 DEF ByteAt
    <2>2. bits = HighBits(ByteAt(t, 3 * q + r), r)
      BY <1>4, <1>10, Zenon
    <2>3. CASE r = 1
      BY <1>1, <1>5, <1>7, <2>1, <2>2, <2>3, Zenon DEF x
    <2>4. CASE r = 2
      BY <1>1, <1>5, <1>7, <2>1, <2>2, <2>4, Zenon DEF y
    <2>5. CASE r = 3
      BY <1>1, <1>5, <1>7, <2>1, <2>2, <2>5, Zenon DEF z
    <2> QED BY <1>8, <1>10, <2>3, <2>4, <2>5
  <1>11. Len(u) = 3 * q + r /\ \A j \in 1..(3 * q + r) : u[j] = t[j]
    <2>1. CASE r = 0
      <3>1. u = o /\ Bytes(4 * q + r) = 3 * q /\ 3 * q + r = 3 * q
        BY <1>3, <2>1
      <3> QED BY <1>4, <3>1, Zenon
    <2>2. CASE r > 0
      <3> DEFINE x0 == (bits + High(ch, r)) % 256
      <3>1. x0 = t[3 * q + r] /\ x0 \in Nat
        <4>1. t[3 * q + r] \in Byte
          BY <1>10, <2>2, ElementOfSeq, Zenon
        <4> QED BY <1>10, <2>2, <4>1, BytesAreNat, Zenon
      <3>2. u = Append(o, x0) /\ Bytes(4 * q + r) = 3 * q + (r - 1)
        BY <1>3, <2>2
      <3> HIDE DEF x0
      <3>3. /\ Len(Append(o, x0)) = Len(o) + 1
            /\ \A j \in 1..Len(o) : Append(o, x0)[j] = o[j]
            /\ Append(o, x0)[Len(o) + 1] = x0
        BY <3>1, AppendProperties
      <3>4. Len(o) = 3 * q + (r - 1)
        BY <1>4, <3>2, Zenon
      <3>5. 3 * q + (r - 1) + 1 = 3 * q + r
        OBVIOUS
      <3>6. Len(u) = 3 * q + r /\ u[3 * q + r] = t[3 * q + r]
        BY <3>1, <3>2, <3>3, <3>4, <3>5, Zenon
      <3>7. \A j \in 1..(3 * q + (r - 1)) : u[j] = t[j]
        BY <1>4, <3>2, <3>3, <3>4, Zenon
      <3>8. \A j \in 1..(3 * q + r) : j \in 1..(3 * q + (r - 1)) \/ j = 3 * q + r
        <4>1. 3 * q + (r - 1) \in Nat
          BY <2>2
        <4> QED BY <3>5, <4>1, UpTo, Zenon
      <3> QED BY <3>6, <3>7, <3>8, Zenon
    <2> QED BY <1>8, <2>1, <2>2
  <1>12. r < 3 => (r + 1) % 4 = r + 1
    BY NextInGroup, Zenon
  <1>13. r = 3 => (r + 1) % 4 = 0
    BY NextInGroup, Zenon
  <1>14. (r + 1) % 4 = (4 * q + r + 1) % 4
    BY <1>3, <1>8, <1>12, <1>13
  <1>15. (r + 1) % 4 > 0 => left = HighBits(ByteAt(t, 3 * ((4 * q + r + 1) \div 4) + ((r + 1) % 4)),
                                           (r + 1) % 4)
    <2>1. CASE r < 3
      BY <1>3, <1>9, <1>12, <2>1, Zenon
    <2>2. CASE r = 3
      <3>1. ~((r + 1) % 4 > 0)
        BY <1>13, <2>2
      <3> QED BY <3>1, Zenon
    <2> QED BY <1>8, <2>1, <2>2
  <1> QED BY <1>3, <1>11, <1>14, <1>15, Zenon DEF DecodedAs

\* de64 reads a character: every byte it completes is the one e64 was given.
LEMMA CodeDecode ==
    ASSUME TransferType, B64Code, e = "base64", Decode PROVE B64Code'
  <1>1. /\ p \in Nat /\ m \in 0..3 /\ decoded \in Byte /\ out \in Seq(Nat) /\ buf \in Seq(Nat)
        /\ s \in Seq(Byte) /\ pc = "decode" /\ p < Len(buf) /\ Len(buf) \in Nat
        /\ UNCHANGED <<s, buf>> /\ p' = p + 1
    BY DEF TransferType, Decode
  <1>2. PICK g \in [Nat -> Nat] :
            /\ CodeOK(buf, Len(buf), g, s) /\ g[Len(buf)] = Codes(s) /\ DecodedTo(g[p])
    BY <1>1, Zenon DEF B64Code
  <1> DEFINE ch == buf[p + 1]
             n == g[p]
  <1>3. /\ out' = IF ch < 64 /\ m > 0 THEN Append(out, (decoded + High(ch, m)) % 256) ELSE out
        /\ decoded' = IF ch < 64 THEN Low(ch, m) % 256 ELSE decoded
        /\ m' = IF ch < 64 THEN (m + 1) % 4 ELSE m
        /\ pc' = IF ch = Pad THEN "done" ELSE "decode"
    BY Zenon DEF Decode, NextPhase
  <1>4. /\ ch < 64 => n < Codes(s) /\ g[p + 1] = n + 1 /\ ch = CodeAt(s, n)
        /\ ~(ch < 64) => g[p + 1] = n /\ (ch = Pad => n = Codes(s))
    <2>1. p \in 0..(Len(buf) - 1)
      BY <1>1
    <2> QED BY <1>2, <2>1, Zenon DEF CodeOK
  <1>5. n \in Nat /\ p + 1 <= Len(buf)
    BY <1>1
  <1> HIDE DEF ch, n
  <1>6. CASE ~(ch < 64)
    <2>1. UNCHANGED <<out, decoded, m>>
      BY <1>3, <1>6, Zenon
    <2>2. DecodedAs(s', n, m', out', decoded')
      BY <1>1, <1>2, <2>1, Zenon DEF DecodedTo, n
    <2>3. CASE ch = Pad
      <3>1. n = Codes(s) /\ pc' = "done"
        BY <1>3, <1>4, <1>6, <2>3, Zenon
      <3>2. Len(out) = Len(s) /\ \A j \in 1..Len(s) : out[j] = s[j]
        <4>1. Bytes(Codes(s)) = Len(s)
          BY <1>1, CodesIs, Zenon
        <4> QED BY <1>2, <3>1, <4>1, Zenon DEF DecodedTo, DecodedAs, n
      <3>3. out = s
        BY <1>1, <3>2, SameString, Zenon
      <3> QED BY <1>1, <1>2, <2>1, <3>1, <3>3, Zenon DEF B64Code
    <2>4. CASE ch # Pad
      <3>1. pc' = "decode" /\ g[p'] = n
        BY <1>1, <1>3, <1>4, <1>6, <2>4, Zenon
      <3>2. DecodedTo(g[p])'
        BY <2>2, <3>1, Zenon DEF DecodedTo
      <3> QED BY <1>1, <1>2, <1>5, <3>1, <3>2, Zenon DEF B64Code
    <2> QED BY <2>3, <2>4, Zenon
  <1>7. CASE ch < 64
    <2>1. pc' = "decode" /\ g[p'] = n + 1 /\ m' = (m + 1) % 4
      BY <1>1, <1>3, <1>4, <1>7 DEF Pad
    <2>2. n < Codes(s) /\ ch = CodeAt(s, n)
      BY <1>4, <1>7, Zenon
    <2>3. PICK q \in Nat, r \in 0..3 : n = 4 * q + r
      <3>1. n \div 4 \in Nat /\ n % 4 \in 0..3 /\ n = 4 * (n \div 4) + (n % 4)
        BY <1>5
      <3> QED BY <3>1, Zenon
    <2>4. DecodedAs(s, 4 * q + r, m, out, decoded)
      BY <1>2, <2>3, Zenon DEF DecodedTo, n
    <2>5. m = r
      BY <2>4, BytesIs, Zenon DEF DecodedAs
    <2>6. DecodedAs(s, 4 * q + r + 1, (r + 1) % 4, out', decoded')
      <3>1. 4 * q + r < Codes(s) /\ ch = CodeAt(s, 4 * q + r)
        BY <2>2, <2>3, Zenon
      <3>2. /\ out' = IF r > 0 THEN Append(out, (decoded + High(ch, r)) % 256) ELSE out
            /\ decoded' = Low(ch, r) % 256
        BY <1>3, <1>7, <2>5, Zenon
      <3>3. DecodedAs(s, 4 * q + r, r, out, decoded)
        BY <2>4, <2>5, Zenon
      <3> QED BY <1>1, <3>1, <3>2, <3>3, DecodeCode, Zenon
    <2>7. DecodedTo(g[p])'
      BY <1>1, <2>1, <2>3, <2>5, <2>6, Zenon DEF DecodedTo
    <2> QED BY <1>1, <1>2, <1>5, <2>1, <2>7, Zenon DEF B64Code
  <1> QED BY <1>6, <1>7, Zenon
\* The text and what is decoded of it stay as they should, whatever happens.
LEMMA B64CodeStep ==
    ASSUME TransferType, B64Code, [CNext]_cvars PROVE B64Code'
  <1>1. CASE e # "base64"
    <2>1. e' = e
      BY <1>1, Zenon DEF CNext, QPLineFeed, QPChar, QPFinish, QPInsert, CReceive, QPDecode,
                  QPReturn, Binary, cvars
    <2> QED BY <1>1, <2>1, Zenon DEF B64Code
  <1>2. CASE e = "base64" /\ CNext
    <2>1. Next /\ e' = e
      BY <1>2, Zenon DEF CNext, QPLineFeed, QPChar, QPFinish, QPInsert, CReceive, QPDecode,
                  QPReturn, Binary
    <2>2. CASE Receive
      <3>1. /\ pc = "sent" /\ pc' = "decode" /\ UNCHANGED <<s, buf, p, m, out, decoded>>
            /\ p = 0 /\ m = 0 /\ out = <<>> /\ Len(buf) \in Nat
        BY <2>2 DEF Receive, TransferType
      <3>2. PICK g \in [Nat -> Nat] : CodeOK(buf, Len(buf), g, s) /\ g[Len(buf)] = Codes(s)
        BY <1>2, <3>1, Zenon DEF B64Code
      <3>3. DecodedAs(s, 0, 0, <<>>, decoded)
        <4>1. Bytes(0) = 0 /\ 0 % 4 = 0 /\ ~(0 > 0) /\ 1..0 = {} /\ Len(<<>>) = 0
          BY DEF Bytes
        <4> QED BY <4>1, Zenon DEF DecodedAs
      <3>4. g[0] = 0
        BY <3>2, Zenon DEF CodeOK
      <3>5. DecodedTo(g[p])' /\ p' <= Len(buf)
        BY <3>1, <3>3, <3>4 DEF DecodedTo
      <3> QED BY <2>1, <3>1, <3>2, <3>5, Zenon DEF B64Code
    <2>3. CASE Return
      <3>1. /\ pc = "decode" /\ pc' = "done" /\ UNCHANGED <<s, buf, out>> /\ p = Len(buf)
            /\ s \in Seq(Byte) /\ out \in Seq(Nat)
        BY <1>2, <2>3, Zenon DEF Return, TransferType
      <3>2. PICK g \in [Nat -> Nat] :
                /\ CodeOK(buf, Len(buf), g, s) /\ g[Len(buf)] = Codes(s) /\ DecodedTo(g[p])
        BY <1>2, <3>1, Zenon DEF B64Code
      <3>3. Len(out) = Len(s) /\ \A j \in 1..Len(s) : out[j] = s[j]
        <4>1. Bytes(Codes(s)) = Len(s)
          BY <3>1, CodesIs, Zenon
        <4> QED BY <3>1, <3>2, <4>1, Zenon DEF DecodedTo, DecodedAs
      <3>4. out = s
        BY <3>1, <3>3, SameString, Zenon
      <3> QED BY <2>1, <3>1, <3>2, <3>4, Zenon DEF B64Code
    <2> QED BY <1>2, <2>1, <2>2, <2>3, CodeGroup, CodeFinish, CodeInserted, CodeDecode, Zenon DEF Next
  <1>3. CASE UNCHANGED cvars
    BY <1>3, Zenon DEF cvars, vars, B64Code, DecodedTo
  <1> QED BY <1>1, <1>2, <1>3, Zenon

\* Nothing is encoded at the start.
LEMMA B64CodeInit == CInit => B64Code
  <1> SUFFICES ASSUME CInit, e = "base64" PROVE B64Code
    BY Zenon DEF B64Code
  <1> DEFINE g == [a \in Nat |-> 0]
  <1>1. buf = <<>> /\ i = 0 /\ pc = "encode"
    BY Zenon DEF CInit
  <1>2. g \in [Nat -> Nat] /\ g[0] = 0
    BY Zenon
  <1> HIDE DEF g
  <1>3. CodeOK(<<>>, 0, g, s) /\ 0 = 3 * 0 /\ g[0] = 4 * 0 /\ 0 \in Nat /\ Len(<<>>) = 0
    BY <1>2 DEF CodeOK
  <1> QED BY <1>1, <1>2, <1>3, Zenon DEF B64Code
-----------------------------------------------------------------------------
(***************************************************************************)
(* What quoted-printable stands for.  The text falls into tokens: a        *)
(* character for itself, an encoded one, and a soft line break.  A is the  *)
(* set of places between them, and g[a] the number of bytes up to a.       *)
(***************************************************************************)
ReadAsIn(en, x) == IF en = "word" /\ x = Underscore THEN Space ELSE x

EscapeAt(b, a, x) ==
    x \in Byte /\ b[a + 1] = Equals /\ b[a + 2] = Hex(x \div 16) /\ b[a + 3] = Hex(x % 16)

SoftAt(b, a, w) ==
    /\ b[a + 1] = Equals /\ b[a + w - 1] = CR /\ b[a + w] = LF
    /\ \A l \in (a + 2)..(a + w - 2) : b[l] = Space

\* A token of w characters after the first a, with at most z blanks in it.
TokenTo(b, g, t, en, z, a, w) ==
    \/ /\ w = 1 /\ g[a + w] = g[a] + 1
       /\ b[a + 1] # Equals /\ t[g[a] + 1] = ReadAsIn(en, b[a + 1])
    \/ w = 3 /\ g[a + w] = g[a] + 1 /\ EscapeAt(b, a, t[g[a] + 1])
    \/ w \in 3..(3 + z) /\ g[a + w] = g[a] /\ SoftAt(b, a, w)

TextOK(b, L, A, g, t, en, z) ==
    /\ L \in Nat /\ z \in Nat /\ g \in [Nat -> Nat]
    /\ A \in SUBSET (0..L) /\ 0 \in A /\ L \in A /\ g[0] = 0
    /\ \A a \in A : a < L => \E w \in Nat : a + w \in A /\ TokenTo(b, g, t, en, z, a, w)
    /\ \A k \in 1..L : b[k] = Equals => k - 1 \in A

\* A blank is a token of its own.
BlanksCut(b, L, A) == \A k \in 1..L : b[k] = Space => k - 1 \in A /\ k \in A

\* The first L characters stand for n bytes.
TextUpTo(b, L, n, t, en, z, keep) ==
    \E A, g : TextOK(b, L, A, g, t, en, z) /\ g[L] = n /\ (keep => BlanksCut(b, L, A))

\* A token found somewhere else.
LEMMA TokenMoved ==
    ASSUME NEW b, NEW d, NEW g, NEW f, NEW t, NEW en, NEW z \in Nat, NEW y \in Nat, z <= y,
           NEW a \in Nat, NEW w \in Nat, NEW v \in Nat, TokenTo(b, g, t, en, z, a, w),
           \A x \in (a + 1)..(a + w) : d[x + v] = b[x],
           f[a + v] = g[a], f[a + w + v] = g[a + w]
    PROVE  TokenTo(d, f, t, en, y, a + v, w)
  <1>1. a + v + w = a + w + v /\ a + v + 1 = a + 1 + v /\ a + v + 2 = a + 2 + v
        /\ a + v + 3 = a + 3 + v /\ a + v + w - 1 = a + w - 1 + v
    OBVIOUS
  <1>2. CASE w = 1 /\ g[a + w] = g[a] + 1 /\ b[a + 1] # Equals /\ t[g[a] + 1] = ReadAsIn(en, b[a + 1])
    <2>1. d[a + v + 1] = b[a + 1]
      BY <1>1, <1>2
    <2>2. f[a + v + w] = f[a + v] + 1
      BY <1>1, <1>2, Zenon
    <2> QED BY <1>2, <2>1, <2>2, Zenon DEF TokenTo
  <1>3. CASE w = 3 /\ g[a + w] = g[a] + 1 /\ EscapeAt(b, a, t[g[a] + 1])
    <2>1. a + 1 \in (a + 1)..(a + w) /\ a + 2 \in (a + 1)..(a + w) /\ a + 3 \in (a + 1)..(a + w)
      BY <1>3
    <2>a. d[a + 1 + v] = b[a + 1] /\ d[a + 2 + v] = b[a + 2] /\ d[a + 3 + v] = b[a + 3]
      BY <2>1, Zenon
    <2>2. d[a + v + 1] = b[a + 1] /\ d[a + v + 2] = b[a + 2] /\ d[a + v + 3] = b[a + 3]
      BY <1>1, <2>a, Zenon
    <2>3. f[a + v + w] = f[a + v] + 1
      BY <1>1, <1>3, Zenon
    <2>4. EscapeAt(d, a + v, t[f[a + v] + 1])
      BY <1>3, <2>2, Zenon DEF EscapeAt
    <2> QED BY <1>3, <2>3, <2>4, Zenon DEF TokenTo
  <1>4. CASE w \in 3..(3 + z) /\ g[a + w] = g[a] /\ SoftAt(b, a, w)
    <2>1. /\ a + 1 \in (a + 1)..(a + w) /\ a + w - 1 \in (a + 1)..(a + w)
          /\ a + w \in (a + 1)..(a + w) /\ w \in 3..(3 + y)
      BY <1>4
    <2>a. d[a + 1 + v] = b[a + 1] /\ d[a + w - 1 + v] = b[a + w - 1] /\ d[a + w + v] = b[a + w]
      BY <2>1, Zenon
    <2>2. d[a + v + 1] = b[a + 1] /\ d[a + v + w - 1] = b[a + w - 1] /\ d[a + v + w] = b[a + w]
      BY <1>1, <2>a, Zenon
    <2>3. f[a + v + w] = f[a + v]
      BY <1>1, <1>4, Zenon
    <2>4. ASSUME NEW l \in (a + v + 2)..(a + v + w - 2) PROVE d[l] = Space
      <3>1. l - v \in (a + 2)..(a + w - 2) /\ l - v \in (a + 1)..(a + w) /\ l - v + v = l
        BY <1>4
      <3>2. d[l - v + v] = b[l - v] /\ b[l - v] = Space
        BY <1>4, <3>1, Zenon DEF SoftAt
      <3> QED BY <3>1, <3>2, Zenon
    <2>5. SoftAt(d, a + v, w)
      BY <1>4, <2>2, <2>4, Zenon DEF SoftAt
    <2> QED BY <2>1, <2>3, <2>5, Zenon DEF TokenTo
  <1> QED BY <1>2, <1>3, <1>4, Zenon DEF TokenTo
\* One token more after the first L characters.
TextGrows(b, d, L, A, g, t, en, z, w, keep) ==
    /\ TextOK(b, L, A, g, t, en, z) /\ keep \in BOOLEAN /\ (keep => BlanksCut(b, L, A))
    /\ \A x \in 1..L : d[x] = b[x]
    /\ \/ w = 1 /\ d[L + 1] # Equals /\ t[g[L] + 1] = ReadAsIn(en, d[L + 1])
       \/ w = 3 /\ EscapeAt(d, L, t[g[L] + 1])

\* The digits are neither blanks nor ends of lines nor "=".
LEMMA DigitIsNone ==
    ASSUME NEW x \in 0..15
    PROVE  Hex(x) # Space /\ Hex(x) # Equals /\ Hex(x) # CR /\ Hex(x) # LF
  BY SMT DEF Hex, Space, Equals, CR, LF

\* The digits of an encoded byte.
LEMMA EscapeDigits ==
    ASSUME NEW b, NEW a \in Nat, NEW x, EscapeAt(b, a, x)
    PROVE  /\ b[a + 1] = Equals /\ b[a + 2] # Equals /\ b[a + 3] # Equals
           /\ b[a + 2] # Space /\ b[a + 3] # Space /\ b[a + 2] # CR /\ b[a + 2] # LF
  <1>1. x \div 16 \in 0..15 /\ (x % 16) \in 0..15
    BY DEF EscapeAt, Byte
  <1> QED BY <1>1, DigitIsNone, Zenon DEF EscapeAt

\* The text stands for one byte more.
LEMMA TextGrow ==
    ASSUME NEW b, NEW d, NEW L, NEW A, NEW g, NEW t, NEW en, NEW z, NEW w, NEW keep,
           TextGrows(b, d, L, A, g, t, en, z, w, keep)
    PROVE  TextUpTo(d, L + w, g[L] + 1, t, en, z, keep)
  <1> DEFINE B == A \cup {L + w}
             f == [g EXCEPT ![L + w] = g[L] + 1]
  <1>1. TextOK(b, L, A, g, t, en, z)
    BY Zenon DEF TextGrows
  <1>2. L \in Nat /\ z \in Nat /\ g \in [Nat -> Nat] /\ A \in SUBSET (0..L) /\ 0 \in A /\ L \in A
        /\ g[0] = 0
    BY <1>1, Zenon DEF TextOK
  <1>3. w \in {1, 3}
    BY Zenon DEF TextGrows
  <1>4. L + w \in Nat /\ L + w > L /\ g[L] \in Nat /\ L - 0 = L
    BY <1>2, <1>3
  <1>5. f \in [Nat -> Nat] /\ f[L + w] = g[L] + 1
    BY <1>2, <1>4
  <1>6. \A x \in Nat : x <= L => f[x] = g[x]
    BY <1>2, <1>4
  <1>7. /\ B \in SUBSET (0..(L + w)) /\ 0 \in B /\ L + w \in B /\ L \in B
        /\ \A a \in A : a \in B
    BY <1>2, <1>3
  <1> HIDE DEF B, f
  <1>8. f[0] = 0 /\ f[L] = g[L]
    BY <1>2, <1>6
  <1>9. TokenTo(d, f, t, en, z, L, w)
    <2>1. CASE w = 1 /\ d[L + 1] # Equals /\ t[g[L] + 1] = ReadAsIn(en, d[L + 1])
      BY <2>1, <1>5, <1>8, Zenon DEF TokenTo
    <2>2. CASE w = 3 /\ EscapeAt(d, L, t[g[L] + 1])
      BY <2>2, <1>5, <1>8, Zenon DEF TokenTo
    <2> QED BY <2>1, <2>2, Zenon DEF TextGrows
  <1>10. ASSUME NEW a \in B, a < L + w
         PROVE  \E v \in Nat : a + v \in B /\ TokenTo(d, f, t, en, z, a, v)
    <2>1. CASE a = L
      BY <2>1, <1>3, <1>7, <1>9, Zenon
    <2>2. CASE a # L
      <3>1. a \in A
        BY <2>2, <1>10, <1>4, <1>2 DEF B
      <3>2. a < L /\ a \in Nat
        BY <3>1, <2>2, <1>2
      <3>3. PICK v \in Nat : a + v \in A /\ TokenTo(b, g, t, en, z, a, v)
        BY <1>1, <3>1, <3>2, Zenon DEF TextOK
      <3>4. a + v <= L /\ a + v \in Nat
        BY <3>3, <3>2, <1>2
      <3>5. \A x \in (a + 1)..(a + v) : d[x + 0] = b[x]
        <4>1. \A x \in 1..L : d[x] = b[x]
          BY Zenon DEF TextGrows
        <4>2. \A x \in (a + 1)..(a + v) : x \in 1..L /\ x + 0 = x
          BY <3>2, <3>4, <1>2
        <4> QED BY <4>1, <4>2, Zenon
      <3>6. a + 0 = a /\ a + v + 0 = a + v
        BY <3>2, <3>4
      <3>a. a <= L
        BY <3>2, <1>2
      <3>b. f[a] = g[a] /\ f[a + v] = g[a + v]
        BY <3>a, <3>2, <3>4, <1>6, Zenon
      <3>7. f[a + 0] = g[a] /\ f[a + v + 0] = g[a + v]
        BY <3>6, <3>b, Zenon
      <3>8. z <= z /\ 0 \in Nat
        BY <1>2
      <3>9. TokenTo(d, f, t, en, z, a + 0, v)
        BY <1>2, <3>2, <3>3, <3>5, <3>7, <3>8, TokenMoved, Zenon
      <3> QED BY <3>3, <3>6, <3>9, <1>7, Zenon
    <2> QED BY <2>1, <2>2, Zenon
  <1>11. ASSUME NEW k \in 1..(L + w)
         PROVE  (d[k] = Equals => k - 1 \in B) /\ (keep /\ d[k] = Space => k - 1 \in B /\ k \in B)
    <2>1. CASE k <= L
      <3>1. k \in 1..L /\ d[k] = b[k]
        BY <2>1, <1>2, <1>11 DEF TextGrows
      <3>2. d[k] = Equals => k - 1 \in A
        BY <3>1, <1>1, Zenon DEF TextOK
      <3>3. keep /\ d[k] = Space => k - 1 \in A /\ k \in A
        BY <3>1, Zenon DEF TextGrows, BlanksCut
      <3> QED BY <3>2, <3>3, <1>7, Zenon
    <2>2. CASE k > L /\ w = 1
      <3>1. k = L + 1 /\ k - 1 = L
        BY <2>2, <1>2
      <3> QED BY <3>1, <2>2, <1>7, Zenon
    <2>3. CASE k > L /\ w = 3
      <3>1. EscapeAt(d, L, t[g[L] + 1])
        BY <2>3 DEF TextGrows
      <3>2. /\ d[L + 1] = Equals /\ d[L + 2] # Equals /\ d[L + 3] # Equals
            /\ d[L + 2] # Space /\ d[L + 3] # Space
        BY <3>1, <1>2, EscapeDigits, Zenon
      <3>3. (k = L + 1 /\ k - 1 = L) \/ k = L + 2 \/ k = L + 3
        BY <2>3, <1>2
      <3>4. Equals # Space
        BY DEF Equals, Space
      <3> QED BY <3>2, <3>3, <3>4, <1>7, Zenon
    <2> QED BY <2>1, <2>2, <2>3, <1>2, <1>3
  <1>12. TextOK(d, L + w, B, f, t, en, z)
    BY <1>2, <1>4, <1>5, <1>7, <1>8, <1>10, <1>11, Zenon DEF TextOK
  <1>13. keep => BlanksCut(d, L + w, B)
    BY <1>11, Zenon DEF BlanksCut
  <1> QED BY <1>5, <1>12, <1>13, Zenon DEF TextUpTo
\* The w characters after the first q, that stand on their own, become v.
TextReplaces(b, d, L, A, g, t, en, z, y, q, w, v, keep) ==
    /\ TextOK(b, L, A, g, t, en, z) /\ y \in Nat /\ z <= y
    /\ keep \in BOOLEAN /\ (keep => BlanksCut(b, L, A))
    /\ q \in A /\ q + w \in A /\ w \in Nat /\ v \in Nat /\ w <= v /\ v > 0
    /\ \A a \in A, u \in Nat :
           a < q /\ a + u \in A /\ TokenTo(b, g, t, en, z, a, u) => a + u <= q
    /\ \A x \in 1..q : d[x] = b[x]
    /\ \A x \in (q + w + 1)..L : d[x + (v - w)] = b[x]
    /\ \A f : f[q] = g[q] /\ f[q + v] = g[q + w] => TokenTo(d, f, t, en, y, q, v)
    /\ \A k \in (q + 1)..(q + v) : (d[k] = Equals => k = q + 1) /\ (keep => d[k] # Space)

\* The text stands for the same bytes as before.
LEMMA TextReplace ==
    ASSUME NEW b, NEW d, NEW L, NEW A, NEW g, NEW t, NEW en, NEW z, NEW y, NEW q, NEW w, NEW v,
           NEW keep, TextReplaces(b, d, L, A, g, t, en, z, y, q, w, v, keep)
    PROVE  TextUpTo(d, L + (v - w), g[L], t, en, y, keep)
  <1> DEFINE D == v - w
             B == {a \in 0..(L + D) : (a <= q /\ a \in A) \/ (a >= q + v /\ a - D \in A)}
             f == [a \in Nat |-> IF a <= q THEN g[a] ELSE IF a >= D THEN g[a - D] ELSE 0]
  <1>1. TextOK(b, L, A, g, t, en, z)
    BY Zenon DEF TextReplaces
  <1>2. L \in Nat /\ z \in Nat /\ g \in [Nat -> Nat] /\ A \in SUBSET (0..L) /\ 0 \in A /\ L \in A
        /\ g[0] = 0
    BY <1>1, Zenon DEF TextOK
  <1>a. /\ y \in Nat /\ z <= y /\ q \in A /\ q + w \in A /\ w \in Nat /\ v \in Nat /\ w <= v /\ v > 0
    BY Zenon DEF TextReplaces
  <1>3. /\ q \in Nat /\ q + w <= L /\ q <= L /\ D \in Nat /\ q + v \in Nat /\ (q + v) - D = q + w
        /\ L + D \in Nat /\ q + v <= L + D /\ q + v > q /\ (L + D) - D = L /\ D <= q + v
    BY <1>2, <1>a
  <1>4. f \in [Nat -> Nat]
    BY <1>2, <1>3
  <1>5. \A x \in Nat : x <= q => f[x] = g[x]
    BY <1>2, <1>3, Zenon
  <1>6. \A x \in Nat : q + v <= x => f[x] = g[x - D]
    BY <1>2, <1>3
  <1>7. \A a \in A : (a <= q => a \in B) /\ (a >= q + w => a + D \in B)
    BY <1>2, <1>3, <1>a
  <1>8. \A a \in B : /\ a \in 0..(L + D)
                     /\ (a <= q /\ a \in A) \/ (a >= q + v /\ a - D \in A)
    BY Zenon
  <1>9. B \in SUBSET (0..(L + D))
    BY Zenon
  <1>10. D = v - w
    BY Zenon
  <1> HIDE DEF B, f, D
  <1>11. 0 \in B /\ q \in B /\ L + D \in B /\ q + v \in B
    <2>1. q + w + D = q + v /\ 0 <= q /\ q <= q /\ q + w >= q + w /\ L >= q + w
      BY <1>3, <1>10, <1>a
    <2> QED BY <2>1, <1>2, <1>a, <1>7, Zenon
  <1>12. f[0] = 0 /\ f[q] = g[q] /\ f[q + v] = g[q + w] /\ f[L + D] = g[L]
    <2>1. 0 <= q /\ q <= q /\ q + v <= q + v /\ q + v <= L + D /\ 0 \in Nat
      BY <1>3
    <2>2. f[q] = g[q] /\ f[0] = g[0]
      BY <2>1, <1>3, <1>5, Zenon
    <2>3. f[q + v] = g[(q + v) - D]
      BY <2>1, <1>3, <1>6, Zenon
    <2>4. f[L + D] = g[(L + D) - D]
      BY <2>1, <1>3, <1>6, Zenon
    <2> QED BY <2>2, <2>3, <2>4, <1>2, <1>3, Zenon
  <1>13. TokenTo(d, f, t, en, y, q, v)
    BY <1>12, Zenon DEF TextReplaces
  <1>14. ASSUME NEW a \in B, a < L + D
         PROVE  \E u \in Nat : a + u \in B /\ TokenTo(d, f, t, en, y, a, u)
    <2>1. CASE a = q
      BY <2>1, <1>a, <1>11, <1>13, Zenon
    <2>2. CASE a < q
      <3>1. a \in A /\ a \in Nat /\ a < L /\ a <= q
        BY <2>2, <1>14, <1>8, <1>2, <1>3
      <3>3. PICK u \in Nat : a + u \in A /\ TokenTo(b, g, t, en, z, a, u)
        BY <1>1, <3>1, Zenon DEF TextOK
      <3>a. a + u <= q
        BY <3>3, <3>1, <2>2, Zenon DEF TextReplaces
      <3>4. a + u <= q /\ a + u \in Nat
        BY <3>a, <3>1
      <3>5. \A x \in (a + 1)..(a + u) : d[x + 0] = b[x]
        <4>1. \A x \in 1..q : d[x] = b[x]
          BY Zenon DEF TextReplaces
        <4>2. \A x \in (a + 1)..(a + u) : x \in 1..q /\ x + 0 = x
          BY <3>1, <3>4, <1>3
        <4> QED BY <4>1, <4>2, Zenon
      <3>6. a + 0 = a /\ a + u + 0 = a + u /\ 0 \in Nat
        BY <3>1, <3>4
      <3>7. f[a] = g[a] /\ f[a + u] = g[a + u]
        BY <3>1, <3>4, <1>5, Zenon
      <3>8. f[a + 0] = g[a] /\ f[a + u + 0] = g[a + u]
        BY <3>6, <3>7, Zenon
      <3>9. TokenTo(d, f, t, en, y, a + 0, u)
        BY <1>2, <1>a, <3>1, <3>3, <3>5, <3>6, <3>8, TokenMoved, Zenon
      <3>10. a + u \in B
        BY <3>3, <3>4, <1>7, Zenon
      <3> QED BY <3>3, <3>6, <3>9, <3>10, Zenon
    <2>3. CASE a > q
      <3> DEFINE r == a - D
      <3>1. a >= q + v /\ a - D \in A
        BY <2>3, <1>8, <1>3, <1>14, <1>2
      <3>2. r \in A /\ r \in Nat /\ r < L /\ r + D = a /\ r >= q + w
        BY <3>1, <1>14, <1>3, <1>2, <1>10, <1>a, <1>8
      <3> HIDE DEF r
      <3>3. PICK u \in Nat : r + u \in A /\ TokenTo(b, g, t, en, z, r, u)
        BY <1>1, <3>2, Zenon DEF TextOK
      <3>4. r + u <= L /\ r + u \in Nat /\ r + u >= q + w /\ r + u + D = a + u
            /\ q + v <= r + u + D /\ q + v <= r + D /\ (r + u + D) - D = r + u /\ (r + D) - D = r
            /\ r + u + D \in Nat /\ r + D \in Nat
        BY <3>3, <3>2, <1>2, <1>3, <1>10, <1>a
      <3>5. \A x \in (r + 1)..(r + u) : d[x + D] = b[x]
        <4>1. \A x \in (q + w + 1)..L : d[x + D] = b[x]
          BY <1>10, Zenon DEF TextReplaces
        <4>2. \A x \in (r + 1)..(r + u) : x \in (q + w + 1)..L
          BY <3>2, <3>4, <1>3, <1>a, <1>2
        <4> QED BY <4>1, <4>2, Zenon
      <3>7. f[r + D] = g[(r + D) - D] /\ f[r + u + D] = g[(r + u + D) - D]
        BY <3>4, <1>6, Zenon
      <3>8. f[r + D] = g[r] /\ f[r + u + D] = g[r + u]
        BY <3>4, <3>7, Zenon
      <3>9. TokenTo(d, f, t, en, y, r + D, u)
        BY <1>2, <1>3, <1>a, <3>2, <3>3, <3>5, <3>8, TokenMoved, Zenon
      <3>10. r + u + D \in B
        BY <3>3, <3>4, <1>7, Zenon
      <3>11. a + u \in B
        BY <3>10, <3>4, Zenon
      <3> QED BY <3>2, <3>3, <3>9, <3>11, Zenon
    <2>4. a \in Nat
      BY <1>8, <1>14, <1>3
    <2> QED BY <2>1, <2>2, <2>3, <2>4, <1>3
  <1>15. ASSUME NEW k \in 1..(L + D)
         PROVE  (d[k] = Equals => k - 1 \in B) /\ (keep /\ d[k] = Space => k - 1 \in B /\ k \in B)
    <2>1. CASE k <= q
      <3>1. k \in 1..q /\ k \in 1..L /\ k - 1 <= q
        BY <2>1, <1>3, <1>2, <1>15
      <3>2. d[k] = b[k]
        BY <3>1, Zenon DEF TextReplaces
      <3>3. d[k] = Equals => k - 1 \in A
        BY <3>1, <3>2, <1>1, Zenon DEF TextOK
      <3>4. keep /\ d[k] = Space => k - 1 \in A /\ k \in A
        BY <3>1, <3>2, Zenon DEF TextReplaces, BlanksCut
      <3> QED BY <3>1, <3>3, <3>4, <1>7, <2>1, Zenon
    <2>2. CASE k \in (q + 1)..(q + v)
      <3>1. (d[k] = Equals => k = q + 1) /\ (keep => d[k] # Space)
        BY <2>2, Zenon DEF TextReplaces
      <3>2. k = q + 1 => k - 1 = q
        BY <1>3
      <3> QED BY <3>1, <3>2, <1>11, Zenon
    <2>3. CASE k > q + v
      <3> DEFINE x == k - D
      <3>1. x \in 1..L /\ x \in (q + w + 1)..L /\ x + D = k /\ x - 1 >= q + w /\ x >= q + w
            /\ x - 1 + D = k - 1
        BY <2>3, <1>15, <1>3, <1>2, <1>10, <1>a
      <3> HIDE DEF x
      <3>2. d[k] = b[x]
        BY <3>1, <1>10, Zenon DEF TextReplaces
      <3>3. d[k] = Equals => x - 1 \in A
        BY <3>1, <3>2, <1>1, Zenon DEF TextOK
      <3>4. keep /\ d[k] = Space => x - 1 \in A /\ x \in A
        BY <3>1, <3>2, Zenon DEF TextReplaces, BlanksCut
      <3>5. (x - 1 \in A => x - 1 + D \in B) /\ (x \in A => x + D \in B)
        BY <3>1, <1>7, Zenon
      <3>6. (x - 1 \in A => k - 1 \in B) /\ (x \in A => k \in B)
        BY <3>1, <3>5, Zenon
      <3> QED BY <3>3, <3>4, <3>6, Zenon
    <2> QED BY <2>1, <2>2, <2>3, <1>3, <1>15
  <1>16. TextOK(d, L + D, B, f, t, en, y)
    BY <1>3, <1>a, <1>4, <1>9, <1>11, <1>12, <1>14, <1>15, Zenon DEF TextOK
  <1>17. keep => BlanksCut(d, L + D, B)
    BY <1>15, Zenon DEF BlanksCut
  <1>18. TextUpTo(d, L + D, g[L], t, en, y, keep)
    BY <1>12, <1>16, <1>17, Zenon DEF TextUpTo
  <1> QED BY <1>10, <1>18, Zenon
\* A token other than a soft line break with blanks in it has no blank inside.
LEMMA NoBlankInside ==
    ASSUME NEW b, NEW g, NEW t, NEW en, NEW a \in Nat, NEW u \in Nat, NEW q \in Nat,
           TokenTo(b, g, t, en, 0, a, u), a < q, b[q] = Space
    PROVE  a + u <= q
  <1>1. CASE u = 1
    BY <1>1
  <1>2. CASE u = 3 /\ EscapeAt(b, a, t[g[a] + 1])
    <2>1. b[a + 1] = Equals /\ b[a + 2] # Space
      BY <1>2, EscapeDigits, Zenon
    <2>2. Equals # Space
      BY DEF Equals, Space
    <2>3. q # a + 1 /\ q # a + 2
      BY <2>1, <2>2, Zenon
    <2> QED BY <1>2, <2>3
  <1>3. CASE u \in 3..(3 + 0) /\ SoftAt(b, a, u)
    <2>1. u = 3 /\ a + u - 1 = a + 2
      BY <1>3
    <2>2. b[a + 1] = Equals /\ b[a + 2] = CR
      BY <1>3, <2>1, Zenon DEF SoftAt
    <2>3. Equals # Space /\ CR # Space
      BY DEF Equals, Space, CR
    <2>4. q # a + 1 /\ q # a + 2
      BY <2>2, <2>3, Zenon
    <2> QED BY <2>1, <2>4
  <1> QED BY <1>1, <1>2, <1>3, Zenon DEF TokenTo

\* A soft line break where nothing is cut stands for nothing.
LEMMA TextSoftBreak ==
    ASSUME NEW b, NEW d, NEW L \in Nat, NEW n, NEW t, NEW en, NEW q \in 0..L,
           TextUpTo(b, L, n, t, en, 0, TRUE), q # L => q > 0 /\ b[q] = Space,
           \A x \in 1..q : d[x] = b[x],
           d[q + 1] = Equals, d[q + 2] = CR, d[q + 3] = LF,
           \A x \in (q + 1)..L : d[3 + x] = b[x]
    PROVE  TextUpTo(d, L + 3, n, t, en, 0, TRUE)
  <1>1. PICK A, g : TextOK(b, L, A, g, t, en, 0) /\ g[L] = n /\ BlanksCut(b, L, A)
    BY Zenon DEF TextUpTo
  <1>2. A \in SUBSET (0..L) /\ L \in A
    BY <1>1, Zenon DEF TextOK
  <1>3. q \in A /\ q \in Nat
    <2>1. CASE q = L
      BY <2>1, <1>2, Zenon
    <2>2. CASE q # L
      <3>1. q \in 1..L /\ q \in Nat
        BY <2>2
      <3> QED BY <2>2, <3>1, <1>1, Zenon DEF BlanksCut
    <2> QED BY <2>1, <2>2, Zenon
  <1>4. ASSUME NEW a \in A, NEW u \in Nat, a < q, a + u \in A, TokenTo(b, g, t, en, 0, a, u)
        PROVE  a + u <= q
    <2>1. CASE q = L
      BY <2>1, <1>2, <1>4
    <2>2. CASE q # L
      <3>1. a \in Nat
        BY <1>2
      <3> QED BY <2>2, <3>1, <1>3, <1>4, NoBlankInside, Zenon
    <2> QED BY <2>1, <2>2, Zenon
  <1>5. /\ q + 0 \in A /\ q + 0 = q /\ 3 \in Nat /\ 0 \in Nat /\ 0 <= 3 /\ 3 > 0 /\ 0 <= 0
        /\ L + (3 - 0) = L + 3 /\ TRUE \in BOOLEAN
    BY <1>3
  <1>6. ASSUME NEW x \in (q + 0 + 1)..L PROVE d[x + (3 - 0)] = b[x]
    <2>1. x \in (q + 1)..L /\ x + (3 - 0) = 3 + x
      BY <1>3
    <2> QED BY <2>1, Zenon
  <1>7. SoftAt(d, q, 3)
    <2>1. q + 3 - 1 = q + 2 /\ (q + 2)..(q + 3 - 2) = {}
      BY <1>3
    <2> QED BY <2>1, Zenon DEF SoftAt
  <1>8. ASSUME NEW f, f[q] = g[q], f[q + 3] = g[q + 0] PROVE TokenTo(d, f, t, en, 0, q, 3)
    <2>1. f[q + 3] = f[q]
      BY <1>5, <1>8, Zenon
    <2>2. 3 \in 3..(3 + 0)
      OBVIOUS
    <2> QED BY <1>7, <2>1, <2>2, Zenon DEF TokenTo
  <1>9. ASSUME NEW k \in (q + 1)..(q + 3)
        PROVE  (d[k] = Equals => k = q + 1) /\ (TRUE => d[k] # Space)
    <2>1. k = q + 1 \/ k = q + 2 \/ k = q + 3
      BY <1>3
    <2>2. Equals # Space /\ CR # Space /\ LF # Space /\ CR # Equals /\ LF # Equals
      BY DEF Equals, Space, CR, LF
    <2> QED BY <2>1, <2>2, Zenon
  <1>10. TextReplaces(b, d, L, A, g, t, en, 0, 0, q, 0, 3, TRUE)
    BY <1>1, <1>3, <1>4, <1>5, <1>6, <1>8, <1>9, Zenon DEF TextReplaces
  <1>11. TextUpTo(d, L + (3 - 0), g[L], t, en, 0, TRUE)
    BY <1>10, TextReplace, Zenon
  <1> QED BY <1>1, <1>5, <1>11, Zenon

\* A blank at the end of a line may as well be encoded.
LEMMA TextProtect ==
    ASSUME NEW b, NEW d, NEW L \in Nat, NEW n, NEW t, NEW en, L > 0, b[L] = Space,
           TextUpTo(b, L, n, t, en, 0, TRUE),
           \A x \in 1..(L - 1) : d[x] = b[x], d[L] = Equals,
           d[L + 1] = Hex(Space \div 16), d[L + 2] = Hex(Space % 16)
    PROVE  TextUpTo(d, L + 2, n, t, en, 0, TRUE)
  <1>1. PICK A, g : TextOK(b, L, A, g, t, en, 0) /\ g[L] = n /\ BlanksCut(b, L, A)
    BY Zenon DEF TextUpTo
  <1>2. A \in SUBSET (0..L) /\ L \in A
    BY <1>1, Zenon DEF TextOK
  <1> DEFINE q == L - 1
  <1>3. /\ q \in Nat /\ q + 1 = L /\ q + 2 = L + 1 /\ q + 3 = L + 2 /\ L \in 1..L /\ q < L
        /\ L + (3 - 1) = L + 2 /\ q = L - 1
    OBVIOUS
  <1> HIDE DEF q
  <1>4. q \in A
    BY <1>1, <1>3, Zenon DEF BlanksCut
  <1>5. Space # Equals /\ Space # LF /\ Space # CR /\ Space \in Byte
    BY DEF Equals, Space, CR, LF, Byte
  <1>6. g[q + 1] = g[q] + 1 /\ t[g[q] + 1] = Space
    <2>1. PICK u \in Nat : q + u \in A /\ TokenTo(b, g, t, en, 0, q, u)
      BY <1>1, <1>3, <1>4, Zenon DEF TextOK
    <2>2. b[q + 1] = Space
      BY <1>3, Zenon
    <2>3. ~SoftAt(b, q, u) /\ ~EscapeAt(b, q, t[g[q] + 1])
      BY <2>2, <1>5, Zenon DEF SoftAt, EscapeAt
    <2>4. u = 1 /\ g[q + u] = g[q] + 1 /\ t[g[q] + 1] = ReadAsIn(en, b[q + 1])
      BY <2>1, <2>3, Zenon DEF TokenTo
    <2>5. ReadAsIn(en, Space) = Space
      BY Zenon DEF ReadAsIn, Space, Underscore
    <2> QED BY <2>2, <2>4, <2>5, Zenon
  <1>7. ASSUME NEW a \in A, NEW u \in Nat, a < q, a + u \in A, TokenTo(b, g, t, en, 0, a, u)
        PROVE  a + u <= q
    <2>1. a \in Nat /\ a + u <= L
      BY <1>2, <1>7
    <2>2. SUFFICES ASSUME a + u = L PROVE FALSE
      BY <1>3, <2>1
    <2>3. u # 1
      BY <1>3, <1>7, <2>1, <2>2
    <2>4. b[a + u] = Space
      BY <2>2, Zenon
    <2>5. ~SoftAt(b, a, u)
      BY <2>4, <1>5, Zenon DEF SoftAt
    <2>6. ASSUME u = 3, EscapeAt(b, a, t[g[a] + 1]) PROVE FALSE
      <3>1. b[a + 3] # Space
        BY <2>1, <2>6, EscapeDigits, Zenon
      <3> QED BY <2>4, <2>6, <3>1, Zenon
    <2> QED BY <1>7, <2>3, <2>5, <2>6, Zenon DEF TokenTo
  <1>8. /\ 3 \in Nat /\ 1 \in Nat /\ 0 \in Nat /\ 1 <= 3 /\ 3 > 0 /\ 0 <= 0 /\ TRUE \in BOOLEAN
    OBVIOUS
  <1>9. \A x \in (q + 1 + 1)..L : d[x + (3 - 1)] = b[x]
    BY <1>3
  <1>10. EscapeAt(d, q, Space)
    BY <1>3, <1>5, Zenon DEF EscapeAt
  <1>11. ASSUME NEW f, f[q] = g[q], f[q + 3] = g[q + 1] PROVE TokenTo(d, f, t, en, 0, q, 3)
    <2>1. f[q + 3] = f[q] + 1
      BY <1>6, <1>11, Zenon
    <2>2. EscapeAt(d, q, t[f[q] + 1])
      BY <1>6, <1>10, <1>11, Zenon
    <2> QED BY <2>1, <2>2, Zenon DEF TokenTo
  <1>12. ASSUME NEW k \in (q + 1)..(q + 3)
        PROVE  (d[k] = Equals => k = q + 1) /\ (TRUE => d[k] # Space)
    <2>1. k = q + 1 \/ k = q + 2 \/ k = q + 3
      BY <1>3
    <2>2. /\ d[q + 1] = Equals /\ d[q + 2] # Equals /\ d[q + 3] # Equals
          /\ d[q + 2] # Space /\ d[q + 3] # Space
      BY <1>3, <1>10, EscapeDigits, Zenon
    <2> QED BY <2>1, <2>2, <1>5, Zenon
  <1>13. \A x \in 1..q : d[x] = b[x]
    BY <1>3, Zenon
  <1>14. q + 1 \in A
    BY <1>2, <1>3, Zenon
  <1>15. TextReplaces(b, d, L, A, g, t, en, 0, 0, q, 1, 3, TRUE)
    BY <1>1, <1>4, <1>7, <1>8, <1>9, <1>11, <1>12, <1>13, <1>14, Zenon DEF TextReplaces
  <1>16. TextUpTo(d, L + (3 - 1), g[L], t, en, 0, TRUE)
    BY <1>15, TextReplace, Zenon
  <1> QED BY <1>1, <1>3, <1>16, Zenon
\* A blank added before the end of a line with a soft break stands for nothing.
LEMMA TextInsert ==
    ASSUME NEW b, NEW d, NEW L \in Nat, NEW n, NEW t, NEW en, NEW z, NEW k \in 1..(L - 1),
           TextUpTo(b, L, n, t, en, z, FALSE), b[k] = Equals, b[k + 1] = CR,
           \A x \in 1..k : d[x] = b[x], d[k + 1] = Space,
           \A x \in (k + 1)..L : d[1 + x] = b[x]
    PROVE  TextUpTo(d, L + 1, n, t, en, z + 1, FALSE)
  <1>1. PICK A, g : TextOK(b, L, A, g, t, en, z) /\ g[L] = n
    BY Zenon DEF TextUpTo
  <1>2. A \in SUBSET (0..L) /\ L \in A /\ z \in Nat
    BY <1>1, Zenon DEF TextOK
  <1> DEFINE q == k - 1
  <1>3. /\ q \in Nat /\ q + 1 = k /\ q + 2 = k + 1 /\ k \in 1..L /\ q < L /\ q + 3 = k + 2
        /\ L + (4 - 3) = L + 1 /\ q = k - 1 /\ k \in Nat
    OBVIOUS
  <1> HIDE DEF q
  <1>4. q \in A
    BY <1>1, <1>3, Zenon DEF TextOK
  <1>5. Space # Equals /\ LF # Equals /\ Space # CR /\ CR # Equals
    BY DEF Equals, Space, CR, LF
  <1>6. q + 3 \in A /\ g[q + 3] = g[q] /\ b[q + 3] = LF
    <2>1. PICK u \in Nat : q + u \in A /\ TokenTo(b, g, t, en, z, q, u)
      BY <1>1, <1>3, <1>4, Zenon DEF TextOK
    <2>2. b[q + 1] = Equals /\ b[q + 2] = CR
      BY <1>3, Zenon
    <2>3. ~EscapeAt(b, q, t[g[q] + 1])
      BY <1>3, <2>2, EscapeDigits, Zenon
    <2>4. u \in 3..(3 + z) /\ g[q + u] = g[q] /\ SoftAt(b, q, u)
      BY <2>1, <2>2, <2>3, Zenon DEF TokenTo
    <2>5. ~(q + 2 \in (q + 2)..(q + u - 2))
      BY <2>2, <2>4, <1>5, Zenon DEF SoftAt
    <2>6. u = 3
      BY <2>4, <2>5, <1>2, <1>3
    <2> QED BY <2>1, <2>4, <2>6, Zenon DEF SoftAt
  <1>7. ASSUME NEW a \in A, NEW u \in Nat, a < q, a + u \in A, TokenTo(b, g, t, en, z, a, u)
        PROVE  a + u <= q
    <2>1. a \in Nat /\ a + u \in Nat
      BY <1>2, <1>7
    <2>2. CASE u = 1
      BY <1>3, <1>7, <2>1, <2>2
    <2>3. CASE u = 3 /\ EscapeAt(b, a, t[g[a] + 1])
      <3>1. b[a + 2] # Equals /\ b[a + 3] # Equals
        BY <2>1, <2>3, EscapeDigits, Zenon
      <3>2. k # a + 2 /\ k # a + 3
        BY <3>1, Zenon
      <3> QED BY <1>3, <1>7, <2>1, <2>3, <3>2
    <2>4. CASE u \in 3..(3 + z) /\ SoftAt(b, a, u)
      <3>1. SUFFICES ASSUME a + u > q PROVE FALSE
        BY <1>3, <2>1
      <3>2. k \in (a + 2)..(a + u - 2) \/ k = a + u - 1 \/ k = a + u
        BY <1>2, <1>3, <1>7, <2>1, <2>4, <3>1
      <3>3. /\ \A l \in (a + 2)..(a + u - 2) : b[l] # Equals
            /\ b[a + u - 1] # Equals /\ b[a + u] # Equals
        BY <1>5, <2>4, Zenon DEF SoftAt
      <3> QED BY <3>2, <3>3, Zenon
    <2> QED BY <1>7, <2>2, <2>3, <2>4, Zenon DEF TokenTo
  <1>8. /\ 3 \in Nat /\ 4 \in Nat /\ 3 <= 4 /\ 4 > 0 /\ FALSE \in BOOLEAN
        /\ z + 1 \in Nat /\ z <= z + 1 /\ 4 \in 3..(3 + (z + 1))
    BY <1>2
  <1>9. ASSUME NEW x \in (q + 3 + 1)..L PROVE d[x + (4 - 3)] = b[x]
    <2>1. x \in (k + 1)..L /\ x + (4 - 3) = 1 + x
      BY <1>3
    <2> QED BY <2>1, Zenon
  <1>10. SoftAt(d, q, 4) /\ \A l \in (q + 1)..(q + 4) : d[l] = Equals => l = q + 1
    <2>1. q + 4 - 1 = 1 + (k + 1) /\ q + 4 = 1 + (k + 2) /\ q + 4 - 2 = k + 1
      BY <1>3
    <2>a. k + 2 <= L
      BY <1>2, <1>3, <1>6
    <2>2. k + 1 \in (k + 1)..L /\ k + 2 \in (k + 1)..L /\ k \in 1..k
      BY <1>3, <2>a
    <2>3. d[k] = b[k] /\ d[1 + (k + 1)] = b[k + 1] /\ d[1 + (k + 2)] = b[k + 2]
      BY <2>2, Zenon
    <2>4. d[q + 1] = Equals /\ d[q + 4 - 1] = CR /\ d[q + 4] = LF
      BY <1>3, <1>6, <2>1, <2>3, Zenon
    <2>5. \A l \in (q + 2)..(q + 4 - 2) : l = k + 1
      BY <1>3
    <2>6. \A l \in (q + 1)..(q + 4) : l = q + 1 \/ l = k + 1 \/ l = q + 4 - 1 \/ l = q + 4
      BY <1>3
    <2>7. SoftAt(d, q, 4)
      BY <2>4, <2>5, Zenon DEF SoftAt
    <2>8. \A l \in (q + 1)..(q + 4) : d[l] = Equals => l = q + 1
      BY <1>5, <2>4, <2>6, Zenon
    <2> QED BY <2>7, <2>8, Zenon
  <1>11. ASSUME NEW f, f[q] = g[q], f[q + 4] = g[q + 3] PROVE TokenTo(d, f, t, en, z + 1, q, 4)
    <2>1. f[q + 4] = f[q]
      BY <1>6, <1>11, Zenon
    <2> QED BY <1>8, <1>10, <2>1, Zenon DEF TokenTo
  <1>12. \A x \in 1..q : d[x] = b[x]
    <2>1. \A x \in 1..q : x \in 1..k
      BY <1>3
    <2> QED BY <2>1, Zenon
  <1>13. TextReplaces(b, d, L, A, g, t, en, z, z + 1, q, 3, 4, FALSE)
    BY <1>1, <1>4, <1>6, <1>7, <1>8, <1>9, <1>10, <1>11, <1>12, Zenon DEF TextReplaces
  <1>14. TextUpTo(d, L + (4 - 3), g[L], t, en, z + 1, FALSE)
    BY <1>13, TextReplace, Zenon
  <1> QED BY <1>1, <1>3, <1>14, Zenon

\* One byte more, as a character of its own.
LEMMA TextLiteral ==
    ASSUME NEW b, NEW d, NEW L \in Nat, NEW n, NEW t, NEW en,
           TextUpTo(b, L, n, t, en, 0, TRUE), \A x \in 1..L : d[x] = b[x],
           d[L + 1] # Equals, t[n + 1] = ReadAsIn(en, d[L + 1])
    PROVE  TextUpTo(d, L + 1, n + 1, t, en, 0, TRUE)
  <1>1. PICK A, g : TextOK(b, L, A, g, t, en, 0) /\ g[L] = n /\ BlanksCut(b, L, A)
    BY Zenon DEF TextUpTo
  <1>2. TextGrows(b, d, L, A, g, t, en, 0, 1, TRUE)
    BY <1>1, Zenon DEF TextGrows
  <1> QED BY <1>1, <1>2, TextGrow, Zenon

\* One byte more, as an encoded one.
LEMMA TextEscape ==
    ASSUME NEW b, NEW d, NEW L \in Nat, NEW n, NEW t, NEW en,
           TextUpTo(b, L, n, t, en, 0, TRUE), \A x \in 1..L : d[x] = b[x],
           EscapeAt(d, L, t[n + 1])
    PROVE  TextUpTo(d, L + 3, n + 1, t, en, 0, TRUE)
  <1>1. PICK A, g : TextOK(b, L, A, g, t, en, 0) /\ g[L] = n /\ BlanksCut(b, L, A)
    BY Zenon DEF TextUpTo
  <1>2. TextGrows(b, d, L, A, g, t, en, 0, 3, TRUE)
    BY <1>1, Zenon DEF TextGrows
  <1> QED BY <1>1, <1>2, TextGrow, Zenon
-----------------------------------------------------------------------------
(***************************************************************************)
(* What eQP writes stands for what it was given, and deQP reads it so.     *)
(***************************************************************************)
ReadAt(t, n, o) == o \in Seq(Nat) /\ Len(o) = n /\ \A j \in 1..n : o[j] = t[j]

QPText ==
    e \in {"qp", "word"} =>
        /\ pc = "encode" => TextUpTo(buf, Len(buf), i, s, e, 0, TRUE)
        /\ pc = "sent" => TextUpTo(buf, Len(buf), Len(s), s, e, noise, FALSE)
        /\ pc = "decode" => \E A, g : /\ TextOK(buf, Len(buf), A, g, s, e, noise)
                                      /\ g[Len(buf)] = Len(s) /\ p \in A /\ ReadAt(s, g[p], out)
        /\ pc = "done" => out = s

\* eQP writes a character, and may break the line before it.
LEMMA TextQPChar ==
    ASSUME TransferType, QPText, QPChar PROVE QPText'
  <1>1. /\ buf \in Seq(Nat) /\ Len(buf) \in Nat /\ s \in Seq(Byte) /\ i + 1 \in 1..Len(s)
        /\ c \in Nat /\ c <= Len(buf) /\ pc = "encode" /\ UNCHANGED <<e, s, pc>> /\ i' = i + 1
    BY DEF TransferType, QPChar
  <1>2. TextUpTo(buf, Len(buf), i, s, e, 0, TRUE)
    BY <1>1, Zenon DEF QPText, QPChar
  <1>3. PICK b, n, w :
            /\ b \in Seq(Nat) /\ w \in Seq(Nat) /\ BrokenOrNot(b, n) /\ WrittenFor(w, i + 1)
            /\ buf' = b \o w
    BY QPCharIs, Zenon
  <1>4. Len(b) \in Nat /\ TextUpTo(b, Len(b), i, s, e, 0, TRUE)
    <2>1. CASE c > 72
      <3> DEFINE q == Len(buf) - Moved(buf)
      <3>1. Len(buf) >= 9
        BY <1>1, <2>1
      <3>2. b = SoftBreak(buf)
        BY <1>3, <2>1, Zenon DEF BrokenOrNot
      <3>3. /\ SoftBreak(buf) \in Seq(Nat) /\ Len(SoftBreak(buf)) = Len(buf) + 3
            /\ \A x \in 1..q : SoftBreak(buf)[x] = buf[x]
            /\ SoftBreak(buf)[q + 1] = Equals /\ SoftBreak(buf)[q + 2] = CR
            /\ SoftBreak(buf)[q + 3] = LF
            /\ \A x \in (q + 1)..Len(buf) : SoftBreak(buf)[3 + x] = buf[x]
        BY <1>1, <3>1, SoftBreakIs, Zenon
      <3>4. Moved(buf) \in 0..8 /\ (Moved(buf) # 0 => buf[q] = Space)
        BY <1>1, <3>1, MovedIs, Zenon
      <3>5. \A x \in Nat, y \in 0..8 : x >= 9 => /\ x - y \in 0..x /\ x - y > 0
                                                 /\ (x - y # x => y # 0)
        OBVIOUS
      <3>6. q \in 0..Len(buf) /\ q > 0 /\ (q # Len(buf) => Moved(buf) # 0)
        BY <1>1, <3>1, <3>4, <3>5, Zenon
      <3> HIDE DEF q
      <3>7. TextUpTo(SoftBreak(buf), Len(buf) + 3, i, s, e, 0, TRUE)
        BY <1>1, <1>2, <3>3, <3>4, <3>6, TextSoftBreak, Zenon
      <3>8. Len(b) = Len(buf) + 3 /\ Len(buf) + 3 \in Nat
        BY <1>1, <3>2, <3>3
      <3> QED BY <3>2, <3>7, <3>8, Zenon
    <2>2. CASE ~(c > 72)
      <3>1. b = buf
        BY <1>3, <2>2, Zenon DEF BrokenOrNot
      <3> QED BY <1>1, <1>2, <3>1, Zenon
    <2> QED BY <2>1, <2>2, Zenon
  <1>5. /\ Len(buf') = Len(b) + Len(w)
        /\ \A x \in 1..Len(b) : buf'[x] = b[x]
        /\ \A x \in 1..Len(w) : buf'[Len(b) + x] = w[x]
    BY <1>3, Joined, Zenon
  <1>6. TextUpTo(buf', Len(b) + Len(w), i + 1, s, e, 0, TRUE)
    <2>1. CASE w = Escaped(s[i + 1])
      <3>1. s[i + 1] \in Byte
        BY <1>1, ElementOfSeq, Zenon
      <3>2. /\ Len(w) = 3 /\ w[1] = Equals /\ w[2] = Hex(s[i + 1] \div 16)
            /\ w[3] = Hex(s[i + 1] % 16)
        BY <2>1, <3>1, EscapedType, Zenon
      <3>3. 1 \in 1..3 /\ 2 \in 1..3 /\ 3 \in 1..3
        OBVIOUS
      <3>4. EscapeAt(buf', Len(b), s[i + 1])
        BY <1>5, <3>1, <3>2, <3>3, Zenon DEF EscapeAt
      <3> QED BY <1>4, <1>5, <3>2, <3>4, TextEscape, Zenon
    <2>2. ASSUME NEW x \in Nat \ {Equals, CR, LF}, w = <<x>>, s[i + 1] = ReadAs(x)
          PROVE  TextUpTo(buf', Len(b) + Len(w), i + 1, s, e, 0, TRUE)
      <3>1. Len(w) = 1 /\ w[1] = x /\ x # Equals /\ 1 \in 1..1
        BY <2>2
      <3>2. buf'[Len(b) + 1] = x
        BY <1>5, <3>1, Zenon
      <3>3. s[i + 1] = ReadAsIn(e, buf'[Len(b) + 1])
        BY <2>2, <3>2, Zenon DEF ReadAs, ReadAsIn, underscore
      <3>4. buf'[Len(b) + 1] # Equals
        BY <3>1, <3>2, Zenon
      <3> QED BY <1>4, <1>5, <3>1, <3>3, <3>4, TextLiteral, Zenon
    <2> QED BY <1>3, <2>1, <2>2, Zenon DEF WrittenFor
  <1> QED BY <1>1, <1>5, <1>6, Zenon DEF QPText

\* eQP writes the end of a line.
LEMMA TextQPLineFeed ==
    ASSUME TransferType, QPText, QPLineFeed PROVE QPText'
  <1> DEFINE w == IF BareLF THEN <<LF>> ELSE <<CR, LF>>
             b == Protected(buf)
  <1>1. /\ buf \in Seq(Nat) /\ Len(buf) \in Nat /\ s \in Seq(Byte) /\ i \in Nat
        /\ pc = "encode" /\ UNCHANGED <<e, s, pc>>
        /\ i' = IF BareLF THEN i + 1 ELSE i + 2
    BY DEF TransferType, QPLineFeed
  <1>2. TextUpTo(buf, Len(buf), i, s, e, 0, TRUE)
    BY <1>1, Zenon DEF QPText, QPLineFeed
  <1>3. b \in Seq(Nat) /\ Len(b) \in Nat
    BY <1>1, ProtectedType
  <1>4. TextUpTo(b, Len(b), i, s, e, 0, TRUE)
    <2>1. CASE buf # <<>> /\ buf[Len(buf)] = Space
      <3>1. /\ Len(b) = Len(buf) + 2
            /\ \A x \in 1..(Len(buf) - 1) : b[x] = buf[x]
            /\ b[Len(buf)] = Equals /\ b[Len(buf) + 1] = Hex(Space \div 16)
            /\ b[Len(buf) + 2] = Hex(Space % 16)
        BY <1>1, <2>1, ProtectedIs, Zenon
      <3>2. Len(buf) > 0
        BY <1>1, <2>1
      <3> HIDE DEF b
      <3>3. TextUpTo(b, Len(buf) + 2, i, s, e, 0, TRUE)
        BY <1>1, <1>2, <2>1, <3>1, <3>2, TextProtect, Zenon
      <3> QED BY <3>1, <3>3, Zenon
    <2>2. CASE ~(buf # <<>> /\ buf[Len(buf)] = Space)
      <3>1. b = buf
        BY <1>1, <2>2, ProtectedNothing, Zenon
      <3> HIDE DEF b
      <3> QED BY <1>2, <3>1, Zenon
    <2> QED BY <2>1, <2>2, Zenon
  <1>5. /\ w \in Seq(Nat) /\ (BareLF => Len(w) = 1 /\ w[1] = LF)
        /\ (~BareLF => Len(w) = 2 /\ w[1] = CR /\ w[2] = LF)
    BY DEF LF, CR
  <1>6. buf' = b \o w
    BY Zenon DEF QPLineFeed
  <1> HIDE DEF b, w
  <1>7. /\ Len(buf') = Len(b) + Len(w)
        /\ \A x \in 1..Len(b) : buf'[x] = b[x]
        /\ \A x \in 1..Len(w) : buf'[Len(b) + x] = w[x]
    BY <1>3, <1>5, <1>6, Joined, Zenon
  <1>8. LF # Equals /\ CR # Equals /\ ReadAsIn(e, LF) = LF /\ ReadAsIn(e, CR) = CR
    BY DEF LF, CR, Equals, ReadAsIn, Underscore
  <1>9. TextUpTo(buf', Len(buf'), i', s, e, 0, TRUE)
    <2>1. CASE BareLF
      <3>1. Len(w) = 1 /\ w[1] = LF /\ s[i + 1] = LF /\ i' = i + 1
        BY <1>1, <1>5, <2>1, Zenon DEF BareLF
      <3>2. 1 \in 1..1
        OBVIOUS
      <3>3. buf'[Len(b) + 1] = LF
        BY <1>7, <3>1, <3>2, Zenon
      <3>a. s[i + 1] = ReadAsIn(e, buf'[Len(b) + 1]) /\ buf'[Len(b) + 1] # Equals
        BY <1>8, <3>1, <3>3, Zenon
      <3>4. TextUpTo(buf', Len(b) + 1, i + 1, s, e, 0, TRUE)
        BY <1>3, <1>4, <1>7, <3>a, TextLiteral, Zenon
      <3> QED BY <1>7, <3>1, <3>4, Zenon
    <2>2. CASE ~BareLF
      <3>1. /\ Len(w) = 2 /\ w[1] = CR /\ w[2] = LF /\ i' = i + 2
            /\ s[i + 1] = CR /\ s[i + 2] = LF
        BY <1>1, <1>5, <2>2, Zenon DEF QPLineFeed, CRLF
      <3>2. 1 \in 1..2 /\ 2 \in 1..2
        OBVIOUS
      <3>3. buf'[Len(b) + 1] = CR /\ buf'[Len(b) + 2] = LF
        BY <1>7, <3>1, <3>2, Zenon
      <3>a. s[i + 1] = ReadAsIn(e, buf'[Len(b) + 1]) /\ buf'[Len(b) + 1] # Equals
        BY <1>8, <3>1, <3>3, Zenon
      <3>4. TextUpTo(buf', Len(b) + 1, i + 1, s, e, 0, TRUE)
        BY <1>3, <1>4, <1>7, <3>a, TextLiteral, Zenon
      <3>5. Len(b) + 1 \in Nat /\ Len(b) + 1 + 1 = Len(b) + 2 /\ i + 1 + 1 = i + 2
        BY <1>1, <1>3
      <3>6. buf'[Len(b) + 1 + 1] = LF /\ s[i + 1 + 1] = LF
        BY <3>1, <3>3, <3>5, Zenon
      <3>b. s[i + 1 + 1] = ReadAsIn(e, buf'[Len(b) + 1 + 1]) /\ buf'[Len(b) + 1 + 1] # Equals
        BY <1>8, <3>6, Zenon
      <3>7. TextUpTo(buf', Len(b) + 1 + 1, i + 1 + 1, s, e, 0, TRUE)
        BY <3>4, <3>5, <3>b, TextLiteral, Zenon
      <3> QED BY <1>7, <3>1, <3>5, <3>7, Zenon
    <2> QED BY <2>1, <2>2, Zenon
  <1> QED BY <1>1, <1>9, Zenon DEF QPText
\* White space is added before the end of a line.
LEMMA TextQPInsert ==
    ASSUME TransferType, QPText, NEW k \in 1..(Len(buf) - 1), QPInsert(k) PROVE QPText'
  <1>1. /\ buf \in Seq(Nat) /\ Len(buf) \in Nat /\ pc = "sent" /\ UNCHANGED <<e, s, pc>>
        /\ noise' = noise + 1 /\ k \in 0..Len(buf) /\ k \in Nat
    BY DEF TransferType, QPInsert
  <1>2. TextUpTo(buf, Len(buf), Len(s), s, e, noise, FALSE)
    BY <1>1, Zenon DEF QPText, QPInsert
  <1>3. buf[k] = Equals /\ buf[k + 1] = CR
    <2> DEFINE v == SubSeq(buf, k, k + 1)
    <2>1. v = <<Equals, CR>>
      BY Zenon DEF QPInsert
    <2>2. \A x \in k..(k + 1) : buf[x] \in Nat
      BY <1>1
    <2>3. k \in Int /\ k + 1 \in Int
      BY <1>1
    <2>4. \A x \in 1..((k + 1) - k + 1) : v[x] = buf[k + x - 1]
      BY <1>1, <2>2, <2>3, SubSeqProperties
    <2> HIDE DEF v
    <2>5. 1 \in 1..((k + 1) - k + 1) /\ 2 \in 1..((k + 1) - k + 1) /\ k + 1 - 1 = k /\ k + 2 - 1 = k + 1
      BY <1>1
    <2>6. v[1] = buf[k] /\ v[2] = buf[k + 1]
      BY <2>4, <2>5, Zenon
    <2>7. v[1] = Equals /\ v[2] = CR
      BY <2>1, Zenon
    <2> QED BY <2>6, <2>7, Zenon
  <1>4. /\ Len(buf') = Len(buf) + 1
        /\ \A x \in 1..k : buf'[x] = buf[x]
        /\ buf'[k + 1] = Space
        /\ \A x \in (k + 1)..Len(buf) : buf'[1 + x] = buf[x]
    <2> DEFINE w == <<Space>>
               d == SubSeq(buf, 1, k) \o w \o SubSeq(buf, k + 1, Len(buf))
    <2>1. w \in Seq(Nat) /\ Len(w) = 1 /\ w[1] = Space
      BY DEF Space
    <2>2. buf' = d
      BY Zenon DEF QPInsert
    <2>3. /\ Len(d) = Len(buf) + Len(w)
          /\ \A x \in 1..k : d[x] = buf[x]
          /\ \A x \in 1..Len(w) : d[k + x] = w[x]
          /\ \A x \in (k + 1)..Len(buf) : d[Len(w) + x] = buf[x]
      BY <1>1, <2>1, Spliced, Zenon
    <2> HIDE DEF d, w
    <2>4. 1 \in 1..1
      OBVIOUS
    <2> QED BY <2>1, <2>2, <2>3, <2>4, Zenon
  <1>5. TextUpTo(buf', Len(buf) + 1, Len(s), s, e, noise + 1, FALSE)
    BY <1>1, <1>2, <1>3, <1>4, TextInsert, Zenon
  <1>6. TextUpTo(buf', Len(buf'), Len(s), s, e, noise', FALSE)
    BY <1>1, <1>4, <1>5, Zenon
  <1> QED BY <1>1, <1>6, Zenon DEF QPText

\* deQP finds the end of a soft line break.
LEMMA SoftIsRead ==
    ASSUME p \in Nat, Len(buf) \in Nat, NEW u \in Nat, u >= 3, p + u <= Len(buf), SoftAt(buf, p, u)
    PROVE  SoftEnd(AfterBlanks) = p + u
  <1> DEFINE k == p + u - 1
             Q(x) == /\ x <= Len(buf) => buf[x] \notin {Space, Tab}
                     /\ \A l \in (p + 2)..(x - 1) : buf[l] \in {Space, Tab}
  <1>1. /\ buf[k] = CR /\ buf[k + 1] = LF
        /\ \A l \in (p + 2)..(k - 1) : buf[l] = Space
    <2>1. p + u - 1 + 1 = p + u /\ p + u - 1 - 1 = p + u - 2
      OBVIOUS
    <2> QED BY <2>1 DEF SoftAt
  <1>2. k \in (p + 2)..(Len(buf) + 1) /\ k < Len(buf) /\ k + 1 = p + u /\ k \in Nat
    OBVIOUS
  <1>3. CR \notin {Space, Tab} /\ CR # LF
    BY DEF CR, Space, Tab, LF
  <1>4. Q(k)
    BY <1>1, <1>3, Zenon
  <1> HIDE DEF k
  <1>5. ASSUME NEW x \in (p + 2)..(Len(buf) + 1), Q(x) PROVE x = k
    <2>1. CASE x < k
      <3>1. x \in (p + 2)..(k - 1) /\ x <= Len(buf)
        BY <2>1, <1>2
      <3> QED BY <3>1, <1>1, <1>5, Zenon
    <2>2. CASE x > k
      <3>1. k \in (p + 2)..(x - 1)
        BY <2>2, <1>2
      <3> QED BY <3>1, <1>1, <1>3, <1>5, Zenon
    <2> QED BY <2>1, <2>2, <1>2
  <1>6. AfterBlanks = CHOOSE x \in (p + 2)..(Len(buf) + 1) : Q(x)
    BY Zenon DEF AfterBlanks
  <1> HIDE DEF Q
  <1>7. AfterBlanks = k
    BY <1>2, <1>4, <1>5, <1>6, Zenon
  <1> QED BY <1>1, <1>2, <1>3, <1>7, Zenon DEF SoftEnd

\* deQP reads an encoded byte.
LEMMA EscapeIsRead ==
    ASSUME p \in Nat, Len(buf) \in Nat, p + 3 <= Len(buf), NEW x, EscapeAt(buf, p, x)
    PROVE  SoftEnd(AfterBlanks) = 0 /\ EscapeGood /\ EscapeValue = x
  <1> DEFINE k == p + 2
             Q(y) == /\ y <= Len(buf) => buf[y] \notin {Space, Tab}
                     /\ \A l \in (p + 2)..(y - 1) : buf[l] \in {Space, Tab}
  <1>1. /\ buf[p + 2] = Hex(x \div 16) /\ buf[p + 3] = Hex(x % 16) /\ x \in Byte
    BY Zenon DEF EscapeAt
  <1>2. /\ Hex(x \div 16) \in HexDigit
        /\ HexValue(Hex(x \div 16)) < 16 /\ HexValue(Hex(x % 16)) < 16
        /\ 16 * HexValue(Hex(x \div 16)) + HexValue(Hex(x % 16)) = x
    BY <1>1, EscapedIs, Zenon
  <1>3. \A y \in HexDigit : y \notin {Space, Tab} /\ y # CR /\ y # LF
    BY DEF HexDigit, Space, Tab, CR, LF
  <1>4. buf[k] \notin {Space, Tab} /\ buf[k] # CR /\ buf[k] # LF
    BY <1>1, <1>2, <1>3, Zenon
  <1>5. k \in (p + 2)..(Len(buf) + 1) /\ (p + 2)..(k - 1) = {}
    OBVIOUS
  <1>6. Q(k)
    BY <1>4, <1>5, Zenon
  <1>7. ASSUME NEW y \in (p + 2)..(Len(buf) + 1), Q(y) PROVE y = k
    <2>1. SUFFICES ASSUME y # k PROVE FALSE
      BY Zenon
    <2>2. k \in (p + 2)..(y - 1)
      BY <2>1
    <2> QED BY <2>2, <1>4, <1>7, Zenon
  <1>8. AfterBlanks = CHOOSE y \in (p + 2)..(Len(buf) + 1) : Q(y)
    BY Zenon DEF AfterBlanks
  <1> HIDE DEF k, Q
  <1>9. AfterBlanks = k
    BY <1>5, <1>6, <1>7, <1>8, Zenon
  <1>10. SoftEnd(k) = 0
    BY <1>4, Zenon DEF SoftEnd
  <1>11. SoftEnd(AfterBlanks) = 0
    BY <1>9, <1>10, Zenon
  <1>12. EscapeGood
    BY <1>1, <1>2, Zenon DEF EscapeGood
  <1>13. EscapeValue = x
    <2>1. ~(p + 3 > Len(buf))
      OBVIOUS
    <2> QED BY <1>1, <1>2, <2>1, Zenon DEF EscapeValue
  <1> QED BY <1>11, <1>12, <1>13, Zenon

\* deQP has read one byte more.
LEMMA ReadMore ==
    ASSUME NEW t, NEW n \in Nat, NEW o, NEW x \in Nat, ReadAt(t, n, o), t[n + 1] = x
    PROVE  ReadAt(t, n + 1, Append(o, x))
  <1>1. o \in Seq(Nat) /\ Len(o) = n /\ \A j \in 1..n : o[j] = t[j]
    BY Zenon DEF ReadAt
  <1>2. /\ Append(o, x) \in Seq(Nat) /\ Len(Append(o, x)) = Len(o) + 1
        /\ \A j \in 1..Len(o) : Append(o, x)[j] = o[j]
        /\ Append(o, x)[Len(o) + 1] = x
    BY <1>1, AppendProperties
  <1>3. \A j \in 1..(n + 1) : j \in 1..n \/ j = n + 1
    BY UpTo, Zenon
  <1> QED BY <1>1, <1>2, <1>3, Zenon DEF ReadAt
\* deQP reads a token.
LEMMA TextQPDecode ==
    ASSUME TransferType, QPText, e \in {"qp", "word"}, QPDecode PROVE QPText'
  <1>1. /\ buf \in Seq(Nat) /\ Len(buf) \in Nat /\ pc = "decode" /\ p < Len(buf)
        /\ UNCHANGED <<e, s, buf, noise, pc>>
    BY DEF TransferType, QPDecode
  <1>2. PICK A, g : /\ TextOK(buf, Len(buf), A, g, s, e, noise)
                    /\ g[Len(buf)] = Len(s) /\ p \in A /\ ReadAt(s, g[p], out)
    BY <1>1, Zenon DEF QPText
  <1>3. A \in SUBSET (0..Len(buf)) /\ g \in [Nat -> Nat] /\ noise \in Nat
    BY <1>2, Zenon DEF TextOK
  <1>4. p \in Nat /\ g[p] \in Nat
    BY <1>2, <1>3
  <1>5. PICK u \in Nat : p + u \in A /\ TokenTo(buf, g, s, e, noise, p, u)
    BY <1>1, <1>2, Zenon DEF TextOK
  <1>6. p + u <= Len(buf)
    <2>1. \A x \in 0..Len(buf) : x <= Len(buf)
      BY <1>1
    <2>2. p + u \in 0..Len(buf)
      BY <1>3, <1>5, Zenon
    <2> QED BY <2>1, <2>2, Zenon
  <1>7. p' \in A /\ ReadAt(s, g[p'], out')
    <2>1. CASE /\ u = 1 /\ g[p + u] = g[p] + 1 /\ buf[p + 1] # Equals
               /\ s[g[p] + 1] = ReadAsIn(e, buf[p + 1])
      <3> DEFINE x == ReadAsIn(e, buf[p + 1])
      <3>1. p' = p + 1 /\ out' = Append(out, x)
        BY <2>1, Zenon DEF QPDecode, ReadAsIn, underscore
      <3>2. x \in Nat
        <4>1. p + 1 \in 1..Len(buf)
          BY <1>1, <1>4
        <4>2. buf[p + 1] \in Nat /\ Space \in Nat
          BY <1>1, <4>1, ElementOfSeq, Zenon DEF Space
        <4> QED BY <4>2, Zenon DEF ReadAsIn
      <3> HIDE DEF x
      <3>3. s[g[p] + 1] = x
        BY <2>1, Zenon DEF x
      <3>4. ReadAt(s, g[p] + 1, Append(out, x))
        BY <1>2, <1>4, <3>2, <3>3, ReadMore, Zenon
      <3> QED BY <1>5, <2>1, <3>1, <3>4, Zenon
    <2>2. CASE u = 3 /\ g[p + u] = g[p] + 1 /\ EscapeAt(buf, p, s[g[p] + 1])
      <3>1. SoftEnd(AfterBlanks) = 0 /\ EscapeGood /\ EscapeValue = s[g[p] + 1]
        BY <1>1, <1>4, <1>6, <2>2, EscapeIsRead, Zenon
      <3>2. ~(0 > 0)
        OBVIOUS
      <3>3. buf[p + 1] = Equals /\ s[g[p] + 1] \in Byte
        BY <2>2, Zenon DEF EscapeAt
      <3>4. p' = p + 3 /\ out' = Append(out, EscapeValue)
        BY <3>1, <3>2, <3>3, Zenon DEF QPDecode
      <3>5. ReadAt(s, g[p] + 1, Append(out, EscapeValue))
        BY <1>2, <1>4, <3>1, <3>3, BytesAreNat, ReadMore, Zenon
      <3> QED BY <1>5, <2>2, <3>4, <3>5, Zenon
    <2>3. CASE u \in 3..(3 + noise) /\ g[p + u] = g[p] /\ SoftAt(buf, p, u)
      <3>1. u >= 3 /\ p + u > 0
        BY <1>3, <1>4, <2>3
      <3>2. SoftEnd(AfterBlanks) = p + u
        BY <1>1, <1>4, <1>6, <2>3, <3>1, SoftIsRead, Zenon
      <3>3. buf[p + 1] = Equals
        BY <2>3, Zenon DEF SoftAt
      <3>4. p' = p + u /\ out' = out
        BY <3>1, <3>2, <3>3, Zenon DEF QPDecode
      <3> QED BY <1>2, <1>5, <2>3, <3>4, Zenon
    <2> QED BY <1>5, <2>1, <2>2, <2>3, Zenon DEF TokenTo
  <1> QED BY <1>1, <1>2, <1>7, Zenon DEF QPText

\* Every step keeps what the quoted-printable text stands for.
LEMMA QPTextStep ==
    ASSUME TransferType, QPText, [CNext]_cvars PROVE QPText'
  <1>1. CASE e \notin {"qp", "word"}
    <2>1. e' = e
      BY <1>1, Zenon DEF CNext, QPLineFeed, QPChar, QPFinish, QPInsert, CReceive, QPDecode,
                  QPReturn, Binary, cvars
    <2> QED BY <1>1, <2>1, Zenon DEF QPText
  <1>2. CASE e \in {"qp", "word"} /\ CNext
    <2>1. CASE QPFinish
      <3>1. pc = "encode" /\ pc' = "sent" /\ i = Len(s) /\ UNCHANGED <<e, s, buf, noise>> /\ noise = 0
        BY <2>1, Zenon DEF QPFinish, TransferType
      <3>2. TextUpTo(buf, Len(buf), i, s, e, 0, TRUE)
        BY <1>2, <3>1, Zenon DEF QPText
      <3>3. TextUpTo(buf, Len(buf), Len(s), s, e, noise, FALSE)
        BY <3>1, <3>2, Zenon DEF TextUpTo
      <3> QED BY <3>1, <3>3, Zenon DEF QPText
    <2>2. CASE CReceive
      <3>1. /\ pc = "sent" /\ pc' = "decode" /\ UNCHANGED <<e, s, buf, noise, p, out>>
            /\ p = 0 /\ out = <<>>
        BY <2>2, Zenon DEF CReceive, Receive, TransferType
      <3>2. TextUpTo(buf, Len(buf), Len(s), s, e, noise, FALSE)
        BY <1>2, <3>1, Zenon DEF QPText
      <3>3. PICK A, g : TextOK(buf, Len(buf), A, g, s, e, noise) /\ g[Len(buf)] = Len(s)
        BY <3>2, Zenon DEF TextUpTo
      <3>4. 0 \in A /\ g[0] = 0
        BY <3>3, Zenon DEF TextOK
      <3>5. ReadAt(s, 0, <<>>)
        BY DEF ReadAt
      <3>6. p \in A /\ ReadAt(s, g[p], out)
        BY <3>1, <3>4, <3>5, Zenon
      <3> QED BY <3>1, <3>3, <3>6, Zenon DEF QPText
    <2>3. CASE QPReturn
      <3>1. /\ pc = "decode" /\ pc' = "done" /\ UNCHANGED <<e, s, out>> /\ p >= Len(buf)
            /\ s \in Seq(Byte) /\ Len(buf) \in Nat
        BY <2>3 DEF QPReturn, TransferType
      <3>2. PICK A, g : /\ TextOK(buf, Len(buf), A, g, s, e, noise)
                        /\ g[Len(buf)] = Len(s) /\ p \in A /\ ReadAt(s, g[p], out)
        BY <1>2, <3>1, Zenon DEF QPText
      <3>3. A \in SUBSET (0..Len(buf))
        BY <3>2, Zenon DEF TextOK
      <3>4. p = Len(buf)
        BY <3>1, <3>2, <3>3
      <3>5. ReadAt(s, Len(s), out)
        BY <3>2, <3>4, Zenon
      <3>6. out = s
        BY <3>1, <3>5, SameString, Zenon DEF ReadAt
      <3> QED BY <3>1, <3>6, Zenon DEF QPText
    <2>4. ~Binary
      BY <1>2, Zenon DEF Binary
    <2> QED BY <1>2, <2>1, <2>2, <2>3, <2>4, TextQPLineFeed, TextQPChar, TextQPInsert,
               TextQPDecode, Zenon DEF CNext
  <1>3. CASE UNCHANGED cvars
    BY <1>3, Zenon DEF cvars, vars, QPText
  <1> QED BY <1>1, <1>2, <1>3, Zenon

\* Nothing is written at the start.
LEMMA QPTextInit == CInit => QPText
  <1> SUFFICES ASSUME CInit, e \in {"qp", "word"} PROVE QPText
    BY Zenon DEF QPText
  <1> DEFINE g == [a \in Nat |-> 0]
  <1>1. buf = <<>> /\ i = 0 /\ pc = "encode" /\ Len(<<>>) = 0
    BY Zenon DEF CInit
  <1>2. g \in [Nat -> Nat] /\ g[0] = 0
    BY Zenon
  <1> HIDE DEF g
  <1>3. TextOK(<<>>, 0, {0}, g, s, e, 0) /\ BlanksCut(<<>>, 0, {0})
    BY <1>2 DEF TextOK, BlanksCut
  <1>4. TextUpTo(<<>>, 0, 0, s, e, 0, TRUE)
    BY <1>2, <1>3, Zenon DEF TextUpTo
  <1> QED BY <1>1, <1>4, Zenon DEF QPText

\* Without an encoding the string stays as it is.
BinarySame == e = "binary" /\ pc = "done" => out = s

\* Decoding gives back what was encoded, for every string and both encodings,
\* and although what the decoders are to ignore was added on the way.
THEOREM TransferReadBack == CSpec => []ReadBack
  <1> DEFINE Inv == TransferType /\ B64Code /\ QPText /\ BinarySame
  <1>1. CInit => Inv
    BY TransferTypeInit, B64CodeInit, QPTextInit, Zenon DEF CInit, BinarySame
  <1>2. Inv /\ [CNext]_cvars => Inv'
    <2> SUFFICES ASSUME Inv, [CNext]_cvars PROVE Inv'
      BY Zenon
    <2>1. BinarySame'
      <3>1. CASE UNCHANGED cvars
        BY <3>1, Zenon DEF cvars, vars, BinarySame
      <3>2. CASE CNext /\ e = "binary"
        BY <3>2, Zenon DEF CNext, QPLineFeed, QPChar, QPFinish, QPInsert, CReceive, Receive, QPDecode,
                    QPReturn, Binary, BinarySame
      <3>3. CASE CNext /\ e # "binary"
        <4>1. e' = e
          BY <3>3, Zenon DEF CNext, QPLineFeed, QPChar, QPFinish, QPInsert, CReceive, QPDecode,
                      QPReturn, Binary
        <4> QED BY <3>3, <4>1, Zenon DEF BinarySame
      <3> QED BY <3>1, <3>2, <3>3, Zenon
    <2> QED BY <2>1, TransferTypeStep, B64CodeStep, QPTextStep, Zenon
  <1>3. Inv => ReadBack
    BY Zenon DEF TransferType, B64Code, QPText, BinarySame, ReadBack
  <1> QED BY <1>1, <1>2, <1>3, PTL DEF CSpec

=============================================================================

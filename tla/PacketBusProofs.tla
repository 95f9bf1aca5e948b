-------------------------- MODULE PacketBusProofs --------------------------
(***************************************************************************)
(* The packet bus never recycles a packet that somebody can still reach,   *)
(* for any number of packets, threads, collectors and networks, and it     *)
(* implements the mailboxes of Mailboxes.                                  *)
(***************************************************************************)
EXTENDS PacketDelivery, FiniteSetTheorems, WellFoundedInduction, SequenceTheorems, TLAPS

(***************************************************************************)
(* Lists.                                                                  *)
(***************************************************************************)

\* Append adds one element to the range and keeps a list free of duplicates.
LEMMA AppendRange ==
    ASSUME NEW S, NEW s \in Seq(S), NEW e \in S
    PROVE  /\ Append(s, e) \in Seq(S)
           /\ Range(Append(s, e)) = Range(s) \union {e}
           /\ IsInjective(s) /\ e \notin Range(s) => IsInjective(Append(s, e))
<1>1. /\ Append(s, e) \in Seq(S)
      /\ DOMAIN Append(s, e) = 1..(Len(s) + 1)
      /\ \A i \in 1..Len(s) : Append(s, e)[i] = s[i]
      /\ Append(s, e)[Len(s) + 1] = e
      /\ DOMAIN s = 1..Len(s) /\ Len(s) \in Nat
  OBVIOUS
<1>2. Range(Append(s, e)) = Range(s) \union {e}
  BY <1>1 DEF Range
<1>3. ASSUME IsInjective(s), e \notin Range(s)
      PROVE  IsInjective(Append(s, e))
  BY <1>1, <1>3 DEF Range, IsInjective
<1> QED BY <1>1, <1>2, <1>3

\* Tail removes the head of a list without duplicates, and nothing else.
LEMMA TailRange ==
    ASSUME NEW S, NEW s \in Seq(S), s # <<>>
    PROVE  /\ Tail(s) \in Seq(S)
           /\ Head(s) \in Range(s)
           /\ Range(Tail(s)) \subseteq Range(s)
           /\ IsInjective(s) => /\ Range(Tail(s)) = Range(s) \ {Head(s)}
                                /\ IsInjective(Tail(s))
<1>1. /\ Tail(s) \in Seq(S)
      /\ DOMAIN Tail(s) = 1..(Len(s) - 1)
      /\ \A i \in 1..(Len(s) - 1) : Tail(s)[i] = s[i + 1]
      /\ Head(s) = s[1]
      /\ DOMAIN s = 1..Len(s) /\ Len(s) \in Nat \ {0}
  OBVIOUS
<1>2. Head(s) \in Range(s)
  BY <1>1 DEF Range
<1>3. Range(Tail(s)) \subseteq Range(s)
  BY <1>1 DEF Range
<1>4. ASSUME IsInjective(s)
      PROVE  /\ Range(Tail(s)) = Range(s) \ {Head(s)}
             /\ IsInjective(Tail(s))
  <2>1. \A x \in Range(s) : x # Head(s) => x \in Range(Tail(s))
    <3>1. TAKE x \in Range(s)
    <3>2. HAVE x # Head(s)
    <3>3. PICK i \in 1..Len(s) : s[i] = x
      BY <1>1, <3>1 DEF Range
    <3>4. i - 1 \in 1..(Len(s) - 1) /\ Tail(s)[i - 1] = x
      BY <1>1, <3>2, <3>3
    <3> QED BY <1>1, <3>4 DEF Range
  <2>2. Head(s) \notin Range(Tail(s))
    BY <1>1, <1>4 DEF Range, IsInjective
  <2>3. IsInjective(Tail(s))
    BY <1>1, <1>4 DEF IsInjective
  <2> QED BY <1>3, <2>1, <2>2, <2>3
<1> QED BY <1>1, <1>2, <1>3, <1>4

\* The empty list.
LEMMA EmptyRange == Range(<<>>) = {} /\ IsInjective(<<>>)
BY DEF Range, IsInjective

\* A packet at the end of a list, or between two lists.
LEMMA ConcatAppend ==
    ASSUME NEW S, NEW s \in Seq(S), NEW r \in Seq(S), NEW e \in S
    PROVE  s \o Append(r, e) = Append(s \o r, e)
<1>1. <<e>> \in Seq(S) /\ s \o r \in Seq(S)
  BY ConcatProperties
<1>2. Append(r, e) = r \o <<e>> /\ Append(s \o r, e) = (s \o r) \o <<e>>
  BY <1>1, AppendIsConcat
<1>3. s \o (r \o <<e>>) = (s \o r) \o <<e>>
  BY <1>1, ConcatAssociative
<1> QED BY <1>2, <1>3

\* The head of a list moved to the end of the list before it.
LEMMA ConcatMiddle ==
    ASSUME NEW S, NEW s \in Seq(S), NEW r \in Seq(S), r # <<>>
    PROVE  Append(s, Head(r)) \o Tail(r) = s \o r
<1>1. /\ Head(r) \in S /\ Tail(r) \in Seq(S) /\ <<Head(r)>> \in Seq(S)
      /\ r = <<Head(r)>> \o Tail(r)
  OBVIOUS
<1> DEFINE e == Head(r)
           z == Tail(r)
<1> HIDE DEF e, z
<1>2. Append(s, e) = s \o <<e>>
  BY <1>1, AppendIsConcat DEF e
<1>3. (s \o <<e>>) \o z = s \o (<<e>> \o z)
  BY <1>1, ConcatAssociative DEF e, z
<1> QED BY <1>1, <1>2, <1>3 DEF e, z

\* The head of two lists in a row.
LEMMA ConcatTail ==
    ASSUME NEW S, NEW s \in Seq(S), NEW r \in Seq(S), s # <<>>
    PROVE  s \o r # <<>> /\ Head(s \o r) = Head(s) /\ Tail(s \o r) = Tail(s) \o r
<1>1. /\ s \o r \in Seq(S) /\ Len(s \o r) = Len(s) + Len(r)
      /\ \A i \in 1 .. Len(s) + Len(r) : (s \o r)[i] = IF i <= Len(s) THEN s[i] ELSE r[i - Len(s)]
  BY ConcatProperties
<1>2. Len(s) \in Nat \ {0} /\ Len(r) \in Nat
  BY EmptySeq, LenProperties
<1>3. s \o r # <<>>
  BY <1>1, <1>2, EmptySeq
<1>4. Head(s \o r) = Head(s)
  <2>1. 1 \in 1 .. Len(s) + Len(r) /\ 1 <= Len(s)
    BY <1>2
  <2> QED BY <1>1, <2>1
<1>5. /\ Tail(s) \in Seq(S) /\ Len(Tail(s)) = Len(s) - 1 /\ \A i \in 1 .. Len(s) - 1 : Tail(s)[i] = s[i + 1]
      /\ Tail(s \o r) \in Seq(S) /\ Len(Tail(s \o r)) = Len(s) + Len(r) - 1
      /\ \A i \in 1 .. Len(s) + Len(r) - 1 : Tail(s \o r)[i] = (s \o r)[i + 1]
  <2>1. \A z \in Seq(S) : z # <<>> => /\ Tail(z) \in Seq(S) /\ Len(Tail(z)) = Len(z) - 1
                                      /\ \A i \in 1 .. Len(z) - 1 : Tail(z)[i] = z[i + 1]
    BY HeadTailProperties
  <2> QED BY <1>1, <1>3, <2>1
<1> DEFINE a == Tail(s)
           b == Tail(s \o r)
<1> HIDE DEF a, b
<1>6. /\ a \o r \in Seq(S) /\ Len(a \o r) = Len(a) + Len(r)
      /\ \A i \in 1 .. Len(a) + Len(r) : (a \o r)[i] = IF i <= Len(a) THEN a[i] ELSE r[i - Len(a)]
  BY <1>5, ConcatProperties DEF a
<1>7. ASSUME NEW i \in 1 .. Len(s) + Len(r) - 1 PROVE b[i] = (a \o r)[i]
  <2>1. /\ i + 1 \in 1 .. Len(s) + Len(r) /\ b[i] = (s \o r)[i + 1]
        /\ Len(a) = Len(s) - 1 /\ i \in 1 .. Len(a) + Len(r)
    BY <1>2, <1>5 DEF a, b
  <2>2. CASE i <= Len(a)
    <3>1. a[i] = s[i + 1] /\ i + 1 <= Len(s)
      BY <1>2, <1>5, <2>1, <2>2 DEF a
    <3> QED BY <1>1, <1>6, <2>1, <2>2, <3>1
  <2>3. CASE ~ (i <= Len(a))
    <3>1. ~ (i + 1 <= Len(s)) /\ (i + 1) - Len(s) = i - Len(a)
      BY <1>2, <2>1, <2>3
    <3> QED BY <1>1, <1>6, <2>1, <2>3, <3>1
  <2> QED BY <2>2, <2>3
<1>8. b = a \o r
  <2>1. b \in Seq(S) /\ Len(b) = Len(a \o r) /\ Len(b) = Len(s) + Len(r) - 1
    BY <1>2, <1>5, <1>6 DEF a, b
  <2>2. \A x, y \in Seq(S) : Len(x) = Len(y) /\ (\A i \in 1 .. Len(x) : x[i] = y[i]) => x = y
    BY SeqEqual
  <2> QED BY <1>6, <1>7, <2>1, <2>2
<1> QED BY <1>3, <1>4, <1>8 DEF a, b

\* Every nonempty set of numbers has a least one.
LEMMA LeastNumber ==
    ASSUME NEW S \in SUBSET Nat, S # {}
    PROVE  \E x \in S : \A y \in S : x <= y
<1> DEFINE R == {ss \in Nat \X Nat : ss[1] < ss[2]}
<1>1. IsWellFoundedOn(R, Nat)
  BY NatLessThanWellFounded DEF OpToRel
<1>2. \A x, y \in Nat : <<y, x>> \in R \/ x <= y
  OBVIOUS
<1> HIDE DEF R
<1>3. PICK x \in S : \A y \in S : ~ (<<y, x>> \in R)
  BY <1>1, WFMin
<1> QED BY <1>2, <1>3
\* Induction over the positions of a list, for a set of them.
LEMMA IntervalInduction ==
    ASSUME NEW N \in Nat, NEW S, 0 \in S, \A k \in 0 .. N : k > 0 /\ k - 1 \in S => k \in S
    PROVE  \A k \in 0 .. N : k \in S
<1> DEFINE B == {k \in 0 .. N : k \notin S}
<1> SUFFICES ASSUME B # {} PROVE FALSE
  OBVIOUS
<1>1. B \in SUBSET Nat
  OBVIOUS
<1>2. PICK x \in B : \A y \in B : x <= y
  BY <1>1, LeastNumber
<1>3. x \in 0 .. N /\ x \notin S /\ x > 0
  BY <1>2
<1>4. x - 1 \in 0 .. N /\ x - 1 \notin B
  BY <1>2, <1>3
<1> QED BY <1>3, <1>4

-----------------------------------------------------------------------------
(***************************************************************************)
(* The part of a list that is kept.                                        *)
(***************************************************************************)
Keeping(k, s, D, m) ==
    k = [i \in 0 .. m |-> IF i = 0 THEN <<>>
                          ELSE IF s[i] \in D THEN Append(k[i - 1], s[i]) ELSE k[i - 1]]

\* Such a function exists for the first N elements of a list.
LEMMA KeepingExists ==
    ASSUME NEW s, NEW D, NEW N \in Nat
    PROVE  \E k : Keeping(k, s, D, N)
<1> DEFINE Step(v, i) == IF s[i] \in D THEN Append(v, s[i]) ELSE v
           S == {m \in 0 .. N : \E k : Keeping(k, s, D, m)}
<1>1. 0 \in S
  <2> DEFINE k == [i \in 0 .. 0 |-> <<>>]
  <2>1. k = [i \in 0 .. 0 |-> IF i = 0 THEN <<>> ELSE Step(k[i - 1], i)]
    <3> HIDE DEF Step
    <3> QED OBVIOUS
  <2>2. Keeping(k, s, D, 0)
    BY <2>1 DEF Keeping
  <2> QED BY <2>2
<1>2. ASSUME NEW m \in 0 .. N, m > 0, m - 1 \in S PROVE m \in S
  <2>1. PICK k : Keeping(k, s, D, m - 1)
    BY <1>2
  <2> DEFINE g == [i \in 0 .. m |-> IF i = m THEN Step(k[m - 1], m) ELSE k[i]]
  <2>2. \A i \in 0 .. m - 1 : k[i] = IF i = 0 THEN <<>> ELSE Step(k[i - 1], i)
    BY <2>1 DEF Keeping
  <2> HIDE DEF Step
  <2>3. g[m] = Step(k[m - 1], m) /\ \A i \in 0 .. m - 1 : g[i] = k[i]
    BY <1>2
  <2>4. ASSUME NEW i \in 0 .. m PROVE g[i] = IF i = 0 THEN <<>> ELSE Step(g[i - 1], i)
    <3> HIDE DEF g
    <3>1. CASE i = 0
      BY <1>2, <2>2, <2>3, <3>1
    <3>2. CASE i = m
      <4>1. g[m - 1] = k[m - 1]
        BY <1>2, <2>3
      <4> QED BY <1>2, <2>3, <3>2, <4>1
    <3>3. CASE i # 0 /\ i # m
      <4>1. i \in 0 .. m - 1 /\ i - 1 \in 0 .. m - 1
        BY <3>3
      <4>2. g[i] = k[i] /\ g[i - 1] = k[i - 1]
        BY <2>3, <4>1
      <4> QED BY <2>2, <3>3, <4>1, <4>2
    <3> QED BY <3>1, <3>2, <3>3
  <2>5. g = [i \in 0 .. m |-> IF i = 0 THEN <<>> ELSE Step(g[i - 1], i)]
    <3> DEFINE h == [i \in 0 .. m |-> IF i = 0 THEN <<>> ELSE Step(g[i - 1], i)]
    <3>1. \A i \in 0 .. m : g[i] = h[i]
      BY <2>4
    <3> QED BY <3>1
  <2>6. Keeping(g, s, D, m)
    BY <2>5 DEF Keeping, Step
  <2> QED BY <2>6
<1>3. \A m \in 0 .. N : m \in S
  <2> HIDE DEF S
  <2> QED BY <1>1, <1>2, IntervalInduction
<1> QED BY <1>3

\* What is kept of a list is found front to back, one element at a time.
LEMMA KeptBy ==
    ASSUME NEW S, NEW s \in Seq(S), NEW D
    PROVE  \E k : /\ Kept(s, D) = k[Len(s)] /\ k[0] = <<>>
                  /\ \A i \in 1 .. Len(s) : k[i] = IF s[i] \in D THEN Append(k[i - 1], s[i]) ELSE k[i - 1]
<1> DEFINE k == CHOOSE h : Keeping(h, s, D, Len(s))
<1>1. Len(s) \in Nat
  OBVIOUS
<1>2. Keeping(k, s, D, Len(s))
  BY <1>1, KeepingExists
<1>3. Kept(s, D) = k[Len(s)]
  BY DEF Kept, Keeping
<1> HIDE DEF k
<1>4. \A i \in 0 .. Len(s) : k[i] = IF i = 0 THEN <<>> ELSE IF s[i] \in D THEN Append(k[i - 1], s[i]) ELSE k[i - 1]
  BY <1>2 DEF Keeping
<1> QED BY <1>1, <1>3, <1>4

\* It depends on the elements that are in D only.
LEMMA KeptSame ==
    ASSUME NEW S, NEW s \in Seq(S), NEW D, NEW E,
           \A i \in 1 .. Len(s) : s[i] \in D <=> s[i] \in E
    PROVE  Kept(s, D) = Kept(s, E)
<1>1. PICK k : /\ Kept(s, D) = k[Len(s)] /\ k[0] = <<>>
               /\ \A i \in 1 .. Len(s) : k[i] = IF s[i] \in D THEN Append(k[i - 1], s[i]) ELSE k[i - 1]
  BY KeptBy
<1>2. PICK h : /\ Kept(s, E) = h[Len(s)] /\ h[0] = <<>>
               /\ \A i \in 1 .. Len(s) : h[i] = IF s[i] \in E THEN Append(h[i - 1], s[i]) ELSE h[i - 1]
  BY KeptBy
<1> DEFINE T == {i \in 0 .. Len(s) : k[i] = h[i]}
<1>3. Len(s) \in Nat /\ 0 \in T
  BY <1>1, <1>2
<1>4. \A i \in 0 .. Len(s) : i > 0 /\ i - 1 \in T => i \in T
  BY <1>1, <1>2
<1>5. \A i \in 0 .. Len(s) : i \in T
  <2> HIDE DEF T
  <2> QED BY <1>3, <1>4, IntervalInduction
<1> QED BY <1>1, <1>2, <1>3, <1>5

\* It is a list of elements of S.
LEMMA KeptType ==
    ASSUME NEW S, NEW s \in Seq(S), NEW D
    PROVE  Kept(s, D) \in Seq(S)
<1>1. PICK k : /\ Kept(s, D) = k[Len(s)] /\ k[0] = <<>>
               /\ \A i \in 1 .. Len(s) : k[i] = IF s[i] \in D THEN Append(k[i - 1], s[i]) ELSE k[i - 1]
  BY KeptBy
<1> DEFINE T == {i \in 0 .. Len(s) : k[i] \in Seq(S)}
<1>2. Len(s) \in Nat /\ 0 \in T
  <2>1. <<>> \in Seq(S)
    BY EmptySeq
  <2>2. k[0] \in Seq(S)
    BY <1>1, <2>1
  <2>3. Len(s) \in Nat
    OBVIOUS
  <2> QED BY <2>2, <2>3
<1>3. ASSUME NEW i \in 0 .. Len(s), i > 0, i - 1 \in T PROVE i \in T
  <2>1. s[i] \in S /\ k[i - 1] \in Seq(S)
    BY <1>3
  <2>2. \A v \in Seq(S), e \in S : Append(v, e) \in Seq(S)
    BY AppendProperties
  <2>3. Append(k[i - 1], s[i]) \in Seq(S)
    <3> HIDE DEF T
    <3> QED BY <2>1, <2>2
  <2>4. k[i] = Append(k[i - 1], s[i]) \/ k[i] = k[i - 1]
    <3>1. i \in 1 .. Len(s)
      BY <1>2, <1>3
    <3> HIDE DEF T
    <3> QED BY <1>1, <3>1
  <2> QED BY <2>1, <2>3, <2>4
<1>4. \A i \in 0 .. Len(s) : i \in T
  <2> HIDE DEF T
  <2> QED BY <1>2, <1>3, IntervalInduction
<1> QED BY <1>1, <1>2, <1>4

\* The last element is kept or not.
LEMMA KeptAppend ==
    ASSUME NEW S, NEW s \in Seq(S), NEW D, NEW e \in S
    PROVE  Kept(Append(s, e), D) = IF e \in D THEN Append(Kept(s, D), e) ELSE Kept(s, D)
<1> DEFINE r == Append(s, e)
<1>0. /\ r \in Seq(S) /\ Len(s) \in Nat /\ Len(r) = Len(s) + 1 /\ r[Len(s) + 1] = e
      /\ \A i \in 1 .. Len(s) : r[i] = s[i]
  OBVIOUS
<1> HIDE DEF r
<1>1. PICK k : /\ Kept(s, D) = k[Len(s)] /\ k[0] = <<>>
               /\ \A i \in 1 .. Len(s) : k[i] = IF s[i] \in D THEN Append(k[i - 1], s[i]) ELSE k[i - 1]
  BY KeptBy
<1>2. PICK h : /\ Kept(r, D) = h[Len(r)] /\ h[0] = <<>>
               /\ \A i \in 1 .. Len(r) : h[i] = IF r[i] \in D THEN Append(h[i - 1], r[i]) ELSE h[i - 1]
  BY <1>0, KeptBy
<1> DEFINE T == {i \in 0 .. Len(s) : k[i] = h[i]}
<1>3. 0 \in T
  BY <1>0, <1>1, <1>2
<1>4. \A i \in 0 .. Len(s) : i > 0 /\ i - 1 \in T => i \in T
  BY <1>0, <1>1, <1>2
<1>5. \A i \in 0 .. Len(s) : i \in T
  <2> HIDE DEF T
  <2> QED BY <1>0, <1>3, <1>4, IntervalInduction
<1>6. h[Len(s)] = k[Len(s)]
  BY <1>0, <1>5
<1>7. h[Len(s) + 1] = IF e \in D THEN Append(h[Len(s)], e) ELSE h[Len(s)]
  BY <1>0, <1>2
<1> QED BY <1>0, <1>1, <1>2, <1>6, <1>7 DEF r

\* The head is kept or not.
LEMMA KeptHead ==
    ASSUME NEW S, NEW s \in Seq(S), NEW D, s # <<>>
    PROVE  /\ Head(s) \notin D => Kept(s, D) = Kept(Tail(s), D)
           /\ Head(s) \in D => /\ Kept(s, D) # <<>> /\ Tail(Kept(s, D)) = Kept(Tail(s), D)
                               /\ Head(Kept(s, D)) = Head(s)
<1> DEFINE r == Tail(s)
<1>0. /\ r \in Seq(S) /\ Len(s) \in Nat /\ Len(s) > 0 /\ Len(r) = Len(s) - 1 /\ Len(r) \in Nat
      /\ Head(s) = s[1]
      /\ \A i \in 1 .. Len(r) : r[i] = s[i + 1]
  OBVIOUS
<1> HIDE DEF r
<1>1. PICK k : /\ Kept(s, D) = k[Len(s)] /\ k[0] = <<>>
               /\ \A i \in 1 .. Len(s) : k[i] = IF s[i] \in D THEN Append(k[i - 1], s[i]) ELSE k[i - 1]
  BY KeptBy
<1>2. PICK h : /\ Kept(r, D) = h[Len(r)] /\ h[0] = <<>>
               /\ \A i \in 1 .. Len(r) : h[i] = IF r[i] \in D THEN Append(h[i - 1], r[i]) ELSE h[i - 1]
  <2>1. r \in Seq(S)
    BY <1>0
  <2> QED BY ONLY <2>1, KeptBy
<1>3. k[1] = IF s[1] \in D THEN Append(<<>>, s[1]) ELSE <<>>
  <2>1. 1 \in 1 .. Len(s) /\ 1 - 1 = 0
    BY <1>0
  <2> QED BY <1>1, <2>1
<1>4. ASSUME NEW i \in 1 .. Len(r)
      PROVE  /\ k[i + 1] = IF r[i] \in D THEN Append(k[i], r[i]) ELSE k[i]
             /\ r[i] \in S
  <2>1. i + 1 \in 1 .. Len(s) /\ (i + 1) - 1 = i
    BY <1>0
  <2> QED BY <1>0, <1>1, <2>1
<1>5. CASE s[1] \notin D
  <2> DEFINE T == {i \in 0 .. Len(r) : k[i + 1] = h[i]}
  <2>1. 0 \in T
    BY <1>0, <1>2, <1>3, <1>5
  <2>2. ASSUME NEW i \in 0 .. Len(r), i > 0, i - 1 \in T PROVE i \in T
    <3>1. i \in 1 .. Len(r) /\ k[i] = h[i - 1]
      <4>1. (i - 1) + 1 = i
        OBVIOUS
      <4> QED BY <2>2, <4>1
    <3> QED BY <1>2, <1>4, <3>1
  <2>3. \A i \in 0 .. Len(r) : i \in T
    <3> HIDE DEF T
    <3> QED BY <1>0, <2>1, <2>2, IntervalInduction
  <2>4. k[Len(r) + 1] = h[Len(r)]
    BY <1>0, <2>3
  <2> QED BY <1>0, <1>1, <1>2, <1>5, <2>4 DEF r
<1>6. CASE s[1] \in D
  <2> DEFINE T == {i \in 0 .. Len(r) : /\ k[i + 1] \in Seq(S) /\ k[i + 1] # <<>>
                                       /\ h[i] = Tail(k[i + 1]) /\ Head(k[i + 1]) = s[1]}
  <2>1. 0 \in T
    <3>1. s[1] \in S
      BY <1>0
    <3>2. /\ Append(<<>>, s[1]) \in Seq(S) /\ Append(<<>>, s[1]) # <<>>
          /\ Tail(Append(<<>>, s[1])) = <<>> /\ Head(Append(<<>>, s[1])) = s[1]
      BY <3>1, HeadTailAppend
    <3>3. k[0 + 1] = Append(<<>>, s[1]) /\ h[0] = <<>> /\ 0 \in 0 .. Len(r)
      BY <1>0, <1>2, <1>3, <1>6
    <3> QED BY <3>2, <3>3
  <2>2. ASSUME NEW i \in 0 .. Len(r), i > 0, i - 1 \in T PROVE i \in T
    <3>1. /\ i \in 1 .. Len(r) /\ k[i] \in Seq(S) /\ k[i] # <<>>
          /\ h[i - 1] = Tail(k[i]) /\ Head(k[i]) = s[1]
      <4>1. (i - 1) + 1 = i
        OBVIOUS
      <4> QED BY <2>2, <4>1
    <3>2. h[i] = IF r[i] \in D THEN Append(h[i - 1], r[i]) ELSE h[i - 1]
      BY <1>2, <3>1
    <3>3. /\ Append(k[i], r[i]) \in Seq(S) /\ Append(k[i], r[i]) # <<>>
          /\ Head(Append(k[i], r[i])) = s[1]
          /\ Tail(Append(k[i], r[i])) = Append(Tail(k[i]), r[i])
      <4> DEFINE v == k[i]
                 e == r[i]
      <4>1. v \in Seq(S) /\ v # <<>> /\ e \in S
        BY <1>4, <3>1
      <4>2. Head(v) = s[1]
        BY <3>1
      <4> HIDE DEF v, e
      <4>3. Append(v, e) \in Seq(S) /\ Append(v, e) # <<>>
        BY <4>1
      <4>4. Head(Append(v, e)) = s[1] /\ Tail(Append(v, e)) = Append(Tail(v), e)
        BY <4>1, <4>2, HeadTailAppend
      <4> QED BY <4>3, <4>4 DEF v, e
    <3> QED BY <1>4, <3>1, <3>2, <3>3
  <2>3. \A i \in 0 .. Len(r) : i \in T
    <3> HIDE DEF T
    <3> QED BY <1>0, <2>1, <2>2, IntervalInduction
  <2>4. Len(r) \in T /\ Len(r) + 1 = Len(s)
    BY <1>0, <2>3
  <2> QED BY <1>0, <1>1, <1>2, <1>6, <2>4 DEF r
<1> QED BY <1>0, <1>5, <1>6

(***************************************************************************)
(* CacheSwap operations, seen as sets.                                     *)
(***************************************************************************)
\* What Emplace does to the lists.
LEMMA EmplaceFacts ==
    ASSUME TypeOK, ListsDistinct, NEW k \in Queues, NEW p \in Packets,
           Emplace(k, p), reader' = reader
    PROVE  /\ writer' \in [Queues -> Seq(Packets)]
           /\ \A q \in Queues : Slots(q)' = IF q = k THEN Slots(q) \union {p} ELSE Slots(q)
           /\ p \notin Slots(k) => ListsDistinct'
<1> USE DEF TypeOK
<1>1. writer[k] \in Seq(Packets)
  OBVIOUS
<1>2. /\ writer' \in [Queues -> Seq(Packets)]
      /\ writer'[k] = Append(writer[k], p)
      /\ \A q \in Queues : q # k => writer'[q] = writer[q]
  BY <1>1, AppendRange DEF Emplace
<1>3. Range(writer'[k]) = Range(writer[k]) \union {p}
  BY <1>1, <1>2, AppendRange
<1>4. \A q \in Queues : Slots(q)' = IF q = k THEN Slots(q) \union {p} ELSE Slots(q)
  BY <1>2, <1>3 DEF Slots
<1>5. ASSUME p \notin Slots(k) PROVE ListsDistinct'
  <2>1. IsInjective(writer'[k])
    BY <1>1, <1>2, <1>5, AppendRange DEF ListsDistinct, Slots
  <2>2. Range(writer'[k]) \cap Range(reader'[k]) = {}
    BY <1>3, <1>5 DEF ListsDistinct, Slots
  <2> QED BY <2>1, <2>2, <1>2 DEF ListsDistinct
<1> QED BY <1>2, <1>4, <1>5

\* What Swap does to the lists.
LEMMA SwapFacts ==
    ASSUME TypeOK, ListsDistinct, NEW k \in Queues, Swap(k)
    PROVE  /\ writer' \in [Queues -> Seq(Packets)]
           /\ reader' \in [Queues -> Seq(Packets)]
           /\ \A q \in Queues : Slots(q)' = Slots(q)
           /\ \A q \in Queues : q # k => reader'[q] = reader[q]
           /\ ListsDistinct'
<1> USE DEF TypeOK
<1>1. CASE writer[k] # <<>>
  <2>1. /\ writer' \in [Queues -> Seq(Packets)]
        /\ reader' \in [Queues -> Seq(Packets)]
        /\ writer'[k] = reader[k] /\ reader'[k] = writer[k]
        /\ \A q \in Queues : q # k => writer'[q] = writer[q] /\ reader'[q] = reader[q]
    BY <1>1 DEF Swap
  <2>2. \A q \in Queues : Slots(q)' = Slots(q)
    BY <2>1 DEF Slots
  <2>3. ListsDistinct'
    BY <2>1 DEF ListsDistinct
  <2> QED BY <2>1, <2>2, <2>3
<1>2. CASE writer[k] = <<>>
  BY <1>2 DEF Swap, cacheVars, Slots, ListsDistinct
<1> QED BY <1>1, <1>2

\* What Advance does to the lists.
LEMMA AdvanceFacts ==
    ASSUME TypeOK, ListsDistinct, NEW k \in Queues, reader[k] # <<>>,
           Advance(k), writer' = writer
    PROVE  /\ reader' \in [Queues -> Seq(Packets)]
           /\ Head(reader[k]) \in Slots(k) /\ Head(reader[k]) \in Packets
           /\ \A q \in Queues : Slots(q)' = IF q = k THEN Slots(q) \ {Head(reader[k])}
                                                     ELSE Slots(q)
           /\ \A q \in Queues : q # k => reader'[q] = reader[q]
           /\ ListsDistinct'
<1> USE DEF TypeOK
<1>1. reader[k] \in Seq(Packets) /\ IsInjective(reader[k])
  BY DEF ListsDistinct
<1>2. /\ reader' \in [Queues -> Seq(Packets)]
      /\ reader'[k] = Tail(reader[k])
      /\ \A q \in Queues : q # k => reader'[q] = reader[q]
  BY <1>1, TailRange DEF Advance
<1>3. /\ Head(reader[k]) \in Range(reader[k])
      /\ Range(reader'[k]) = Range(reader[k]) \ {Head(reader[k])}
      /\ IsInjective(reader'[k])
  BY <1>1, <1>2, TailRange
<1>4. Head(reader[k]) \in Packets
  BY <1>1
<1>5. Head(reader[k]) \notin Range(writer[k])
  BY <1>3 DEF ListsDistinct
<1>6. \A q \in Queues : Slots(q)' = IF q = k THEN Slots(q) \ {Head(reader[k])} ELSE Slots(q)
  BY <1>2, <1>3, <1>5 DEF Slots
<1>7. ListsDistinct'
  BY <1>2, <1>3 DEF ListsDistinct
<1> QED BY <1>2, <1>3, <1>4, <1>6, <1>7 DEF Slots

\* Lists hold packets only.
LEMMA SlotsType ==
    ASSUME TypeOK, NEW q \in Queues PROVE Slots(q) \subseteq Packets
<1>1. writer[q] \in Seq(Packets) /\ reader[q] \in Seq(Packets)
  BY DEF TypeOK
<1>2. \A s \in Seq(Packets) : Range(s) \subseteq Packets
  BY DEF Range
<1> QED BY <1>1, <1>2 DEF Slots

-----------------------------------------------------------------------------
(***************************************************************************)
(* Threads and queues.                                                     *)
(***************************************************************************)

\* The queues are different from each other.
LEMMA QueueFacts ==
    /\ Main \in Threads
    /\ PacketsQ \in OwnerQueues /\ CreateQ \in OwnerQueues /\ PacketsQ # CreateQ
    /\ \A t \in NetThreads : SendQ(t) \in OwnerQueues /\ SendQ(t) \notin {PacketsQ, CreateQ}
    /\ \A t \in Threads : MsgQ(t) \in Queues /\ MsgQ(t) \notin OwnerQueues
    /\ \A t, u \in Threads : MsgQ(t) = MsgQ(u) => t = u
    /\ OwnerQueues \subseteq Queues
    /\ \A q \in Queues : q \in OwnerQueues \/ \E t \in Threads : q = MsgQ(t)
BY DEF Threads, PacketsQ, CreateQ, SendQ, MsgQ, OwnerQueues, MsgQueues, Queues

\* A set of threads has a least element, and Least is it.
LEMMA LeastMember ==
    ASSUME NEW S \in SUBSET Nat, S # {}
    PROVE  Least(S) \in S
BY LeastNumber DEF Least

\* Collectors hand packets to their own threads.
LEMMA RoundRobinFacts ==
    ASSUME TypeOK, NEW c \in Collectors
    PROVE  /\ Members[c] \subseteq Threads
           /\ NextThread(c) \in Threads
           /\ ThreadAfter(c, NextThread(c)) \in Nat
<1>1. Members[c] \subseteq Nat /\ Members[c] # {}
  BY ThreadsAssumption
<1>2. Members[c] \subseteq Threads
  BY DEF Threads
<1>3. NextThread(c) \in Members[c]
  BY <1>1, LeastMember DEF NextThread
<1>4. ThreadAfter(c, NextThread(c)) \in Members[c]
  BY <1>1, LeastMember DEF ThreadAfter
<1> QED BY <1>1, <1>2, <1>3, <1>4

\* The holders of a packet are finitely many threads.
LEMMA HoldersFinite ==
    ASSUME NEW p PROVE IsFiniteSet(Holders(p)) /\ Cardinality(Holders(p)) \in Nat
BY ThreadsAssumption, FS_Subset, FS_CardinalityType DEF Holders

-----------------------------------------------------------------------------
(***************************************************************************)
(* Steps that leave the packets alone.                                     *)
(***************************************************************************)

\* The main thread's walk over its own lists is not disturbed: a packet at hand
\* stays at hand, with the same threads still to serve.
MainSteady ==
    /\ Delivering => /\ todo' = todo /\ pc'[Main] = pc[Main]
                     /\ reader'[CurrentQ] = reader[CurrentQ]
    /\ Delivering' => Delivering \/ reader'[CurrentQ'] # <<>>

\* A steady step keeps the packet at hand.
LEMMA SteadyFacts ==
    ASSUME DeliveringOne, MainSteady
    PROVE  DeliveringOne' /\ \A p : AtHand(p) => AtHand(p)' /\ todo' = todo
BY DEF DeliveringOne, MainSteady, Delivering, CurrentQ, AtHand

\* A step that moves no packet keeps the invariant.
LEMMA Neutral ==
    ASSUME IInv, TypeOK', ListsDistinct', MainSteady,
           \A q \in Queues : Slots(q)' = Slots(q),
           UNCHANGED <<poolVars, ref, open, msg, hold>>
    PROVE  IInv'
<1> USE DEF IInv, poolVars
<1>1. InUse' = InUse /\ \A p : Held(p)' = Held(p)
  BY DEF InUse, Held
<1>2. \A q \in OwnerQueues : Slots(q)' = Slots(q)
  BY QueueFacts
<1>3. \A t \in Threads : Slots(MsgQ(t))' = Slots(MsgQ(t))
  BY QueueFacts
<1>4. PoolPartition'
  BY <1>1 DEF PoolPartition
<1>5. OneOwner'
  BY <1>2 DEF OneOwner
<1>6. OpenedHasNoOwner'
  BY <1>1, <1>2 DEF OpenedHasNoOwner
<1>7. DeliveringOne' /\ \A p : AtHand(p) => AtHand(p)' /\ todo' = todo
  BY SteadyFacts
<1>8. ListedWhileOwned'
  BY <1>3, <1>7 DEF ListedWhileOwned
<1>9. \A p : Holders(p)' = Holders(p)
  BY <1>3 DEF Holders
<1>10. RefCount'
  BY <1>9 DEF RefCount
<1>11. NoUseAfterRecycle'
  BY <1>1 DEF NoUseAfterRecycle, Listed
<1>12. FreedOnce'
  BY <1>1 DEF FreedOnce
<1> QED BY <1>4, <1>5, <1>6, <1>7, <1>8, <1>10, <1>11, <1>12

-----------------------------------------------------------------------------
(***************************************************************************)
(* Steps that move a packet.                                               *)
(***************************************************************************)

\* What Release does to the packets in the hands of handlers.
LEMMA ReleaseFacts ==
    ASSUME TypeOK, NEW t \in Threads, Release(t)
    PROVE  /\ hold' \in [Threads -> Packets \union {NoPacket}]
           /\ \A u \in Threads : hold'[u] = IF u = t THEN NoPacket ELSE hold[u]
           /\ \A x \in Packets : Held(x)' => Held(x)
<1>1. /\ hold' \in [Threads -> Packets \union {NoPacket}]
      /\ \A u \in Threads : hold'[u] = IF u = t THEN NoPacket ELSE hold[u]
  BY DEF Release, TypeOK
<1> QED BY <1>1, PacketsAssumption DEF Held

\* A handler passes its packet to ThreadMgr or to a Network.
LEMMA HandOver ==
    ASSUME IInv, NEW t \in Threads, NEW k \in OwnerQueues,
           hold[t] # NoPacket, msg[hold[t]].type # "close",
           Emplace(k, hold[t]), Release(t),
           UNCHANGED <<poolVars, ref, open, msg, reader, pc, emitted, loopVars>>
    PROVE  IInv'
<1> DEFINE p == hold[t]
<1> USE DEF IInv, poolVars, loopVars
<1>1. p \in Packets /\ k \in Queues
  BY QueueFacts DEF TypeOK
<1>2. /\ \A q \in OwnerQueues : p \notin Slots(q)
      /\ p \in InUse /\ removes[p] = 0 /\ Held(p) /\ ~open[p]
  BY <1>1 DEF OneOwner, NoUseAfterRecycle, OpenedHasNoOwner, Held
<1>3. /\ writer' \in [Queues -> Seq(Packets)]
      /\ \A q \in Queues : Slots(q)' = IF q = k THEN Slots(q) \union {p} ELSE Slots(q)
      /\ ListsDistinct'
  BY <1>1, <1>2, EmplaceFacts
<1>4. /\ hold' \in [Threads -> Packets \union {NoPacket}]
      /\ \A u \in Threads : hold'[u] = IF u = t THEN NoPacket ELSE hold[u]
      /\ \A x \in Packets : Held(x)' => Held(x)
  BY ReleaseFacts
<1>5. TypeOK'
  BY <1>3, <1>4 DEF TypeOK
<1>6. /\ \A q \in OwnerQueues : Slots(q)' = IF q = k THEN Slots(q) \union {p} ELSE Slots(q)
      /\ \A u \in Threads : Slots(MsgQ(u))' = Slots(MsgQ(u))
  BY <1>3, QueueFacts
<1>7. InUse' = InUse /\ PoolPartition'
  BY DEF InUse, PoolPartition
<1>8. OneOwner'
  <2>1. \A u \in Threads, q \in OwnerQueues : hold'[u] \notin Slots(q)'
    <3>1. NoPacket \notin Packets /\ \A q \in OwnerQueues : NoPacket \notin Slots(q)
      BY PacketsAssumption, SlotsType, QueueFacts
    <3> QED BY <1>4, <1>6, <3>1 DEF OneOwner
  <2> QED BY <1>2, <1>4, <1>6, <2>1 DEF OneOwner
<1>9. OpenedHasNoOwner'
  <2>1. SUFFICES ASSUME NEW x \in InUse, open[x]
                 PROVE  ~Held(x)' /\ \A q \in OwnerQueues : x \notin Slots(q)'
    BY <1>7 DEF OpenedHasNoOwner
  <2>2. x \in Packets /\ x # p /\ ~Held(x) /\ \A q \in OwnerQueues : x \notin Slots(q)
    BY <2>1, <1>2 DEF OpenedHasNoOwner, InUse, TypeOK
  <2> QED BY <2>2, <1>4, <1>6
<1>10. DeliveringOne' /\ \A x : AtHand(x)' = AtHand(x)
  BY DEF DeliveringOne, AtHand, Delivering, CurrentQ
<1>11. ListedWhileOwned'
  BY <1>4, <1>6, <1>10 DEF ListedWhileOwned, TypeOK
<1>12. RefCount'
  BY <1>6 DEF RefCount, Holders
<1>13. NoUseAfterRecycle' /\ FreedOnce'
  <2>1. NoUseAfterRecycle'
    <3>1. \A x \in Packets : Listed(x)' => Listed(x) \/ x = p
      BY <1>3 DEF Listed
    <3> QED BY <1>2, <1>4, <1>7, <3>1 DEF NoUseAfterRecycle
  <2>2. FreedOnce'
    BY <1>7 DEF FreedOnce
  <2> QED BY <2>1, <2>2
<1> QED BY <1>3, <1>5, <1>7, <1>8, <1>9, <1>10, <1>11, <1>12, <1>13

\* The packet at hand is owned by ThreadMgr.
LEMMA AtHandOwned ==
    ASSUME IInv, NEW p, AtHand(p)
    PROVE  /\ CurrentQ \in {CreateQ, PacketsQ} /\ CurrentQ \in OwnerQueues
           /\ p \in Slots(CurrentQ) /\ p \in Packets /\ ~Held(p) /\ ~open[p]
           /\ p \in InUse /\ removes[p] = 0
<1> USE DEF IInv
<1>1. CurrentQ \in {CreateQ, PacketsQ} /\ CurrentQ \in OwnerQueues /\ CurrentQ \in Queues
  BY QueueFacts DEF CurrentQ
<1>2. reader[CurrentQ] \in Seq(Packets) /\ reader[CurrentQ] # <<>>
  BY <1>1 DEF TypeOK, DeliveringOne, AtHand
<1>3. p \in Range(reader[CurrentQ])
  BY <1>2, TailRange DEF AtHand
<1>4. p \in Slots(CurrentQ) /\ p \in Packets /\ Listed(p)
  BY <1>1, <1>3, SlotsType DEF Slots, Listed
<1>5. ~Held(p)
  BY <1>1, <1>4 DEF OneOwner, Held
<1>6. p \in InUse /\ removes[p] = 0
  BY <1>4 DEF NoUseAfterRecycle
<1>7. ~open[p]
  BY <1>1, <1>4, <1>6 DEF OpenedHasNoOwner
<1> QED BY <1>1, <1>4, <1>5, <1>6, <1>7

\* The owner lets go of a packet; the packet is freed only if nobody has it.
LEMMA LetGo ==
    ASSUME IInv, TypeOK', ListsDistinct', MainSteady,
           \A q \in OwnerQueues : Slots(q)' \subseteq Slots(q),
           \A t \in Threads : Slots(MsgQ(t))' = Slots(MsgQ(t)),
           \A t \in Threads : \/ hold'[t] = hold[t]
                              \/ hold'[t] = NoPacket /\ msg[hold[t]].type # "close",
           UNCHANGED <<heap, free, adds, objs, ref, open, msg>>,
           \A x \in Packets :
              \/ removes'[x] = removes[x]
              \/ removes'[x] = 1 /\ x \in InUse /\ ~Listed(x)' /\ ~Held(x)'
    PROVE  IInv'
<1> USE DEF IInv
<1>1. InUse' = InUse /\ PoolPartition'
  BY DEF InUse, PoolPartition
<1>2. \A x \in Packets : Held(x)' => Held(x)
  BY PacketsAssumption DEF Held
<1>3. \A x \in Packets : Listed(x)' => Listed(x)
  <2>1. \A q \in Queues : Slots(q)' \subseteq Slots(q)
    BY QueueFacts
  <2> QED BY <2>1 DEF Listed
<1>4. OneOwner'
  <2>1. \A q \in OwnerQueues : NoPacket \notin Slots(q)'
    BY PacketsAssumption, SlotsType, QueueFacts
  <2>2. \A t \in Threads, q \in OwnerQueues : hold'[t] \notin Slots(q)'
    BY <2>1 DEF OneOwner
  <2> QED BY <2>2 DEF OneOwner
<1>5. OpenedHasNoOwner'
  <2>1. SUFFICES ASSUME NEW x \in InUse, open[x]
                 PROVE  ~Held(x)' /\ \A q \in OwnerQueues : x \notin Slots(q)'
    BY <1>1 DEF OpenedHasNoOwner
  <2>2. x \in Packets /\ ~Held(x) /\ \A q \in OwnerQueues : x \notin Slots(q)
    BY <2>1 DEF OpenedHasNoOwner, InUse, TypeOK
  <2> QED BY <2>2, <1>2
<1>6. DeliveringOne' /\ \A p : AtHand(p) => AtHand(p)' /\ todo' = todo
  BY SteadyFacts
<1>7. ListedWhileOwned'
  BY <1>6 DEF ListedWhileOwned
<1>8. RefCount'
  BY DEF RefCount, Holders
<1>9. NoUseAfterRecycle'
  BY <1>1, <1>2, <1>3 DEF NoUseAfterRecycle
<1>10. FreedOnce'
  BY <1>1 DEF FreedOnce
<1> QED BY <1>1, <1>4, <1>5, <1>6, <1>7, <1>8, <1>9, <1>10

\* FreeObject for a packet in use whose sn is not in _removes.
LEMMA FreeFacts ==
    ASSUME TypeOK, NEW p \in InUse, removes[p] = 0, FreeObject(p)
    PROVE  /\ removes' \in [Packets -> Nat]
           /\ \A x \in Packets : removes'[x] = IF x = p THEN 1 ELSE removes[x]
BY DEF FreeObject, TypeOK, InUse

\* ConnectObj::Recv drops a ping.
LEMMA RecvPingStep ==
    ASSUME IInv, NEW t \in Threads, RecvPing(t) PROVE IInv'
<1> USE DEF IInv, poolVars, cacheVars, loopVars
<1>1. TypeOK' /\ ListsDistinct'
  BY ReleaseFacts DEF RecvPing, TypeOK, ListsDistinct
<1>2. \A q : Slots(q)' = Slots(q)
  BY DEF RecvPing, Slots
<1>3. \A u \in Threads : \/ hold'[u] = hold[u]
                         \/ hold'[u] = NoPacket /\ msg[hold[u]].type # "close"
  BY ReleaseFacts DEF RecvPing, Holds
<1>4. MainSteady
  BY DEF RecvPing, MainSteady, Delivering, CurrentQ
<1> QED BY <1>1, <1>2, <1>3, <1>4, LetGo DEF RecvPing

\* ConnectObj::Recv frees a bad request.
LEMMA RecvBadStep ==
    ASSUME IInv, NEW t \in Threads, RecvBad(t) PROVE IInv'
<1> USE DEF IInv, poolVars, cacheVars, loopVars
<1>0. PICK p \in Packets : p = hold[t]
  BY DEF RecvBad, Holds, TypeOK
<1>1. /\ p \in Packets /\ Held(p) /\ p \in InUse /\ removes[p] = 0 /\ ~open[p]
      /\ msg[p].type = "bad"
      /\ \A q \in OwnerQueues : p \notin Slots(q)
      /\ \A u \in Threads : hold[u] = p => u = t
  BY <1>0 DEF RecvBad, Holds, TypeOK, Held, NoUseAfterRecycle, OpenedHasNoOwner, OneOwner
<1>2. /\ removes' \in [Packets -> Nat]
      /\ \A x \in Packets : removes'[x] = IF x = p THEN 1 ELSE removes[x]
  BY <1>0, <1>1, FreeFacts DEF RecvBad
<1>3. /\ hold' \in [Threads -> Packets \union {NoPacket}]
      /\ \A u \in Threads : hold'[u] = IF u = t THEN NoPacket ELSE hold[u]
  BY ReleaseFacts DEF RecvBad
<1>4. TypeOK' /\ ListsDistinct'
  BY <1>2, <1>3 DEF RecvBad, TypeOK, ListsDistinct
<1>5. \A q : Slots(q)' = Slots(q)
  BY DEF RecvBad, Slots
<1>6. \A u \in Threads : \/ hold'[u] = hold[u]
                         \/ hold'[u] = NoPacket /\ msg[hold[u]].type # "close"
  BY <1>0, <1>1, <1>3
<1>7. MainSteady
  BY DEF RecvBad, MainSteady, Delivering, CurrentQ
<1>8. ~Held(p)'
  BY <1>1, <1>3, PacketsAssumption DEF Held
<1>9. ~AtHand(p)
  BY <1>1, AtHandOwned
<1>10. \A u \in Threads : p \notin Slots(MsgQ(u))
  BY <1>1, <1>9 DEF ListedWhileOwned
<1>11. ~Listed(p)'
  BY <1>1, <1>5, <1>10, QueueFacts DEF Listed
<1>12. \A x \in Packets : \/ removes'[x] = removes[x]
                          \/ removes'[x] = 1 /\ x \in InUse /\ ~Listed(x)' /\ ~Held(x)'
  BY <1>1, <1>2, <1>8, <1>11
<1>13. UNCHANGED <<heap, free, adds, objs, ref, open, msg>>
  BY DEF RecvBad
<1> QED BY <1>4, <1>5, <1>6, <1>7, <1>12, <1>13, LetGo

\* The head of a list that is being walked is a packet in use.
LEMMA HeadFacts ==
    ASSUME IInv, NEW q \in Queues, reader[q] # <<>>
    PROVE  /\ Head(reader[q]) \in Packets /\ Head(reader[q]) \in Slots(q)
           /\ Listed(Head(reader[q]))
           /\ Head(reader[q]) \in InUse /\ removes[Head(reader[q])] = 0
<1> USE DEF IInv
<1>1. reader[q] \in Seq(Packets)
  BY DEF TypeOK
<1>2. Head(reader[q]) \in Slots(q)
  BY <1>1, TailRange DEF Slots
<1>3. Head(reader[q]) \in Packets
  BY <1>2, SlotsType
<1>4. Listed(Head(reader[q]))
  BY <1>2 DEF Listed
<1> QED BY <1>2, <1>3, <1>4 DEF NoUseAfterRecycle

\* Network::OnNetworkUpdate frees the packet it has sent or refused.
LEMMA NetworkSendStep ==
    ASSUME IInv, NEW t \in NetThreads, NetworkSend(t) PROVE IInv'
<1> USE DEF IInv, poolVars, cacheVars, loopVars
<1>0. SendQ(t) \in OwnerQueues /\ SendQ(t) \in Queues /\ SendQ(t) \notin {PacketsQ, CreateQ}
  BY QueueFacts
<1>1. PICK p \in Packets : p = Head(reader[SendQ(t)])
  BY <1>0, HeadFacts DEF NetworkSend
<1>2. p \in Slots(SendQ(t)) /\ p \in InUse /\ removes[p] = 0
  BY <1>0, <1>1, HeadFacts DEF NetworkSend
<1>3. /\ ~open[p] /\ ~Held(p)
      /\ \A q \in OwnerQueues : q # SendQ(t) => p \notin Slots(q)
  BY <1>0, <1>2 DEF OpenedHasNoOwner, OneOwner, Held
<1>4. ~AtHand(p)
  BY <1>0, <1>3, AtHandOwned
<1>5. \A u \in Threads : p \notin Slots(MsgQ(u))
  BY <1>3, <1>4 DEF ListedWhileOwned, Held
<1>6. /\ removes' \in [Packets -> Nat]
      /\ \A x \in Packets : removes'[x] = IF x = p THEN 1 ELSE removes[x]
  BY <1>1, <1>2, FreeFacts DEF NetworkSend
<1>7. /\ reader' \in [Queues -> Seq(Packets)] /\ ListsDistinct'
      /\ \A q \in Queues : Slots(q)' = IF q = SendQ(t) THEN Slots(q) \ {p} ELSE Slots(q)
      /\ \A q \in Queues : q # SendQ(t) => reader'[q] = reader[q]
  BY <1>0, <1>1, AdvanceFacts DEF NetworkSend
<1>8. TypeOK'
  BY <1>6, <1>7 DEF NetworkSend, TypeOK
<1>9. MainSteady
  BY <1>0, <1>7, QueueFacts DEF NetworkSend, MainSteady, Delivering, CurrentQ
<1>10. /\ \A q \in OwnerQueues : Slots(q)' \subseteq Slots(q)
       /\ \A u \in Threads : Slots(MsgQ(u))' = Slots(MsgQ(u))
  BY <1>0, <1>7, QueueFacts
<1>11. ~Listed(p)'
  BY <1>3, <1>5, <1>7, QueueFacts DEF Listed
<1>12. ~Held(p)'
  BY <1>3 DEF Held, NetworkSend
<1>13. \A x \in Packets : \/ removes'[x] = removes[x]
                          \/ removes'[x] = 1 /\ x \in InUse /\ ~Listed(x)' /\ ~Held(x)'
  BY <1>2, <1>6, <1>11, <1>12
<1>14. UNCHANGED <<heap, free, adds, objs, ref, open, msg, hold>>
  BY DEF NetworkSend
<1> QED BY <1>7, <1>8, <1>9, <1>10, <1>13, <1>14, LetGo

\* ThreadMgr::UpdateCreatePacket skips a packet for an unknown thread type.
LEMMA CreateUnknownStep ==
    ASSUME IInv, CreateUnknown PROVE IInv'
<1> USE DEF IInv, poolVars, cacheVars, loopVars
<1>1. /\ reader' \in [Queues -> Seq(Packets)] /\ ListsDistinct'
      /\ \A q \in Queues : Slots(q)' = IF q = CreateQ
                                       THEN Slots(q) \ {Head(reader[CreateQ])} ELSE Slots(q)
  BY QueueFacts, AdvanceFacts DEF CreateUnknown
<1>2. TypeOK'
  BY <1>1 DEF CreateUnknown, TypeOK
<1>3. MainSteady
  BY DEF CreateUnknown, MainSteady, Delivering
<1>4. /\ \A q \in OwnerQueues : Slots(q)' \subseteq Slots(q)
      /\ \A u \in Threads : Slots(MsgQ(u))' = Slots(MsgQ(u))
  BY <1>1, QueueFacts
<1>5. UNCHANGED <<heap, free, adds, objs, removes, ref, open, msg, hold>>
  BY DEF CreateUnknown
<1> QED BY <1>1, <1>2, <1>3, <1>4, <1>5, LetGo

\* Goto is typed.
LEMMA GotoFacts ==
    ASSUME TypeOK, NEW t \in Threads, NEW l \in MainPcs \union ThreadPcs, Goto(t, l)
    PROVE  /\ pc' \in [Threads -> MainPcs \union ThreadPcs]
           /\ emitted' \in [Threads -> Nat]
           /\ pc'[t] = l /\ \A u \in Threads : u # t => pc'[u] = pc[u]
BY DEF TypeOK, Goto

\* A thread has processed the head of its list.
LEMMA MessageDoneStep ==
    ASSUME IInv, NEW t \in Threads, MessageDone(t) PROVE IInv'
<1> USE DEF IInv, poolVars, cacheVars, loopVars
<1>0. MsgQ(t) \in Queues /\ MsgQ(t) \notin OwnerQueues /\ reader[MsgQ(t)] # <<>>
  BY QueueFacts DEF MessageDone
<1>1. PICK p \in Packets : p = Head(reader[MsgQ(t)])
  BY <1>0, HeadFacts
<1>2. p \in Slots(MsgQ(t)) /\ p \in InUse
  BY <1>0, <1>1, HeadFacts
<1>3. /\ reader' \in [Queues -> Seq(Packets)] /\ ListsDistinct'
      /\ \A q \in Queues : Slots(q)' = IF q = MsgQ(t) THEN Slots(q) \ {p} ELSE Slots(q)
      /\ \A q \in Queues : q # MsgQ(t) => reader'[q] = reader[q]
  BY <1>0, <1>1, AdvanceFacts DEF MessageDone
<1>4. /\ \A q \in OwnerQueues : Slots(q)' = Slots(q)
      /\ \A u \in Threads : Slots(MsgQ(u))' = IF u = t THEN Slots(MsgQ(u)) \ {p}
                                                       ELSE Slots(MsgQ(u))
  BY <1>0, <1>3, QueueFacts
<1>5. /\ ref' \in [Packets -> Int]
      /\ \A x \in Packets : ref'[x] = IF x = p THEN ref[p] - 1 ELSE ref[x]
  BY <1>1 DEF MessageDone, RemoveRef, TypeOK
<1>6. UNCHANGED <<heap, free, adds, objs, removes, open, msg, hold, writer, todo, next>>
  BY DEF MessageDone
<1>7. /\ pc' \in [Threads -> MainPcs \union ThreadPcs] /\ emitted' \in [Threads -> Nat]
      /\ pc' = pc
  <2>1. "proc" \in MainPcs \union ThreadPcs /\ pc[t] = "proc" /\ Goto(t, "proc")
    BY DEF ThreadPcs, MessageDone
  <2> QED BY <2>1, GotoFacts DEF TypeOK, Goto
<1>8. TypeOK'
  BY <1>3, <1>5, <1>6, <1>7 DEF TypeOK
<1>9. MainSteady
  BY <1>0, <1>3, <1>6, <1>7, QueueFacts DEF MainSteady, Delivering, CurrentQ
<1>10. DeliveringOne' /\ \A x : AtHand(x) => AtHand(x)' /\ todo' = todo
  BY <1>9, SteadyFacts
<1>11. InUse' = InUse /\ PoolPartition' /\ \A x : Held(x)' = Held(x)
  BY <1>6 DEF InUse, PoolPartition, Held
<1>12. OneOwner' /\ OpenedHasNoOwner'
  BY <1>4, <1>6, <1>11 DEF OneOwner, OpenedHasNoOwner
<1>13. ListedWhileOwned'
  BY <1>4, <1>6, <1>10 DEF ListedWhileOwned
<1>14. RefCount'
  <2>1. SUFFICES ASSUME NEW x \in Packets PROVE ref'[x] = Cardinality(Holders(x)')
    BY DEF RefCount
  <2>2. CASE x = p
    <3>1. Holders(p)' = Holders(p) \ {t} /\ t \in Holders(p)
      BY <1>2, <1>4 DEF Holders
    <3>2. Cardinality(Holders(p)') = Cardinality(Holders(p)) - 1
      BY <3>1, HoldersFinite, FS_RemoveElement
    <3> QED BY <2>2, <3>2, <1>5 DEF RefCount
  <2>3. CASE x # p
    <3>1. Holders(x)' = Holders(x)
      BY <2>3, <1>4 DEF Holders
    <3> QED BY <2>3, <3>1, <1>5 DEF RefCount
  <2> QED BY <2>2, <2>3
<1>15. NoUseAfterRecycle'
  <2>1. \A x \in Packets : Listed(x)' => Listed(x)
    BY <1>3 DEF Listed
  <2> QED BY <2>1, <1>6, <1>11 DEF NoUseAfterRecycle
<1>16. FreedOnce'
  BY <1>6, <1>11 DEF FreedOnce
<1> QED BY <1>3, <1>8, <1>10, <1>11, <1>12, <1>13, <1>14, <1>15, <1>16

\* MessageSystem::AddPacketToList with a packet that is in use and not in the
\* list yet: the count follows the list.
LEMMA AddFacts ==
    ASSUME IInv, NEW t \in Threads, NEW p \in Packets, p \notin Slots(MsgQ(t)),
           p \in InUse, removes[p] = 0, AddPacketToList(t, p),
           UNCHANGED <<poolVars, open, msg, reader, hold>>
    PROVE  /\ writer' \in [Queues -> Seq(Packets)] /\ ref' \in [Packets -> Int]
           /\ PoolPartition' /\ ListsDistinct' /\ OneOwner' /\ OpenedHasNoOwner'
           /\ RefCount' /\ NoUseAfterRecycle' /\ FreedOnce'
           /\ \A u \in Threads : Slots(MsgQ(u))' = IF u = t THEN Slots(MsgQ(u)) \union {p}
                                                            ELSE Slots(MsgQ(u))
<1> USE DEF IInv, poolVars
<1>0. MsgQ(t) \in Queues /\ MsgQ(t) \notin OwnerQueues
  BY QueueFacts
<1>1. /\ writer' \in [Queues -> Seq(Packets)] /\ ListsDistinct'
      /\ \A q \in Queues : Slots(q)' = IF q = MsgQ(t) THEN Slots(q) \union {p} ELSE Slots(q)
  BY <1>0, EmplaceFacts DEF AddPacketToList
<1>2. /\ \A q \in OwnerQueues : Slots(q)' = Slots(q)
      /\ \A u \in Threads : Slots(MsgQ(u))' = IF u = t THEN Slots(MsgQ(u)) \union {p}
                                                       ELSE Slots(MsgQ(u))
  BY <1>0, <1>1, QueueFacts
<1>3. /\ ref' \in [Packets -> Int]
      /\ \A x \in Packets : ref'[x] = IF x = p THEN ref[p] + 1 ELSE ref[x]
  BY DEF AddPacketToList, AddRef, TypeOK
<1>4. InUse' = InUse /\ PoolPartition' /\ \A x : Held(x)' = Held(x)
  BY DEF InUse, PoolPartition, Held
<1>5. OneOwner' /\ OpenedHasNoOwner'
  BY <1>2, <1>4 DEF OneOwner, OpenedHasNoOwner
<1>6. RefCount'
  <2>1. SUFFICES ASSUME NEW x \in Packets PROVE ref'[x] = Cardinality(Holders(x)')
    BY DEF RefCount
  <2>2. CASE x = p
    <3>1. Holders(p)' = Holders(p) \union {t} /\ t \notin Holders(p)
      BY <1>2 DEF Holders
    <3>2. Cardinality(Holders(p)') = Cardinality(Holders(p)) + 1
      BY <3>1, HoldersFinite, FS_AddElement
    <3> QED BY <2>2, <3>2, <1>3 DEF RefCount
  <2>3. CASE x # p
    <3>1. Holders(x)' = Holders(x)
      BY <2>3, <1>2 DEF Holders
    <3> QED BY <2>3, <3>1, <1>3 DEF RefCount
  <2> QED BY <2>2, <2>3
<1>7. NoUseAfterRecycle'
  <2>1. \A x \in Packets : Listed(x)' => Listed(x) \/ x = p
    BY <1>1 DEF Listed
  <2> QED BY <2>1, <1>4 DEF NoUseAfterRecycle
<1>8. FreedOnce'
  BY <1>4 DEF FreedOnce
<1> QED BY <1>1, <1>2, <1>3, <1>4, <1>5, <1>6, <1>7, <1>8

\* ConnectObj::Close adds its packet to the list of its own thread.
LEMMA ClosePostStep ==
    ASSUME IInv, NEW t \in Threads, ClosePost(t) PROVE IInv'
<1> USE DEF IInv, poolVars, cacheVars, loopVars
<1>1. PICK p \in Packets : p = hold[t]
  BY DEF ClosePost, Holds, TypeOK
<1>2. /\ p \in InUse /\ removes[p] = 0 /\ p \notin Slots(MsgQ(t)) /\ msg[p].type = "close"
      /\ AddPacketToList(t, p)
  BY <1>1 DEF ClosePost, Holds, NoUseAfterRecycle, Held
<1>3. UNCHANGED <<heap, free, adds, objs, removes, open, msg, reader, pc, hold, emitted, todo, next>>
  BY DEF ClosePost
<1>4. /\ writer' \in [Queues -> Seq(Packets)] /\ ref' \in [Packets -> Int]
      /\ PoolPartition' /\ ListsDistinct' /\ OneOwner' /\ OpenedHasNoOwner'
      /\ RefCount' /\ NoUseAfterRecycle' /\ FreedOnce'
      /\ \A u \in Threads : Slots(MsgQ(u))' = IF u = t THEN Slots(MsgQ(u)) \union {p}
                                                       ELSE Slots(MsgQ(u))
  BY <1>2, <1>3, AddFacts
<1>5. TypeOK'
  BY <1>3, <1>4 DEF TypeOK
<1>6. DeliveringOne' /\ \A x : AtHand(x)' = AtHand(x)
  BY <1>3 DEF DeliveringOne, AtHand, Delivering, CurrentQ
<1>7. ListedWhileOwned'
  BY <1>1, <1>2, <1>3, <1>4, <1>6 DEF ListedWhileOwned
<1> QED BY <1>4, <1>5, <1>6, <1>7

\* ThreadMgr adds the packet at hand to the list of one more thread.
LEMMA DeliverStep ==
    ASSUME IInv, Deliver PROVE IInv'
<1> USE DEF IInv, poolVars, cacheVars, loopVars
<1>1. PICK t \in todo : /\ AddPacketToList(t, Head(reader[CurrentQ]))
                        /\ todo' = todo \ {t}
  BY DEF Deliver
<1>2. /\ Delivering
      /\ UNCHANGED <<heap, free, adds, objs, removes, open, msg, reader, pc, hold, emitted, next>>
  BY DEF Deliver
<1>3. AtHand(Head(reader[CurrentQ]))
  BY <1>2 DEF AtHand
<1>4. PICK p \in Packets : p = Head(reader[CurrentQ]) /\ AtHand(p)
  BY <1>3, AtHandOwned
<1>5. p \in InUse /\ removes[p] = 0 /\ ~Held(p) /\ ~open[p] /\ t \in Threads
  BY <1>4, AtHandOwned DEF TypeOK
<1>6. p \notin Slots(MsgQ(t))
  BY <1>5 DEF ListedWhileOwned, Held
<1>7. /\ writer' \in [Queues -> Seq(Packets)] /\ ref' \in [Packets -> Int]
      /\ PoolPartition' /\ ListsDistinct' /\ OneOwner' /\ OpenedHasNoOwner'
      /\ RefCount' /\ NoUseAfterRecycle' /\ FreedOnce'
      /\ \A u \in Threads : Slots(MsgQ(u))' = IF u = t THEN Slots(MsgQ(u)) \union {p}
                                                       ELSE Slots(MsgQ(u))
  BY <1>1, <1>2, <1>4, <1>5, <1>6, AddFacts
<1>8. TypeOK'
  BY <1>1, <1>2, <1>7 DEF TypeOK
<1>9. DeliveringOne' /\ \A x : AtHand(x)' = AtHand(x)
  BY <1>2 DEF DeliveringOne, AtHand, Delivering, CurrentQ
<1>10. ListedWhileOwned'
  BY <1>1, <1>2, <1>4, <1>7, <1>9 DEF ListedWhileOwned
<1> QED BY <1>7, <1>8, <1>9, <1>10

\* What OpenRef does.
LEMMA OpenFacts ==
    ASSUME TypeOK, NEW p \in Packets, OpenRef(p)
    PROVE  /\ open' \in [Packets -> BOOLEAN]
           /\ \A x \in Packets : open'[x] = IF x = p THEN TRUE ELSE open[x]
BY DEF TypeOK, OpenRef

\* The owner opens its packet and lets go of it.
LEMMA OpenAndLetGo ==
    ASSUME IInv, TypeOK', ListsDistinct', DeliveringOne', NEW p \in Packets,
           \A q \in OwnerQueues : Slots(q)' \subseteq Slots(q) /\ p \notin Slots(q)',
           \A t \in Threads : Slots(MsgQ(t))' = Slots(MsgQ(t)),
           \A t \in Threads : \/ hold'[t] = hold[t] /\ hold[t] # p
                              \/ hold'[t] = NoPacket /\ hold[t] = p,
           OpenRef(p),
           UNCHANGED <<poolVars, ref, msg>>,
           \A x \in Packets : x # p /\ AtHand(x) => AtHand(x)' /\ todo' = todo
    PROVE  IInv'
<1> USE DEF IInv, poolVars
<1>1. InUse' = InUse /\ PoolPartition'
  BY DEF InUse, PoolPartition
<1>2. \A x \in Packets : Held(x)' => Held(x) /\ x # p
  BY PacketsAssumption DEF Held
<1>3. \A x \in Packets : Listed(x)' => Listed(x)
  <2>1. \A q \in Queues : Slots(q)' \subseteq Slots(q)
    BY QueueFacts
  <2> QED BY <2>1 DEF Listed
<1>4. OneOwner'
  <2>1. \A q \in OwnerQueues : NoPacket \notin Slots(q)'
    BY PacketsAssumption, SlotsType, QueueFacts
  <2>2. \A t \in Threads, q \in OwnerQueues : hold'[t] \notin Slots(q)'
    BY <2>1 DEF OneOwner
  <2> QED BY <2>2 DEF OneOwner
<1>5. \A x \in Packets : open'[x] = IF x = p THEN TRUE ELSE open[x]
  BY OpenFacts
<1>6. OpenedHasNoOwner'
  <2>1. SUFFICES ASSUME NEW x \in InUse, open'[x]
                 PROVE  ~Held(x)' /\ \A q \in OwnerQueues : x \notin Slots(q)'
    BY <1>1 DEF OpenedHasNoOwner
  <2>2. x \in Packets
    BY DEF InUse, TypeOK
  <2>3. CASE x = p
    BY <2>2, <2>3, <1>2
  <2>4. CASE x # p
    <3>1. ~Held(x) /\ \A q \in OwnerQueues : x \notin Slots(q)
      BY <2>1, <2>2, <2>4, <1>5 DEF OpenedHasNoOwner
    <3> QED BY <2>2, <3>1, <1>2
  <2> QED BY <2>3, <2>4
<1>7. ListedWhileOwned'
  <2>1. SUFFICES ASSUME NEW t \in Threads, NEW x \in Slots(MsgQ(t))
                 PROVE  \/ open'[x]
                        \/ AtHand(x)' /\ t \notin todo'
                        \/ hold'[t] = x /\ msg'[x].type = "close"
    BY DEF ListedWhileOwned
  <2>2. x \in Packets
    BY SlotsType, QueueFacts
  <2>3. CASE x = p
    BY <2>3, <1>5
  <2>4. CASE x # p
    BY <2>2, <2>4, <1>5 DEF ListedWhileOwned
  <2> QED BY <2>3, <2>4
<1>8. RefCount'
  BY DEF RefCount, Holders
<1>9. NoUseAfterRecycle'
  BY <1>1, <1>2, <1>3 DEF NoUseAfterRecycle
<1>10. FreedOnce'
  BY <1>1 DEF FreedOnce
<1> QED BY <1>1, <1>4, <1>6, <1>7, <1>8, <1>9, <1>10

\* ConnectObj::Close opens its packet.
LEMMA CloseOpenStep ==
    ASSUME IInv, NEW t \in Threads, CloseOpen(t) PROVE IInv'
<1> USE DEF IInv, poolVars, cacheVars, loopVars
<1>1. PICK p \in Packets : p = hold[t] /\ OpenRef(p)
  BY DEF CloseOpen, Holds, TypeOK
<1>2. UNCHANGED <<heap, free, adds, objs, removes, ref, msg, writer, reader, pc, emitted, todo, next>>
  BY DEF CloseOpen
<1>3. /\ hold' \in [Threads -> Packets \union {NoPacket}]
      /\ \A u \in Threads : hold'[u] = IF u = t THEN NoPacket ELSE hold[u]
  BY ReleaseFacts DEF CloseOpen
<1>4. TypeOK'
  BY <1>1, <1>2, <1>3, OpenFacts DEF TypeOK
<1>5. ListsDistinct' /\ \A q : Slots(q)' = Slots(q)
  BY <1>2 DEF ListsDistinct, Slots
<1>6. DeliveringOne' /\ \A x : AtHand(x)' = AtHand(x)
  BY <1>2 DEF DeliveringOne, AtHand, Delivering, CurrentQ
<1>7. \A q \in OwnerQueues : p \notin Slots(q)
  BY <1>1 DEF OneOwner
<1>8. \A u \in Threads : \/ hold'[u] = hold[u] /\ hold[u] # p
                         \/ hold'[u] = NoPacket /\ hold[u] = p
  BY <1>1, <1>3, PacketsAssumption DEF OneOwner
<1> QED BY <1>1, <1>2, <1>4, <1>5, <1>6, <1>7, <1>8, OpenAndLetGo

\* ThreadMgr opens the packet at hand and moves on to the next one.
LEMMA DeliverEndStep ==
    ASSUME IInv, DeliverEnd PROVE IInv'
<1> USE DEF IInv, poolVars, cacheVars, loopVars
<1>0. AtHand(Head(reader[CurrentQ])) /\ reader[CurrentQ] # <<>>
  BY DEF DeliverEnd, AtHand, DeliveringOne
<1>1. PICK p \in Packets : p = Head(reader[CurrentQ]) /\ AtHand(p)
  BY <1>0, AtHandOwned
<1>2. PICK k \in OwnerQueues : k = CurrentQ /\ k \in Queues
  BY <1>1, AtHandOwned, QueueFacts
<1>3. p \in Slots(k) /\ ~Held(p)
  BY <1>1, <1>2, AtHandOwned
<1>4. OpenRef(p) /\ Advance(k) /\ reader[k] # <<>> /\ p = Head(reader[k])
  BY <1>0, <1>1, <1>2 DEF DeliverEnd
<1>5. UNCHANGED <<heap, free, adds, objs, removes, ref, msg, writer, hold, todo, next>>
  BY DEF DeliverEnd
<1>6. /\ reader' \in [Queues -> Seq(Packets)] /\ ListsDistinct'
      /\ \A q \in Queues : Slots(q)' = IF q = k THEN Slots(q) \ {p} ELSE Slots(q)
  BY <1>2, <1>4, <1>5, AdvanceFacts
<1>7. PICK l \in {"creating", "dispatching"} : Goto(Main, l)
  BY DEF DeliverEnd
<1>8. /\ pc' \in [Threads -> MainPcs \union ThreadPcs] /\ emitted' \in [Threads -> Nat]
      /\ pc'[Main] = l
  <2>1. l \in MainPcs \union ThreadPcs /\ Main \in Threads
    BY QueueFacts DEF MainPcs
  <2> QED BY <2>1, <1>7, GotoFacts
<1>9. TypeOK'
  BY <1>4, <1>5, <1>6, <1>8, OpenFacts DEF TypeOK
<1>10. DeliveringOne'
  BY <1>8 DEF DeliveringOne, Delivering
<1>11. \A q \in OwnerQueues : Slots(q)' \subseteq Slots(q) /\ p \notin Slots(q)'
  BY <1>3, <1>6, QueueFacts DEF OneOwner
<1>12. \A u \in Threads : Slots(MsgQ(u))' = Slots(MsgQ(u))
  BY <1>6, QueueFacts
<1>13. \A u \in Threads : hold'[u] = hold[u] /\ hold[u] # p
  BY <1>3, <1>5 DEF Held
<1>14. \A x \in Packets : x # p => ~AtHand(x)
  BY <1>1 DEF AtHand
<1> QED BY <1>4, <1>5, <1>6, <1>9, <1>10, <1>11, <1>12, <1>13, <1>14, OpenAndLetGo

\* DynamicPacketPool::MallocPacket hands out a packet nobody has.
LEMMA MallocStep ==
    ASSUME IInv, NEW t \in Threads, NEW m \in Msgs, Malloc(t, m) PROVE IInv'
<1> USE DEF IInv, poolVars, cacheVars, loopVars
<1>1. PICK grown \in SUBSET heap : \E p \in free \union grown :
          /\ free' = (free \union grown) \ {p}
          /\ heap' = heap \ grown
          /\ adds' = adds \union {p}
          /\ ref' = [ref EXCEPT ![p] = 0]
          /\ open' = [open EXCEPT ![p] = FALSE]
          /\ msg' = [msg EXCEPT ![p] = m]
          /\ hold' = [hold EXCEPT ![t] = p]
  BY DEF Malloc
<1>1a. PICK p \in free \union grown :
          /\ free' = (free \union grown) \ {p}
          /\ heap' = heap \ grown
          /\ adds' = adds \union {p}
          /\ ref' = [ref EXCEPT ![p] = 0]
          /\ open' = [open EXCEPT ![p] = FALSE]
          /\ msg' = [msg EXCEPT ![p] = m]
          /\ hold' = [hold EXCEPT ![t] = p]
  BY <1>1
<1>2. /\ emitted' = [emitted EXCEPT ![t] = @ + 1] /\ hold[t] = NoPacket
      /\ UNCHANGED <<objs, removes, writer, reader, pc, todo, next>>
  BY DEF Malloc
<1>3. p \in Packets /\ p \notin InUse
  BY <1>1a DEF TypeOK, PoolPartition
<1>4. ~Listed(p) /\ ~Held(p) /\ removes[p] = 0
  <2>1. removes[p] \in Nat
    BY <1>3 DEF TypeOK
  <2> QED BY <1>3, <2>1 DEF NoUseAfterRecycle, FreedOnce
<1>5. /\ \A q \in Queues : p \notin Slots(q)
      /\ \A q \in OwnerQueues : p \notin Slots(q)
      /\ \A u \in Threads : p \notin Slots(MsgQ(u)) /\ hold[u] # p
  BY <1>4, QueueFacts DEF Listed, Held
<1>6. /\ hold' \in [Threads -> Packets \union {NoPacket}]
      /\ \A u \in Threads : hold'[u] = IF u = t THEN p ELSE hold[u]
  BY <1>1a, <1>3 DEF TypeOK
<1>7. /\ ref' \in [Packets -> Int] /\ open' \in [Packets -> BOOLEAN]
      /\ msg' \in [Packets -> Msgs \union {NoMsg}]
      /\ \A x \in Packets : /\ ref'[x] = IF x = p THEN 0 ELSE ref[x]
                            /\ open'[x] = IF x = p THEN FALSE ELSE open[x]
                            /\ x # p => msg'[x] = msg[x]
  BY <1>1a, <1>3 DEF TypeOK
<1>8. TypeOK'
  BY <1>1a, <1>2, <1>3, <1>6, <1>7 DEF TypeOK
<1>9. ListsDistinct' /\ \A q : Slots(q)' = Slots(q)
  BY <1>2 DEF ListsDistinct, Slots
<1>10. InUse' = InUse \union {p}
  BY <1>1a, <1>2 DEF InUse
<1>11. PoolPartition'
  <2>1. heap' \cap free' = {} /\ heap' \cap InUse' = {} /\ free' \cap InUse' = {}
    BY <1>1a, <1>3, <1>10 DEF PoolPartition
  <2>2. adds' \cap objs' = {}
    BY <1>1a, <1>2, <1>3 DEF PoolPartition, InUse
  <2> QED BY <2>1, <2>2 DEF PoolPartition
<1>12. OneOwner'
  BY <1>5, <1>6, <1>9 DEF OneOwner
<1>13. \A x \in Packets : Held(x)' => Held(x) \/ x = p
  BY <1>6 DEF Held
<1>14. OpenedHasNoOwner'
  <2>1. SUFFICES ASSUME NEW x \in InUse', open'[x]
                 PROVE  ~Held(x)' /\ \A q \in OwnerQueues : x \notin Slots(q)
    BY <1>9 DEF OpenedHasNoOwner
  <2>2. x \in Packets /\ x # p /\ x \in InUse /\ open[x]
    BY <2>1, <1>3, <1>7, <1>10 DEF InUse, TypeOK
  <2> QED BY <2>2, <1>13 DEF OpenedHasNoOwner
<1>15. DeliveringOne' /\ \A x : AtHand(x)' = AtHand(x)
  BY <1>2 DEF DeliveringOne, AtHand, Delivering, CurrentQ
<1>16. ListedWhileOwned'
  <2>1. SUFFICES ASSUME NEW u \in Threads, NEW x \in Slots(MsgQ(u))
                 PROVE  \/ open'[x]
                        \/ AtHand(x) /\ u \notin todo
                        \/ hold'[u] = x /\ msg'[x].type = "close"
    BY <1>2, <1>9, <1>15 DEF ListedWhileOwned
  <2>2. x \in Packets /\ x # p /\ x # NoPacket
    BY <1>5, SlotsType, QueueFacts, PacketsAssumption
  <2>3. hold[u] = x => hold'[u] = x
    BY <2>2, <1>2, <1>6
  <2>4. open'[x] = open[x] /\ msg'[x] = msg[x]
    BY <2>2, <1>7
  <2>5. \/ open[x]
        \/ AtHand(x) /\ u \notin todo
        \/ hold[u] = x /\ msg[x].type = "close"
    BY DEF ListedWhileOwned
  <2> QED BY <2>3, <2>4, <2>5
<1>17. RefCount'
  <2>1. SUFFICES ASSUME NEW x \in Packets PROVE ref'[x] = Cardinality(Holders(x))
    BY <1>9 DEF RefCount, Holders
  <2>2. Holders(p) = {}
    BY <1>5 DEF Holders
  <2>3. Cardinality(Holders(p)) = 0
    BY <2>2, FS_EmptySet
  <2> QED BY <2>3, <1>7 DEF RefCount
<1>18. NoUseAfterRecycle'
  <2>1. \A x : Listed(x)' = Listed(x)
    BY <1>9 DEF Listed
  <2> QED BY <2>1, <1>2, <1>4, <1>10, <1>13 DEF NoUseAfterRecycle
<1>19. FreedOnce'
  BY <1>2, <1>10 DEF FreedOnce
<1> QED BY <1>8, <1>9, <1>11, <1>12, <1>14, <1>15, <1>16, <1>17, <1>18, <1>19

\* DynamicPacketPool::Update takes back only packets that nobody has.
LEMMA PoolUpdateStep ==
    ASSUME IInv, PoolUpdate PROVE IInv'
<1> USE DEF IInv, poolVars, cacheVars, loopVars
<1> DEFINE gone == {p \in InUse : removes[p] > 0}
<1>1. /\ objs' = InUse \ gone /\ free' = free \union gone /\ adds' = {}
      /\ removes' = [p \in Packets |->
                        IF p \in InUse \ gone /\ CanBack2Pool(p) THEN 1 ELSE 0]
      /\ UNCHANGED <<heap, ref, open, msg, writer, reader, hold, todo, next>>
      /\ pc[Main] = "pool" /\ Goto(Main, "create")
  BY DEF PoolUpdate
<1>2. /\ pc' \in [Threads -> MainPcs \union ThreadPcs] /\ emitted' \in [Threads -> Nat]
      /\ pc'[Main] = "create"
  <2>1. "create" \in MainPcs \union ThreadPcs /\ Main \in Threads
    BY QueueFacts DEF MainPcs
  <2> QED BY <1>1, <2>1, GotoFacts
<1>3. InUse \subseteq Packets
  BY DEF InUse, TypeOK
<1>4. TypeOK'
  <2>1. removes' \in [Packets -> Nat]
    BY <1>1
  <2>2. objs' \in SUBSET Packets /\ free' \in SUBSET Packets /\ adds' \in SUBSET Packets
    BY <1>1, <1>3 DEF TypeOK
  <2> QED BY <1>1, <1>2, <2>1, <2>2 DEF TypeOK
<1>5. ListsDistinct' /\ \A q : Slots(q)' = Slots(q)
  BY <1>1 DEF ListsDistinct, Slots
<1>6. InUse' = InUse \ gone
  BY <1>1 DEF InUse
<1>7. PoolPartition'
  BY <1>1, <1>6 DEF PoolPartition
<1>8. \A x : Held(x)' = Held(x) /\ Listed(x)' = Listed(x)
  BY <1>1, <1>5 DEF Held, Listed
<1>9. OneOwner' /\ OpenedHasNoOwner'
  BY <1>1, <1>5, <1>6, <1>8 DEF OneOwner, OpenedHasNoOwner
<1>10. ~Delivering /\ ~Delivering'
  BY <1>1, <1>2 DEF Delivering
<1>11. DeliveringOne' /\ ListedWhileOwned'
  BY <1>1, <1>5, <1>10 DEF DeliveringOne, ListedWhileOwned, AtHand
<1>12. RefCount'
  BY <1>1, <1>5 DEF RefCount, Holders
<1>13. NoUseAfterRecycle'
  <2>1. SUFFICES ASSUME NEW x \in Packets, Listed(x) \/ Held(x)
                 PROVE  x \in InUse' /\ removes'[x] = 0
    BY <1>8 DEF NoUseAfterRecycle
  <2>2. x \in InUse /\ removes[x] = 0 /\ x \notin gone
    BY <2>1 DEF NoUseAfterRecycle
  <2>3. ~CanBack2Pool(x)
    <3>1. CASE ~open[x]
      BY <3>1 DEF CanBack2Pool
    <3>2. CASE open[x]
      <4>1. ~Held(x) /\ \A q \in OwnerQueues : x \notin Slots(q)
        BY <2>2, <3>2 DEF OpenedHasNoOwner
      <4>2. PICK t \in Threads : x \in Slots(MsgQ(t))
        BY <2>1, <4>1, QueueFacts DEF Listed
      <4>3. Holders(x) # {}
        BY <4>2 DEF Holders
      <4>4. ref[x] # 0
        BY <4>3, HoldersFinite, FS_EmptySet DEF RefCount
      <4> QED BY <4>4 DEF CanBack2Pool
    <3> QED BY <3>1, <3>2
  <2> QED BY <1>1, <1>6, <2>2, <2>3
<1>14. FreedOnce'
  BY <1>1, <1>6 DEF FreedOnce
<1> QED BY <1>4, <1>5, <1>7, <1>9, <1>11, <1>12, <1>13, <1>14

-----------------------------------------------------------------------------
(***************************************************************************)
(* The loop steps that only swap lists or move on.                         *)
(***************************************************************************)

\* A thread other than in delivery swaps one of its lists, or none, and goes on.
LEMMA LoopStep ==
    ASSUME IInv, NEW t \in Threads, NEW l \in ThreadPcs \union MainPcs, Goto(t, l),
           t = Main => ~Delivering /\ (Delivering' => reader'[CurrentQ'] # <<>>),
           t # Main => todo' = todo,
           \/ UNCHANGED cacheVars
           \/ t # Main /\ \E k \in Queues \ {PacketsQ, CreateQ} : Swap(k)
           \/ t = Main /\ \E k \in Queues : Swap(k),
           todo' \in SUBSET Threads, next' \in [Collectors -> Nat],
           UNCHANGED <<poolVars, ref, open, msg, hold>>
    PROVE  IInv'
<1> USE DEF IInv, poolVars, cacheVars
<1>1. /\ pc' \in [Threads -> MainPcs \union ThreadPcs] /\ emitted' \in [Threads -> Nat]
      /\ t # Main => pc'[Main] = pc[Main]
  BY GotoFacts, QueueFacts
<1>2. /\ writer' \in [Queues -> Seq(Packets)] /\ reader' \in [Queues -> Seq(Packets)]
      /\ ListsDistinct' /\ \A q \in Queues : Slots(q)' = Slots(q)
      /\ t # Main => reader'[PacketsQ] = reader[PacketsQ] /\ reader'[CreateQ] = reader[CreateQ]
  <2>1. CASE UNCHANGED cacheVars
    BY <2>1 DEF TypeOK, ListsDistinct, Slots
  <2>2. CASE t # Main /\ \E k \in Queues \ {PacketsQ, CreateQ} : Swap(k)
    BY <2>2, SwapFacts, QueueFacts
  <2>3. CASE t = Main /\ \E k \in Queues : Swap(k)
    BY <2>3, SwapFacts
  <2> QED BY <2>1, <2>2, <2>3
<1>3. TypeOK'
  BY <1>1, <1>2 DEF TypeOK
<1>4. MainSteady
  BY <1>1, <1>2 DEF MainSteady, Delivering, CurrentQ
<1> QED BY <1>2, <1>3, <1>4, Neutral

\* The loop of one thread.
LEMMA ThreadLoopStep ==
    ASSUME IInv, NEW t \in Threads, Loop(t) PROVE IInv'
<1> USE DEF poolVars, cacheVars, loopVars
<1> DEFINE Elsewhere(l) == /\ l \in ThreadPcs \union MainPcs /\ l \notin {"createOne", "dispatchOne"}
                           /\ pc[t] \in ThreadPcs /\ Goto(t, l) /\ UNCHANGED loopVars
                           /\ UNCHANGED <<poolVars, ref, open, msg, hold>>
<1>1. ASSUME NEW l, Elsewhere(l),
             \/ UNCHANGED cacheVars
             \/ \E k \in Queues \ {PacketsQ, CreateQ} : Swap(k)
      PROVE  IInv'
  <2>1. TypeOK
    BY DEF IInv
  <2>2. t = Main => ~Delivering /\ ~Delivering'
    <3>1. pc'[t] = l
      BY <1>1, <2>1, GotoFacts
    <3> QED BY <1>1, <3>1 DEF Delivering, ThreadPcs
  <2>3. todo' = todo /\ todo' \in SUBSET Threads /\ next' \in [Collectors -> Nat]
    BY <1>1, <2>1 DEF TypeOK
  <2> HIDE DEF cacheVars
  <2> QED BY <1>1, <2>2, <2>3, LoopStep
<1>2. \A u \in Threads : MsgQ(u) \in Queues \ {PacketsQ, CreateQ}
  BY QueueFacts
<1>3. \A u \in NetThreads : SendQ(u) \in Queues \ {PacketsQ, CreateQ}
  BY QueueFacts
<1> USE DEF ThreadPcs, MainPcs
<1>4. CASE MessageSwap(t)
  <2>1. Elsewhere("proc") /\ Swap(MsgQ(t))
    BY <1>4 DEF MessageSwap
  <2> QED BY <1>1, <1>2, <2>1
<1>5. CASE MessageDone(t)
  BY <1>5, MessageDoneStep
<1>6. CASE MessageEnd(t)
  <2>1. Elsewhere("upd") /\ UNCHANGED cacheVars
    BY <1>6 DEF MessageEnd
  <2> QED BY <1>1, <2>1
<1>7. CASE UpdateEnd(t)
  <2>1. \E l : Elsewhere(l) /\ UNCHANGED cacheVars
    BY <1>7 DEF UpdateEnd, LoopEnd
  <2> QED BY <1>1, <2>1
<1>8. CASE t \in NetThreads /\ NetworkSwap(t)
  <2>1. Elsewhere("sending") /\ Swap(SendQ(t))
    BY <1>8 DEF NetworkSwap
  <2> QED BY <1>1, <1>3, <1>8, <2>1
<1>9. CASE t \in NetThreads /\ NetworkSend(t)
  BY <1>9, NetworkSendStep
<1>10. CASE t \in NetThreads /\ NetworkEnd(t)
  <2>1. \E l : Elsewhere(l) /\ UNCHANGED cacheVars
    BY <1>10 DEF NetworkEnd, LoopEnd
  <2> QED BY <1>1, <2>1
<1> QED BY <1>4, <1>5, <1>6, <1>7, <1>8, <1>9, <1>10 DEF Loop

\* The part of the loop that only the main thread runs.
LEMMA MainLoopStep ==
    ASSUME IInv, MainLoop PROVE IInv'
<1> USE DEF poolVars, cacheVars, loopVars
<1>0. TypeOK /\ Main \in Threads /\ PacketsQ \in Queues /\ CreateQ \in Queues
  BY QueueFacts DEF IInv
<1>1. ASSUME NEW l \in MainPcs \union ThreadPcs, Goto(Main, l), ~Delivering,
             \/ l \notin {"createOne", "dispatchOne"}
             \/ l = "createOne" /\ reader'[CreateQ] # <<>>
             \/ l = "dispatchOne" /\ reader'[PacketsQ] # <<>>,
             UNCHANGED cacheVars \/ \E k \in Queues : Swap(k),
             todo' \in SUBSET Threads, next' \in [Collectors -> Nat],
             UNCHANGED <<poolVars, ref, open, msg, hold>>
      PROVE  IInv'
  <2>1. pc'[Main] = l
    BY <1>0, <1>1, GotoFacts
  <2>2. Delivering' => reader'[CurrentQ'] # <<>>
    BY <1>1, <2>1 DEF Delivering, CurrentQ
  <2> HIDE DEF cacheVars
  <2> QED BY <1>0, <1>1, <2>2, LoopStep
<1>2. todo \in SUBSET Threads /\ next \in [Collectors -> Nat]
  BY <1>0 DEF TypeOK
<1>3. CASE UpdateCreatePacket
  <2>1. /\ "creating" \in MainPcs \union ThreadPcs /\ ~Delivering
        /\ Goto(Main, "creating") /\ Swap(CreateQ) /\ todo' = todo /\ next' = next
        /\ UNCHANGED <<poolVars, ref, open, msg, hold>>
    BY <1>3 DEF UpdateCreatePacket, MainPcs, Delivering
  <2> QED BY <1>0, <1>1, <1>2, <2>1
<1>4. CASE CreateBegin
  <2>1. /\ "createOne" \in MainPcs \union ThreadPcs /\ ~Delivering
        /\ Goto(Main, "createOne") /\ UNCHANGED cacheVars /\ reader'[CreateQ] # <<>>
        /\ UNCHANGED <<poolVars, ref, open, msg, hold>>
    BY <1>4 DEF CreateBegin, MainPcs, Delivering
  <2>2. todo' \in SUBSET Threads /\ next' \in [Collectors -> Nat]
    <3>1. CASE todo' = {Main} /\ next' = next
      BY <3>1, <1>0, <1>2
    <3>2. CASE \E c \in Collectors : todo' = Members[c] /\ next' = next
      BY <3>2, <1>0, <1>2, RoundRobinFacts
    <3>3. CASE \E c \in Collectors : todo' = {NextThread(c)} /\ next' = RoundRobin(c)
      BY <3>3, <1>0, <1>2, RoundRobinFacts DEF RoundRobin
    <3> QED BY <3>1, <3>2, <3>3, <1>4 DEF CreateBegin, CreateTargets
  <2> QED BY <1>1, <2>1, <2>2
<1>5. CASE CreateUnknown
  BY <1>5, CreateUnknownStep
<1>6. CASE CreateEnd
  <2>1. /\ "dispatch" \in MainPcs \union ThreadPcs /\ ~Delivering
        /\ Goto(Main, "dispatch") /\ UNCHANGED cacheVars /\ todo' = todo /\ next' = next
        /\ UNCHANGED <<poolVars, ref, open, msg, hold>>
    BY <1>6 DEF CreateEnd, MainPcs, Delivering
  <2> QED BY <1>1, <1>2, <2>1
<1>7. CASE UpdateDispatchPacket
  <2>1. /\ "dispatching" \in MainPcs \union ThreadPcs /\ ~Delivering
        /\ Goto(Main, "dispatching") /\ Swap(PacketsQ) /\ todo' = todo /\ next' = next
        /\ UNCHANGED <<poolVars, ref, open, msg, hold>>
    BY <1>7 DEF UpdateDispatchPacket, MainPcs, Delivering
  <2> QED BY <1>0, <1>1, <1>2, <2>1
<1>8. CASE DispatchBegin
  <2>1. /\ "dispatchOne" \in MainPcs \union ThreadPcs /\ ~Delivering
        /\ Goto(Main, "dispatchOne") /\ UNCHANGED cacheVars /\ reader'[PacketsQ] # <<>>
        /\ UNCHANGED <<poolVars, ref, open, msg, hold>>
    BY <1>8 DEF DispatchBegin, MainPcs, Delivering
  <2>2. PICK one \in SUBSET Exclusive :
          /\ todo' = {Main} \union {NextThread(c) : c \in one}
                            \union UNION {Members[c] : c \in Collectors \ one}
          /\ next' = [c \in Collectors |-> IF c \in one THEN RoundRobin(c)[c] ELSE next[c]]
    BY <1>8 DEF DispatchBegin
  <2>3. one \subseteq Collectors
    BY ThreadsAssumption
  <2>4. todo' \in SUBSET Threads
    BY <1>0, <2>2, <2>3, RoundRobinFacts
  <2>5. next' \in [Collectors -> Nat]
    BY <1>0, <1>2, <2>2, RoundRobinFacts DEF RoundRobin
  <2> QED BY <1>1, <2>1, <2>4, <2>5
<1>9. CASE DispatchEnd
  <2>1. /\ "msg" \in MainPcs \union ThreadPcs /\ ~Delivering
        /\ Goto(Main, "msg") /\ UNCHANGED cacheVars /\ todo' = todo /\ next' = next
        /\ UNCHANGED <<poolVars, ref, open, msg, hold>>
    BY <1>9 DEF DispatchEnd, ThreadPcs, Delivering
  <2> QED BY <1>1, <1>2, <2>1
<1>10. CASE Deliver
  BY <1>10, DeliverStep
<1>11. CASE DeliverEnd
  BY <1>11, DeliverEndStep
<1>12. CASE PoolUpdate
  BY <1>12, PoolUpdateStep
<1> QED BY <1>3, <1>4, <1>5, <1>6, <1>7, <1>8, <1>9, <1>10, <1>11, <1>12 DEF MainLoop

\* A handler passes its packet on.
LEMMA PassOnStep ==
    ASSUME IInv, NEW t \in Threads, PassOn(t) PROVE IInv'
<1>1. CASE DispatchPacket(t)
  BY <1>1, HandOver, QueueFacts DEF DispatchPacket, Holds
<1>2. CASE CreateComponent(t)
  BY <1>2, HandOver, QueueFacts DEF CreateComponent, Holds
<1>3. CASE \E n \in NetThreads : SendPacket(t, n)
  BY <1>3, HandOver, QueueFacts DEF SendPacket, Holds
<1>4. CASE ClosePost(t)
  BY <1>4, ClosePostStep
<1>5. CASE CloseOpen(t)
  BY <1>5, CloseOpenStep
<1>6. CASE RecvPing(t)
  BY <1>6, RecvPingStep
<1>7. CASE RecvBad(t)
  BY <1>7, RecvBadStep
<1> QED BY <1>1, <1>2, <1>3, <1>4, <1>5, <1>6, <1>7 DEF PassOn

\* The process starts with an empty pool and empty lists.
LEMMA InitStep == Init => IInv
<1> SUFFICES ASSUME Init PROVE IInv
  OBVIOUS
<1> USE DEF Init
<1>1. Main \in Threads /\ Main \in Nat
  BY QueueFacts DEF Main
<1>2. \A q \in Queues : writer[q] = <<>> /\ reader[q] = <<>>
  OBVIOUS
<1>3. \A q \in Queues : Slots(q) = {}
  BY <1>2, EmptyRange DEF Slots
<1>4. /\ \A q \in OwnerQueues : Slots(q) = {}
      /\ \A t \in Threads : Slots(MsgQ(t)) = {}
  BY <1>3, QueueFacts
<1>5. TypeOK
  <2>1. <<>> \in Seq(Packets)
    OBVIOUS
  <2>2. writer \in [Queues -> Seq(Packets)] /\ reader \in [Queues -> Seq(Packets)]
    BY <2>1
  <2>3. pc \in [Threads -> MainPcs \union ThreadPcs]
    BY DEF MainPcs, ThreadPcs
  <2> QED BY <1>1, <2>2, <2>3 DEF TypeOK
<1>6. PoolPartition /\ OpenedHasNoOwner
  BY DEF PoolPartition, OpenedHasNoOwner, InUse
<1>7. ListsDistinct
  BY <1>2, EmptyRange DEF ListsDistinct
<1>8. OneOwner /\ ListedWhileOwned
  BY <1>4 DEF OneOwner, ListedWhileOwned
<1>9. DeliveringOne
  BY <1>1 DEF DeliveringOne, Delivering
<1>10. RefCount
  <2>1. \A p \in Packets : Holders(p) = {}
    BY <1>4 DEF Holders
  <2> QED BY <2>1, FS_EmptySet DEF RefCount
<1>11. NoUseAfterRecycle /\ FreedOnce
  BY <1>3, PacketsAssumption DEF NoUseAfterRecycle, FreedOnce, Listed, Held
<1> QED BY <1>5, <1>6, <1>7, <1>8, <1>9, <1>10, <1>11 DEF IInv

\* Stuttering.
LEMMA StutterStep == ASSUME IInv, UNCHANGED vars PROVE IInv'
<1> USE DEF vars, poolVars, cacheVars, loopVars
<1>1. TypeOK' /\ ListsDistinct'
  BY DEF IInv, TypeOK, ListsDistinct
<1>2. \A q \in Queues : Slots(q)' = Slots(q)
  BY DEF Slots
<1>3. MainSteady
  BY DEF MainSteady, Delivering, CurrentQ
<1> QED BY <1>1, <1>2, <1>3, Neutral

-----------------------------------------------------------------------------
\* Every step of the packet bus keeps the inductive invariant.
LEMMA InvarianceStep == IInv /\ [Next]_vars => IInv'
<1>1. SUFFICES ASSUME IInv, [Next]_vars PROVE IInv'
  OBVIOUS
<1>2. CASE \E t \in Threads : PassOn(t)
  BY <1>1, <1>2, PassOnStep
<1>3. CASE \E t \in Threads : Loop(t)
  BY <1>1, <1>3, ThreadLoopStep
<1>4. CASE \E t \in Threads : \E m \in Msgs : Malloc(t, m)
  BY <1>1, <1>4, MallocStep
<1>5. CASE MainLoop
  BY <1>1, <1>5, MainLoopStep
<1>6. CASE UNCHANGED vars
  BY <1>1, <1>6, StutterStep
<1> QED BY <1>1, <1>2, <1>3, <1>4, <1>5, <1>6 DEF Next

\* The inductive invariant holds in every state of the packet bus, for every
\* pool, every set of collectors and threads, and every set of networks.
THEOREM Invariance == Spec => []IInv
BY InitStep, InvarianceStep, PTL DEF Spec

\* Every variable of the packet bus keeps its type.
THEOREM TypeCorrect == Spec => []TypeOK
<1>1. IInv => TypeOK
  BY DEF IInv
<1> QED BY <1>1, Invariance, PTL

\* Packet::_ref counts the lists the packet is in.
THEOREM RefCountCorrect == Spec => []RefCount
<1>1. IInv => RefCount
  BY DEF IInv
<1> QED BY <1>1, Invariance, PTL

\* No packet is recycled, or marked for recycling, while a list or a handler has it.
THEOREM RecycleSafe == Spec => []NoUseAfterRecycle
<1>1. IInv => NoUseAfterRecycle
  BY DEF IInv
<1> QED BY <1>1, Invariance, PTL

\* A packet is handed back to the pool at most once per life.
THEOREM FreedOnceCorrect == Spec => []FreedOnce
<1>1. IInv => FreedOnce
  BY DEF IInv
<1> QED BY <1>1, Invariance, PTL

-----------------------------------------------------------------------------
(***************************************************************************)
(* The packet bus implements Mailboxes.  The refinement needs more than    *)
(* IInv: which lists are empty before a swap, what kind of packet is where *)
(* and whom the packet at hand is still for.                               *)
(***************************************************************************)
\* A walk over a reader list empties it before the thread goes on.
Walked ==
    /\ \A t \in Threads : pc[t] # "proc" => reader[MsgQ(t)] = <<>>
    /\ pc[Main] \notin {"dispatching", "dispatchOne"} => reader[PacketsQ] = <<>>
\* A packet is what it was filled in to be as long as a handler or ThreadMgr has it.
Kinds ==
    /\ \A t \in Threads : hold[t] # NoPacket => msg[hold[t]] # NoMsg
    /\ \A p \in Slots(PacketsQ) : p \in Dispatched
    /\ \A p \in Slots(CreateQ) : p \notin Dispatched
\* A task is still to be added to one thread of an exclusive collector at most.
OneEach ==
    pc[Main] = "dispatchOne" /\ msg[Head(reader[PacketsQ])].type = "net" =>
        \A c \in Exclusive : \A t, u \in todo \cap Members[c] : t = u
BusInv == IInv /\ Walked /\ Kinds /\ OneEach

-----------------------------------------------------------------------------
\* Only list k changes.
Touches(k) == \A q \in Queues : q # k => reader'[q] = reader[q] /\ writer'[q] = writer[q]

\* What a CacheSwap operation does to the lists themselves.
LEMMA EmplaceLists ==
    ASSUME TypeOK, NEW k \in Queues, NEW p, Emplace(k, p), reader' = reader
    PROVE  Touches(k) /\ writer'[k] = Append(writer[k], p) /\ reader'[k] = reader[k]
BY DEF TypeOK, Emplace, Touches

\* A swap moves the writer list to an empty reader list.
LEMMA SwapLists ==
    ASSUME TypeOK, NEW k \in Queues, Swap(k)
    PROVE  /\ Touches(k)
           /\ reader[k] = <<>> => reader'[k] = writer[k] /\ writer'[k] = <<>>
BY DEF TypeOK, Swap, cacheVars, Touches

\* The head of the reader list is removed.
LEMMA AdvanceLists ==
    ASSUME TypeOK, NEW k \in Queues, Advance(k), writer' = writer
    PROVE  Touches(k) /\ reader'[k] = Tail(reader[k]) /\ writer'[k] = writer[k]
BY DEF TypeOK, Advance, Touches

\* Who holds a packet and whether it is in ThreadMgr's lists.
LEMMA TouchesSlots ==
    ASSUME NEW k \in Queues, Touches(k)
    PROVE  /\ \A q \in Queues : q # k => Slots(q)' = Slots(q)
           /\ k \in OwnerQueues => /\ \A t \in Threads : Inbox(t)' = Inbox(t)
                                   /\ \A p : Holders(p)' = Holders(p)
<1>1. \A q \in Queues : q # k => Slots(q)' = Slots(q)
  BY DEF Touches, Slots
<1>2. ASSUME k \in OwnerQueues PROVE /\ \A t \in Threads : Inbox(t)' = Inbox(t)
                                     /\ \A p : Holders(p)' = Holders(p)
  <2>1. \A t \in Threads : MsgQ(t) \in Queues /\ MsgQ(t) # k
    BY <1>2, QueueFacts
  <2>2. \A t \in Threads : Slots(MsgQ(t))' = Slots(MsgQ(t))
    BY <1>1, <2>1
  <2>3. \A t \in Threads : Inbox(t)' = Inbox(t)
    BY <2>1 DEF Touches, Inbox
  <2> QED BY <2>2, <2>3 DEF Holders
<1> QED BY <1>1, <1>2

\* A step that leaves ThreadMgr's packets and the lists of the threads alone.
LEMMA QuietStep ==
    ASSUME BusInv, NEW k \in OwnerQueues, k # PacketsQ, Touches(k), msg' = msg,
           \A p \in Slots(CreateQ)' : p \in Slots(CreateQ) \/ p \notin Dispatched,
           \A t \in Threads : hold'[t] \in {hold[t], NoPacket},
           \A t \in Threads : pc'[t] # "proc" => pc[t] # "proc" \/ reader[MsgQ(t)] = <<>>,
           pc'[Main] \notin {"dispatching", "dispatchOne"} =>
               pc[Main] \notin {"dispatching", "dispatchOne"} \/ reader[PacketsQ] = <<>>,
           pc'[Main] = "dispatchOne" <=> pc[Main] = "dispatchOne",
           pc[Main] = "dispatchOne" => todo' = todo
    PROVE  Walked' /\ Kinds' /\ OneEach' /\ UNCHANGED <<boxes, pools>>
<1>1. /\ PacketsQ \in Queues /\ k \in Queues
      /\ \A t \in Threads : MsgQ(t) \in Queues /\ MsgQ(t) # k
  BY QueueFacts
<1>2. /\ reader'[PacketsQ] = reader[PacketsQ] /\ writer'[PacketsQ] = writer[PacketsQ]
      /\ \A t \in Threads : reader'[MsgQ(t)] = reader[MsgQ(t)]
  BY <1>1 DEF Touches
<1>3. Dispatched' = Dispatched /\ \A p : IsTask(p)' = IsTask(p)
  BY DEF Dispatched, IsTask
<1>4. Slots(PacketsQ)' = Slots(PacketsQ)
  BY <1>1, TouchesSlots
<1>5. \A t \in Threads : Inbox(t)' = Inbox(t)
  BY <1>1, TouchesSlots
<1>6. \A p : Holders(p)' = Holders(p)
  BY <1>1, TouchesSlots
<1>7. Walked'
  BY <1>2 DEF BusInv, Walked
<1>8. Kinds'
  BY <1>3, <1>4 DEF BusInv, Kinds
<1>9. OneEach'
  BY <1>2 DEF BusInv, OneEach
<1>10. \A t \in Threads : BoxOf(t)' = BoxOf(t)
  <2>1. \A t \in Threads : InTransit(t)' = InTransit(t)
    BY <1>2 DEF InTransit
  <2> QED BY <1>3, <1>5, <2>1 DEF BoxOf
<1>11. \A c \in Exclusive : PoolOf(c)' = PoolOf(c)
  <2>1. \A c, p : Unassigned(c, p)' = Unassigned(c, p)
    BY <1>2, <1>4 DEF Unassigned
  <2> QED BY <1>3, <1>6, <2>1 DEF PoolOf
<1> QED BY <1>7, <1>8, <1>9, <1>10, <1>11 DEF boxes, pools, BroadcastThreads

\* What a step of the bus has to do.
Keeps == Walked' /\ Kinds' /\ OneEach'
MapsTo == M!Next \/ UNCHANGED <<boxes, pools>>

\* Only thread t moves on.
LEMMA GotoOnly ==
    ASSUME TypeOK, NEW t \in Threads, NEW label, Goto(t, label)
    PROVE  pc'[t] = label /\ \A u \in Threads : u # t => pc'[u] = pc[u]
BY DEF Goto, TypeOK

\* No list changes and nobody moves on.
LEMMA QuietHand ==
    ASSUME BusInv, UNCHANGED <<msg, cacheVars, pc, todo>>,
           \A t \in Threads : hold'[t] \in {hold[t], NoPacket}
    PROVE  Keeps /\ MapsTo
<1>1. Touches(CreateQ) /\ Slots(CreateQ)' = Slots(CreateQ)
  BY DEF Touches, cacheVars, Slots
<1> QED BY <1>1, QueueFacts, QuietStep DEF Keeps, MapsTo

\* A handler's packet that goes to another list than ThreadMgr::_packets, or nowhere.
LEMMA QuietPassOn ==
    ASSUME BusInv, NEW t \in Threads,
           \/ CreateComponent(t) \/ CloseOpen(t) \/ RecvPing(t) \/ RecvBad(t)
           \/ \E n \in NetThreads : SendPacket(t, n)
    PROVE  Keeps /\ MapsTo
<1>0. TypeOK /\ CreateQ \in Queues /\ CreateQ \in OwnerQueues
  BY QueueFacts DEF BusInv, IInv
<1>1. Release(t) /\ msg' = msg
  BY DEF CreateComponent, CloseOpen, RecvPing, RecvBad, SendPacket
<1>2. \A u \in Threads : hold'[u] \in {hold[u], NoPacket}
  BY <1>0, <1>1, ReleaseFacts
<1>3. CASE CloseOpen(t) \/ RecvPing(t) \/ RecvBad(t)
  <2>1. UNCHANGED <<msg, cacheVars, pc, todo>>
    BY <1>3 DEF CloseOpen, RecvPing, RecvBad, loopVars
  <2> QED BY <1>2, <2>1, QuietHand
<1>4. ASSUME NEW n \in NetThreads, SendPacket(t, n) PROVE Keeps /\ MapsTo
  <2>1. SendQ(n) \in OwnerQueues /\ SendQ(n) \in Queues /\ SendQ(n) # PacketsQ /\ SendQ(n) # CreateQ
    BY QueueFacts
  <2>2. Emplace(SendQ(n), hold[t]) /\ UNCHANGED <<reader, pc, todo>>
    BY <1>4 DEF SendPacket, loopVars
  <2>3. Touches(SendQ(n))
    BY <1>0, <2>1, <2>2, EmplaceLists
  <2>4. Slots(CreateQ)' = Slots(CreateQ)
    BY <1>0, <2>1, <2>3, TouchesSlots
  <2> QED BY <1>1, <1>2, <2>1, <2>2, <2>3, <2>4, QuietStep DEF Keeps, MapsTo
<1>5. CASE CreateComponent(t)
  <2>1. /\ Emplace(CreateQ, hold[t]) /\ UNCHANGED <<reader, pc, todo>>
        /\ hold[t] \in Packets /\ msg[hold[t]].type = "create"
    BY <1>0, <1>5 DEF CreateComponent, loopVars, Holds, TypeOK
  <2>2. Touches(CreateQ)
    BY <1>0, <2>1, EmplaceLists
  <2>3. Slots(CreateQ)' = Slots(CreateQ) \union {hold[t]}
    BY <1>0, <2>1, EmplaceFacts DEF BusInv, IInv
  <2>4. hold[t] \notin Dispatched
    BY <2>1 DEF Dispatched
  <2> QED BY <1>0, <1>1, <1>2, <2>1, <2>2, <2>3, <2>4, QueueFacts, QuietStep DEF Keeps, MapsTo
<1> QED BY <1>3, <1>4, <1>5

\* Steps of a thread's loop.
LEMMA QuietLoop ==
    ASSUME BusInv, NEW t \in Threads,
           \/ MessageEnd(t) \/ UpdateEnd(t)
           \/ (t \in NetThreads /\ (NetworkSwap(t) \/ NetworkSend(t) \/ NetworkEnd(t)))
    PROVE  Keeps /\ MapsTo
<1>0. /\ TypeOK /\ ListsDistinct /\ CreateQ \in Queues /\ CreateQ \in OwnerQueues /\ CreateQ # PacketsQ
      /\ t \in NetThreads =>
            SendQ(t) \in OwnerQueues /\ SendQ(t) \in Queues /\ SendQ(t) # PacketsQ /\ SendQ(t) # CreateQ
  BY QueueFacts DEF BusInv, IInv
<1>1. PICK k \in OwnerQueues : k # PacketsQ /\ Touches(k) /\ Slots(CreateQ)' = Slots(CreateQ)
  <2>1. CASE t \in NetThreads /\ (NetworkSwap(t) \/ NetworkSend(t))
    <3>1. Touches(SendQ(t))
      BY <1>0, <2>1, SwapLists, AdvanceLists DEF NetworkSwap, NetworkSend
    <3> QED BY <1>0, <2>1, <3>1, TouchesSlots
  <2>2. CASE MessageEnd(t) \/ UpdateEnd(t) \/ NetworkEnd(t)
    <3>1. Touches(CreateQ) /\ Slots(CreateQ)' = Slots(CreateQ)
      BY <2>2 DEF MessageEnd, UpdateEnd, NetworkEnd, Touches, cacheVars, Slots
    <3> QED BY <1>0, <3>1
  <2> QED BY <2>1, <2>2
<1>2. msg' = msg /\ hold' = hold /\ todo' = todo
  BY DEF MessageEnd, UpdateEnd, NetworkSwap, NetworkSend, NetworkEnd, loopVars
<1>3. /\ \A u \in Threads : u # t => pc'[u] = pc[u]
      /\ pc[t] \in {"upd", "send", "sending"} \/ (pc[t] = "proc" /\ reader[MsgQ(t)] = <<>>)
      /\ pc'[t] \in {"upd", "send", "sending", "pool", "msg"}
  <2>1. CASE NetworkSend(t)
    BY <2>1 DEF NetworkSend
  <2>2. CASE ~ NetworkSend(t)
    <3>1. PICK label \in {"upd", "send", "sending", "pool", "msg"} : Goto(t, label)
      BY <2>2 DEF MessageEnd, UpdateEnd, NetworkSwap, NetworkEnd, LoopEnd
    <3>2. pc'[t] = label /\ \A u \in Threads : u # t => pc'[u] = pc[u]
      BY <1>0, <3>1, GotoOnly
    <3> QED BY <2>2, <3>2 DEF MessageEnd, UpdateEnd, NetworkSwap, NetworkEnd
  <2> QED BY <2>1, <2>2
<1>4. \A u \in Threads : pc'[u] # "proc" => pc[u] # "proc" \/ reader[MsgQ(u)] = <<>>
  BY <1>3
<1>5. (pc[Main] = "dispatchOne" <=> pc'[Main] = "dispatchOne") /\ (pc[Main] = "dispatching" <=> pc'[Main] = "dispatching")
  <2>1. Main \in Threads
    BY QueueFacts
  <2> QED BY <1>3, <2>1
<1> QED BY <1>1, <1>2, <1>4, <1>5, QuietStep DEF Keeps, MapsTo

\* Steps of the main thread.
LEMMA QuietMain ==
    ASSUME BusInv,
           \/ UpdateCreatePacket \/ CreateBegin \/ CreateUnknown \/ CreateEnd \/ DispatchEnd
           \/ PoolUpdate \/ (pc[Main] = "createOne" /\ DeliverEnd)
    PROVE  Keeps /\ MapsTo
<1>0. TypeOK /\ ListsDistinct /\ DeliveringOne /\ CreateQ \in Queues /\ CreateQ \in OwnerQueues
      /\ CreateQ # PacketsQ /\ Main \in Threads
  BY QueueFacts DEF BusInv, IInv
<1>1. Touches(CreateQ) /\ Slots(CreateQ)' \subseteq Slots(CreateQ)
  <2>1. CASE UpdateCreatePacket
    BY <1>0, <2>1, SwapLists, SwapFacts DEF UpdateCreatePacket
  <2>2. CASE CreateUnknown \/ (pc[Main] = "createOne" /\ DeliverEnd)
    <3>1. Advance(CreateQ) /\ writer' = writer /\ reader[CreateQ] # <<>>
      BY <1>0, <2>2 DEF CreateUnknown, DeliverEnd, CurrentQ, DeliveringOne, Delivering
    <3> QED BY <1>0, <3>1, AdvanceLists, AdvanceFacts
  <2>3. CASE CreateBegin \/ CreateEnd \/ DispatchEnd \/ PoolUpdate
    <3>1. UNCHANGED <<reader, writer>>
      BY <2>3 DEF CreateBegin, CreateEnd, DispatchEnd, PoolUpdate, cacheVars
    <3> QED BY <3>1 DEF Touches, Slots
  <2> QED BY <2>1, <2>2, <2>3
<1>2. msg' = msg /\ hold' = hold
  BY DEF UpdateCreatePacket, CreateBegin, CreateUnknown, CreateEnd, DispatchEnd, PoolUpdate, DeliverEnd
<1>3. /\ \A u \in Threads : u # Main => pc'[u] = pc[u]
      /\ pc[Main] \in {"create", "creating", "createOne", "pool"} \/ (pc[Main] = "dispatching" /\ reader[PacketsQ] = <<>>)
      /\ pc'[Main] \in {"create", "creating", "createOne", "dispatch", "msg"}
  <2>1. CASE CreateUnknown
    BY <2>1 DEF CreateUnknown
  <2>2. CASE ~ CreateUnknown
    <3>1. PICK label \in {"create", "creating", "createOne", "dispatch", "msg"} : Goto(Main, label)
      BY <2>2 DEF UpdateCreatePacket, CreateBegin, CreateEnd, DispatchEnd, PoolUpdate, DeliverEnd
    <3>2. pc'[Main] = label /\ \A u \in Threads : u # Main => pc'[u] = pc[u]
      BY <1>0, <3>1, GotoOnly
    <3> QED BY <2>2, <3>2 DEF UpdateCreatePacket, CreateBegin, CreateEnd, DispatchEnd, PoolUpdate, DeliverEnd
  <2> QED BY <2>1, <2>2
<1>4. \A u \in Threads : pc'[u] # "proc" => pc[u] # "proc" \/ reader[MsgQ(u)] = <<>>
  BY <1>3
<1> QED BY <1>0, <1>1, <1>2, <1>3, <1>4, QuietStep DEF Keeps, MapsTo

\* The lists of a thread and of ThreadMgr hold packets.
LEMMA InboxParts ==
    ASSUME TypeOK, NEW t \in Threads
    PROVE  /\ reader[MsgQ(t)] \in Seq(Packets) /\ writer[MsgQ(t)] \in Seq(Packets)
           /\ Inbox(t) \in Seq(Packets)
           /\ \A i \in 1 .. Len(Inbox(t)) : Inbox(t)[i] \in Slots(MsgQ(t))
<1> DEFINE r == reader[MsgQ(t)]
           w == writer[MsgQ(t)]
<1>1. r \in Seq(Packets) /\ w \in Seq(Packets)
  BY QueueFacts DEF TypeOK
<1>2. \A s \in Seq(Packets) : Len(s) \in Nat /\ \A i \in 1 .. Len(s) : s[i] \in Range(s)
  BY DEF Range
<1> HIDE DEF r, w
<1>3. /\ r \o w \in Seq(Packets) /\ Len(r \o w) = Len(r) + Len(w)
      /\ \A i \in 1 .. Len(r) + Len(w) : (r \o w)[i] = IF i <= Len(r) THEN r[i] ELSE w[i - Len(r)]
  BY <1>1, ConcatProperties
<1>4. ASSUME NEW i \in 1 .. Len(r \o w) PROVE (r \o w)[i] \in Range(r) \union Range(w)
  <2>1. CASE i <= Len(r)
    <3>1. i \in 1 .. Len(r) /\ (r \o w)[i] = r[i]
      BY <1>1, <1>2, <1>3, <2>1
    <3> QED BY <1>1, <1>2, <3>1
  <2>2. CASE ~ (i <= Len(r))
    <3>1. i - Len(r) \in 1 .. Len(w) /\ (r \o w)[i] = w[i - Len(r)]
      BY <1>1, <1>2, <1>3, <2>2
    <3> QED BY <1>1, <1>2, <3>1
  <2> QED BY <2>1, <2>2
<1> QED BY <1>1, <1>3, <1>4 DEF r, w, Inbox, Slots

\* ThreadMgr's lists hold packets, and the packet at hand is their head.
LEMMA TransitType ==
    ASSUME TypeOK, DeliveringOne
    PROVE  /\ reader[PacketsQ] \in Seq(Packets) /\ writer[PacketsQ] \in Seq(Packets)
           /\ pc[Main] = "dispatchOne" => /\ reader[PacketsQ] # <<>> /\ Tail(reader[PacketsQ]) \in Seq(Packets)
                                          /\ Head(reader[PacketsQ]) \in Slots(PacketsQ)
                                          /\ Head(reader[PacketsQ]) \in Packets
           /\ \A t : InTransit(t) \in Seq(Packets)
<1>1. reader[PacketsQ] \in Seq(Packets) /\ writer[PacketsQ] \in Seq(Packets)
  BY QueueFacts DEF TypeOK
<1>2. pc[Main] = "dispatchOne" => reader[PacketsQ] # <<>>
  BY DEF DeliveringOne, Delivering, CurrentQ
<1>3. pc[Main] = "dispatchOne" => Tail(reader[PacketsQ]) \in Seq(Packets) /\ Head(reader[PacketsQ]) \in Slots(PacketsQ)
                                  /\ Head(reader[PacketsQ]) \in Packets
  BY <1>1, <1>2, TailRange, HeadTailProperties DEF Slots
<1>4. \A t : InTransit(t) \in Seq(Packets)
  BY <1>1, <1>3, ConcatProperties DEF InTransit
<1> QED BY <1>1, <1>2, <1>3, <1>4

\* A step that leaves ThreadMgr's packets alone.
LEMMA ManagerSame ==
    ASSUME reader'[PacketsQ] = reader[PacketsQ], writer'[PacketsQ] = writer[PacketsQ],
           pc'[Main] = "dispatchOne" <=> pc[Main] = "dispatchOne",
           pc[Main] = "dispatchOne" => todo' = todo
    PROVE  /\ \A t : InTransit(t)' = InTransit(t)
           /\ \A c, p : Unassigned(c, p)' = Unassigned(c, p)
           /\ Slots(PacketsQ)' = Slots(PacketsQ)
           /\ OneEach /\ msg' = msg => OneEach'
BY DEF InTransit, Unassigned, Slots, OneEach

-----------------------------------------------------------------------------
(***************************************************************************)
(* Steps that fill in a packet or pass it on.                              *)
(***************************************************************************)
\* A filled-in packet is in no list.
LEMMA MallocMap ==
    ASSUME BusInv, NEW t \in Threads, NEW m \in Msgs, Malloc(t, m)
    PROVE  Keeps /\ MapsTo
<1>0. TypeOK /\ DeliveringOne
  BY DEF BusInv, IInv
<1>1. PICK p \in free \union heap :
        /\ msg' = [msg EXCEPT ![p] = m] /\ hold' = [hold EXCEPT ![t] = p]
        /\ UNCHANGED <<reader, writer, pc, todo>>
  BY DEF Malloc, cacheVars, loopVars
<1>2. p \in Packets /\ ~ Listed(p) /\ ~ Held(p)
  <2>1. p \in Packets /\ p \notin InUse
    BY DEF BusInv, IInv, TypeOK, PoolPartition
  <2> QED BY <2>1 DEF BusInv, IInv, NoUseAfterRecycle
<1>3. /\ \A q \in Queues : p \notin Slots(q) /\ Slots(q)' = Slots(q)
      /\ \A u \in Threads : hold[u] # p
  BY <1>1, <1>2 DEF Listed, Held, Slots
<1>4. m # NoMsg /\ msg'[p] = m /\ \A x \in Packets : x # p => msg'[x] = msg[x]
  BY <1>0, <1>1, <1>2, MsgsAssumption DEF TypeOK
<1>5. \A x \in Packets : x # p => (x \in Dispatched' <=> x \in Dispatched) /\ IsTask(x)' = IsTask(x)
  BY <1>4 DEF Dispatched, IsTask
<1>6. \A x : Holders(x)' = Holders(x)
  BY <1>3, QueueFacts DEF Holders
<1>7. Holders(p) = {}
  BY <1>3, QueueFacts DEF Holders
<1>8. /\ \A u : InTransit(u)' = InTransit(u)
      /\ \A c, x : Unassigned(c, x)' = Unassigned(c, x)
      /\ \A c : ~ Unassigned(c, p)
      /\ PacketsQ \in Queues /\ CreateQ \in Queues
  BY <1>1, <1>3, ManagerSame, QueueFacts DEF Unassigned
<1>9. Walked'
  BY <1>1 DEF BusInv, Walked
<1>10. Kinds'
  <2>1. \A u \in Threads : hold'[u] # NoPacket => msg'[hold'[u]] # NoMsg
    <3> SUFFICES ASSUME NEW u \in Threads, hold'[u] # NoPacket PROVE msg'[hold'[u]] # NoMsg
      OBVIOUS
    <3>1. CASE u = t
      BY <1>0, <1>1, <1>4, <3>1 DEF TypeOK
    <3>2. CASE u # t
      <4>1. hold'[u] = hold[u] /\ hold[u] \in Packets /\ hold[u] # p
        BY <1>0, <1>1, <1>3, <3>2 DEF TypeOK
      <4> QED BY <1>4, <4>1 DEF BusInv, Kinds
    <3> QED BY <3>1, <3>2
  <2>2. Slots(PacketsQ) \subseteq Packets /\ Slots(CreateQ) \subseteq Packets
    BY <1>0, <1>8, SlotsType
  <2>3. /\ \A x \in Slots(PacketsQ) : x \in Dispatched'
        /\ \A x \in Slots(CreateQ) : x \notin Dispatched'
    <3>1. /\ \A x \in Slots(PacketsQ) : x \in Dispatched
          /\ \A x \in Slots(CreateQ) : x \notin Dispatched
      BY DEF BusInv, Kinds
    <3> QED BY <1>3, <1>5, <1>8, <2>2, <3>1
  <2>4. Slots(PacketsQ)' = Slots(PacketsQ) /\ Slots(CreateQ)' = Slots(CreateQ)
    BY <1>3, <1>8
  <2> QED BY <2>1, <2>3, <2>4 DEF Kinds
<1>11. OneEach'
  <2>1. pc[Main] = "dispatchOne" => msg'[Head(reader[PacketsQ])] = msg[Head(reader[PacketsQ])]
    BY <1>0, <1>3, <1>4, <1>8, TransitType
  <2> QED BY <1>1, <2>1 DEF BusInv, OneEach
<1>12. \A u \in Threads : BoxOf(u)' = BoxOf(u)
  <2> SUFFICES ASSUME NEW u \in Threads PROVE BoxOf(u)' = BoxOf(u)
    OBVIOUS
  <2>1. Inbox(u)' = Inbox(u)
    BY <1>1 DEF Inbox
  <2>2. \A i \in 1 .. Len(Inbox(u)) : Inbox(u)[i] \in Dispatched <=> Inbox(u)[i] \in Dispatched'
    <3>1. \A i \in 1 .. Len(Inbox(u)) : Inbox(u)[i] \in Slots(MsgQ(u))
      BY <1>0, InboxParts
    <3>2. \A x \in Slots(MsgQ(u)) : x \in Packets /\ x # p
      BY <1>0, <1>3, SlotsType, QueueFacts
    <3> QED BY <1>5, <3>1, <3>2
  <2>3. Inbox(u) \in Seq(Packets)
    BY <1>0, InboxParts
  <2>4. Kept(Inbox(u), Dispatched') = Kept(Inbox(u), Dispatched)
    BY <2>2, <2>3, KeptSame
  <2> QED BY <1>8, <2>1, <2>4 DEF BoxOf
<1>13. \A c \in Exclusive : PoolOf(c)' = PoolOf(c)
  <2>1. \A c : Cardinality(Holders(p) \cap Members[c]) = 0
    <3>1. \A c : Holders(p) \cap Members[c] = {}
      BY <1>7
    <3> QED BY <3>1, FS_EmptySet
  <2> SUFFICES ASSUME NEW c \in Exclusive PROVE PoolOf(c)' = PoolOf(c)
    OBVIOUS
  <2>2. PoolOf(c)[p] = 0 /\ PoolOf(c)'[p] = 0
    BY <1>2, <1>6, <1>8, <2>1 DEF PoolOf
  <2>3. \A x \in Packets : x # p => PoolOf(c)'[x] = PoolOf(c)[x]
    BY <1>5, <1>6, <1>8 DEF PoolOf
  <2>4. PoolOf(c) = [x \in Packets |-> PoolOf(c)[x]] /\ PoolOf(c)' = [x \in Packets |-> PoolOf(c)'[x]]
    BY DEF PoolOf
  <2> QED BY <2>2, <2>3, <2>4
<1> QED BY <1>9, <1>10, <1>11, <1>12, <1>13 DEF Keeps, MapsTo, boxes, pools, BroadcastThreads

\* ThreadMgr::DispatchPacket publishes the packet.
LEMMA DispatchMap ==
    ASSUME BusInv, NEW t \in Threads, DispatchPacket(t)
    PROVE  Keeps /\ MapsTo
<1> DEFINE p == hold[t]
<1>0. TypeOK /\ DeliveringOne /\ PacketsQ \in Queues /\ PacketsQ \in OwnerQueues /\ CreateQ \in Queues /\ CreateQ # PacketsQ
  BY QueueFacts DEF BusInv, IInv
<1>1. /\ p # NoPacket /\ p \in Packets /\ msg[p].type \in {"net", "cmd"} /\ msg[p] # NoMsg
      /\ p \notin Slots(PacketsQ) /\ Emplace(PacketsQ, p) /\ Release(t)
      /\ UNCHANGED <<reader, msg, pc, todo>>
  <2>1. p # NoPacket /\ p \in Packets /\ msg[p].type \in {"net", "cmd"}
    BY <1>0 DEF DispatchPacket, Holds, TypeOK
  <2>2. msg[p] # NoMsg
    BY <2>1 DEF BusInv, Kinds
  <2>3. p \notin Slots(PacketsQ)
    BY <1>0 DEF BusInv, IInv, OneOwner
  <2> QED BY <2>1, <2>2, <2>3 DEF DispatchPacket, loopVars
<1>2. p \in Dispatched /\ Dispatched' = Dispatched /\ \A x : IsTask(x)' = IsTask(x)
  BY <1>1 DEF Dispatched, IsTask
<1>3. Touches(PacketsQ) /\ writer'[PacketsQ] = Append(writer[PacketsQ], p) /\ reader'[PacketsQ] = reader[PacketsQ]
  BY <1>0, <1>1, EmplaceLists
<1>4. /\ Slots(PacketsQ)' = Slots(PacketsQ) \union {p} /\ Slots(CreateQ)' = Slots(CreateQ)
      /\ \A u \in Threads : Inbox(u)' = Inbox(u)
      /\ \A x : Holders(x)' = Holders(x)
  BY <1>0, <1>1, <1>3, TouchesSlots, EmplaceFacts DEF BusInv, IInv
<1>5. \A u \in Threads : hold'[u] \in {hold[u], NoPacket}
  BY <1>0, <1>1, ReleaseFacts
<1> HIDE DEF p
<1>6. Walked'
  BY <1>1, <1>3 DEF BusInv, Walked
<1>7. Kinds'
  BY <1>1, <1>2, <1>4, <1>5 DEF BusInv, Kinds
<1>8. OneEach'
  BY <1>1, <1>3 DEF BusInv, OneEach
<1>9. \A u \in Threads : BoxOf(u)' = Append(BoxOf(u), p)
  <2> SUFFICES ASSUME NEW u \in Threads PROVE BoxOf(u)' = Append(BoxOf(u), p)
    OBVIOUS
  <2>0. \A r, w \in Seq(Packets), e \in Packets : r \o Append(w, e) = Append(r \o w, e)
    BY ConcatAppend
  <2>1. InTransit(u)' = Append(InTransit(u), p)
    <3>1. CASE pc[Main] = "dispatchOne" /\ u \notin todo
      <4>1. Tail(reader[PacketsQ]) \o Append(writer[PacketsQ], p) = Append(Tail(reader[PacketsQ]) \o writer[PacketsQ], p)
        <5>1. Tail(reader[PacketsQ]) \in Seq(Packets) /\ writer[PacketsQ] \in Seq(Packets) /\ p \in Packets
          BY <1>0, <1>1, <3>1, TransitType
        <5> QED BY <5>1, <2>0
      <4> QED BY <1>1, <1>3, <3>1, <4>1 DEF InTransit
    <3>2. CASE ~ (pc[Main] = "dispatchOne" /\ u \notin todo)
      <4>1. reader[PacketsQ] \o Append(writer[PacketsQ], p) = Append(reader[PacketsQ] \o writer[PacketsQ], p)
        <5>1. reader[PacketsQ] \in Seq(Packets) /\ writer[PacketsQ] \in Seq(Packets) /\ p \in Packets
          BY <1>0, <1>1, TransitType
        <5> QED BY <5>1, <2>0
      <4>2. ~ (pc'[Main] = "dispatchOne" /\ u \notin todo')
        BY <1>1, <3>2
      <4> QED BY <1>3, <3>2, <4>1, <4>2 DEF InTransit
    <3> QED BY <3>1, <3>2
  <2>2. Kept(Inbox(u), Dispatched) \in Seq(Packets) /\ InTransit(u) \in Seq(Packets)
    BY <1>0, InboxParts, KeptType, TransitType
  <2>3. Kept(Inbox(u), Dispatched) \o Append(InTransit(u), p) = Append(Kept(Inbox(u), Dispatched) \o InTransit(u), p)
    BY <1>1, <2>2, ConcatAppend
  <2> QED BY <1>2, <1>4, <2>1, <2>3 DEF BoxOf
<1>10. \A c, x : Unassigned(c, x)' <=> x = p \/ Unassigned(c, x)
  <2>1. pc[Main] = "dispatchOne" => Head(reader[PacketsQ]) # p
    BY <1>0, <1>1, TransitType
  <2> QED BY <1>1, <1>3, <1>4, <2>1 DEF Unassigned
<1>11. \A c : ~ Unassigned(c, p)
  BY <1>1 DEF Unassigned
<1>12. \A c \in Exclusive : PoolOf(c)' = IF msg[p].type = "net" THEN [PoolOf(c) EXCEPT ![p] = @ + 1] ELSE PoolOf(c)
  <2> SUFFICES ASSUME NEW c \in Exclusive
               PROVE PoolOf(c)' = IF msg[p].type = "net" THEN [PoolOf(c) EXCEPT ![p] = @ + 1] ELSE PoolOf(c)
    OBVIOUS
  <2>1. \A x \in Packets : x # p => PoolOf(c)'[x] = PoolOf(c)[x]
    BY <1>2, <1>4, <1>10 DEF PoolOf
  <2>2. PoolOf(c)'[p] = IF msg[p].type = "net" THEN PoolOf(c)[p] + 1 ELSE PoolOf(c)[p]
    <3> DEFINE n == Cardinality(Holders(p) \cap Members[c])
    <3>0. n \in Nat
      <4>1. Holders(p) \cap Members[c] \subseteq Holders(p)
        OBVIOUS
      <4> QED BY <4>1, HoldersFinite, FS_Subset, FS_CardinalityType
    <3>1. PoolOf(c)[p] = IF IsTask(p) THEN n + 0 ELSE 0
      BY <1>1, <1>11 DEF PoolOf
    <3>2. PoolOf(c)'[p] = IF IsTask(p) THEN n + 1 ELSE 0
      BY <1>1, <1>2, <1>4, <1>10 DEF PoolOf
    <3> HIDE DEF n
    <3>3. IsTask(p) <=> msg[p].type = "net"
      BY <1>1 DEF IsTask
    <3> QED BY <3>0, <3>1, <3>2, <3>3
  <2>3. PoolOf(c) = [x \in Packets |-> PoolOf(c)[x]] /\ PoolOf(c)' = [x \in Packets |-> PoolOf(c)'[x]]
    BY DEF PoolOf
  <2> QED BY <1>1, <2>1, <2>2, <2>3
<1>13. M!Publish(p, msg[p].type = "net")
  BY <1>9, <1>12 DEF M!Publish, boxes, pools, BroadcastThreads
<1> QED BY <1>1, <1>6, <1>7, <1>8, <1>13 DEF Keeps, MapsTo, M!Next

-----------------------------------------------------------------------------
(***************************************************************************)
(* Steps on the list of one thread.                                        *)
(***************************************************************************)
\* A step that changes the lists of one thread and no packet of ThreadMgr.
LEMMA InboxStep ==
    ASSUME BusInv, NEW t \in Threads, Touches(MsgQ(t)), msg' = msg, hold' = hold,
           pc[Main] = "dispatchOne" => todo' = todo,
           \A u \in Threads : u # t => pc'[u] = pc[u],
           pc'[t] # pc[t] => pc[t] = "msg" /\ pc'[t] = "proc",
           reader'[MsgQ(t)] # reader[MsgQ(t)] => pc'[t] = "proc"
    PROVE  /\ Keeps
           /\ Dispatched' = Dispatched /\ \A p : IsTask(p)' = IsTask(p)
           /\ \A u : InTransit(u)' = InTransit(u)
           /\ \A c, p : Unassigned(c, p)' = Unassigned(c, p)
           /\ \A u \in Threads : u # t => BoxOf(u)' = BoxOf(u) /\ Slots(MsgQ(u))' = Slots(MsgQ(u))
<1>1. /\ PacketsQ \in Queues /\ PacketsQ # MsgQ(t) /\ CreateQ \in Queues /\ CreateQ # MsgQ(t)
      /\ MsgQ(t) \in Queues /\ Main \in Threads
      /\ \A u \in Threads : u # t => MsgQ(u) \in Queues /\ MsgQ(u) # MsgQ(t)
  BY QueueFacts
<1>2. /\ reader'[PacketsQ] = reader[PacketsQ] /\ writer'[PacketsQ] = writer[PacketsQ]
      /\ reader'[CreateQ] = reader[CreateQ] /\ writer'[CreateQ] = writer[CreateQ]
      /\ \A u \in Threads : u # t => reader'[MsgQ(u)] = reader[MsgQ(u)] /\ writer'[MsgQ(u)] = writer[MsgQ(u)]
  BY <1>1 DEF Touches
<1>3. Dispatched' = Dispatched /\ \A p : IsTask(p)' = IsTask(p)
  BY DEF Dispatched, IsTask
<1>4. /\ pc'[Main] = "dispatchOne" <=> pc[Main] = "dispatchOne"
      /\ pc'[Main] = "dispatching" <=> pc[Main] = "dispatching"
  BY <1>1
<1>5. /\ \A u : InTransit(u)' = InTransit(u)
      /\ \A c, p : Unassigned(c, p)' = Unassigned(c, p)
      /\ Slots(PacketsQ)' = Slots(PacketsQ)
      /\ OneEach'
  BY <1>2, <1>4, ManagerSame DEF BusInv
<1>6. Kinds'
  <2>1. Slots(CreateQ)' = Slots(CreateQ)
    BY <1>2 DEF Slots
  <2> QED BY <1>3, <1>5, <2>1 DEF BusInv, Kinds
<1>7. Walked'
  <2>1. \A u \in Threads : pc'[u] # "proc" => reader'[MsgQ(u)] = <<>>
    BY <1>2 DEF BusInv, Walked
  <2>2. pc'[Main] \notin {"dispatching", "dispatchOne"} => reader'[PacketsQ] = <<>>
    BY <1>2, <1>4 DEF BusInv, Walked
  <2> QED BY <2>1, <2>2 DEF Walked
<1>8. \A u \in Threads : u # t => BoxOf(u)' = BoxOf(u) /\ Slots(MsgQ(u))' = Slots(MsgQ(u))
  BY <1>2, <1>3, <1>5 DEF BoxOf, Inbox, Slots
<1> QED BY <1>3, <1>5, <1>6, <1>7, <1>8 DEF Keeps

\* A packet that ThreadMgr does not dispatch is added to the list of one thread.
LEMMA AddOther ==
    ASSUME BusInv, NEW t \in Threads, NEW p \in Packets, p \notin Dispatched,
           Emplace(MsgQ(t), p), UNCHANGED <<reader, msg, pc, hold>>,
           pc[Main] = "dispatchOne" => todo' = todo
    PROVE  Keeps /\ MapsTo
<1>0. TypeOK /\ MsgQ(t) \in Queues
  BY QueueFacts DEF BusInv, IInv
<1>2. ~ IsTask(p)
  BY DEF Dispatched, IsTask
<1>3. Touches(MsgQ(t)) /\ writer'[MsgQ(t)] = Append(writer[MsgQ(t)], p) /\ reader'[MsgQ(t)] = reader[MsgQ(t)]
  BY <1>0, EmplaceLists
<1>4. Slots(MsgQ(t))' = Slots(MsgQ(t)) \union {p}
  BY <1>0, EmplaceFacts DEF BusInv, IInv
<1>5. /\ Keeps
      /\ Dispatched' = Dispatched /\ \A x : IsTask(x)' = IsTask(x)
      /\ \A u : InTransit(u)' = InTransit(u)
      /\ \A c, x : Unassigned(c, x)' = Unassigned(c, x)
      /\ \A u \in Threads : u # t => BoxOf(u)' = BoxOf(u) /\ Slots(MsgQ(u))' = Slots(MsgQ(u))
  BY <1>3, InboxStep
<1>6. BoxOf(t)' = BoxOf(t)
  <2>0. \A r, w \in Seq(Packets), e \in Packets : r \o Append(w, e) = Append(r \o w, e)
    BY ConcatAppend
  <2>1. Inbox(t)' = Append(Inbox(t), p) /\ Inbox(t) \in Seq(Packets)
    <3>1. reader[MsgQ(t)] \in Seq(Packets) /\ writer[MsgQ(t)] \in Seq(Packets) /\ Inbox(t) \in Seq(Packets)
      BY <1>0, InboxParts
    <3>2. Inbox(t)' = reader[MsgQ(t)] \o Append(writer[MsgQ(t)], p)
      BY <1>3 DEF Inbox
    <3>3. reader[MsgQ(t)] \o Append(writer[MsgQ(t)], p) = Append(reader[MsgQ(t)] \o writer[MsgQ(t)], p)
      BY <2>0, <3>1
    <3> QED BY <3>1, <3>2, <3>3 DEF Inbox
  <2>2. \A s \in Seq(Packets) : Kept(Append(s, p), Dispatched) = Kept(s, Dispatched)
    BY KeptAppend
  <2> QED BY <1>5, <2>1, <2>2 DEF BoxOf
<1>7. \A c : PoolOf(c)' = PoolOf(c)
  <2>1. \A x : x # p => Holders(x)' = Holders(x)
    BY <1>4, <1>5 DEF Holders
  <2> QED BY <1>2, <1>5, <2>1 DEF PoolOf
<1> QED BY <1>5, <1>6, <1>7 DEF MapsTo, boxes, pools, BroadcastThreads

\* A packet a thread posts to itself is no dispatched packet.
LEMMA ClosePostMap ==
    ASSUME BusInv, NEW t \in Threads, ClosePost(t)
    PROVE  Keeps /\ MapsTo
<1>1. /\ hold[t] \in Packets /\ msg[hold[t]].type = "close"
      /\ Emplace(MsgQ(t), hold[t]) /\ UNCHANGED <<reader, msg, pc, todo, hold>>
  BY DEF ClosePost, Holds, AddPacketToList, loopVars, TypeOK, BusInv, IInv
<1>2. hold[t] \notin Dispatched
  BY <1>1 DEF Dispatched
<1> QED BY <1>1, <1>2, AddOther

\* MessageSystem::Update swaps the lists of a thread: what it has to process is the same.
LEMMA MessageSwapMap ==
    ASSUME BusInv, NEW t \in Threads, MessageSwap(t)
    PROVE  Keeps /\ MapsTo
<1>0. TypeOK /\ ListsDistinct /\ MsgQ(t) \in Queues
  BY QueueFacts DEF BusInv, IInv
<1>1. /\ pc[t] = "msg" /\ reader[MsgQ(t)] = <<>> /\ Swap(MsgQ(t)) /\ Goto(t, "proc")
      /\ UNCHANGED <<msg, hold, todo>>
  BY DEF MessageSwap, loopVars, BusInv, Walked
<1>2. Touches(MsgQ(t)) /\ reader'[MsgQ(t)] = writer[MsgQ(t)] /\ writer'[MsgQ(t)] = <<>>
  BY <1>0, <1>1, SwapLists
<1>3. Slots(MsgQ(t))' = Slots(MsgQ(t))
  BY <1>0, <1>1, SwapFacts
<1>4. pc'[t] = "proc" /\ \A u \in Threads : u # t => pc'[u] = pc[u]
  BY <1>0, <1>1, GotoOnly
<1>5. /\ Keeps
      /\ Dispatched' = Dispatched /\ \A x : IsTask(x)' = IsTask(x)
      /\ \A u : InTransit(u)' = InTransit(u)
      /\ \A c, x : Unassigned(c, x)' = Unassigned(c, x)
      /\ \A u \in Threads : u # t => BoxOf(u)' = BoxOf(u) /\ Slots(MsgQ(u))' = Slots(MsgQ(u))
  BY <1>1, <1>2, <1>4, InboxStep
<1>6. BoxOf(t)' = BoxOf(t)
  <2>1. writer[MsgQ(t)] \in Seq(Packets)
    BY <1>0, InboxParts
  <2>2. \A s \in Seq(Packets) : s \o <<>> = s /\ <<>> \o s = s
    BY ConcatEmptySeq
  <2>3. Inbox(t)' = Inbox(t)
    BY <1>1, <1>2, <2>1, <2>2 DEF Inbox
  <2> QED BY <1>5, <2>3 DEF BoxOf
<1>7. \A x : Holders(x)' = Holders(x)
  BY <1>3, <1>5 DEF Holders
<1>8. \A c : PoolOf(c)' = PoolOf(c)
  BY <1>5, <1>7 DEF PoolOf
<1> QED BY <1>5, <1>6, <1>8 DEF MapsTo, boxes, pools, BroadcastThreads

\* A thread that is done with a packet consumes it, or takes the task from its collector.
LEMMA MessageDoneMap ==
    ASSUME BusInv, NEW t \in Threads, MessageDone(t)
    PROVE  Keeps /\ MapsTo
<1>p. PICK p : p = Head(reader[MsgQ(t)])
  OBVIOUS
<1>0. TypeOK /\ DeliveringOne /\ MsgQ(t) \in Queues
  BY QueueFacts DEF BusInv, IInv
<1>1. /\ pc[t] = "proc" /\ reader[MsgQ(t)] # <<>> /\ Advance(MsgQ(t)) /\ Goto(t, "proc")
      /\ UNCHANGED <<writer, msg, hold, todo>>
  BY DEF MessageDone, loopVars
<1>2. Touches(MsgQ(t)) /\ reader'[MsgQ(t)] = Tail(reader[MsgQ(t)]) /\ writer'[MsgQ(t)] = writer[MsgQ(t)]
  BY <1>0, <1>1, AdvanceLists
<1>3. p \in Packets /\ p \in Slots(MsgQ(t)) /\ Slots(MsgQ(t))' = Slots(MsgQ(t)) \ {p}
  BY <1>p, <1>0, <1>1, AdvanceFacts DEF BusInv, IInv
<1>4. pc'[t] = "proc" /\ \A u \in Threads : u # t => pc'[u] = pc[u]
  BY <1>0, <1>1, GotoOnly
<1>5. /\ Keeps
      /\ Dispatched' = Dispatched /\ \A x : IsTask(x)' = IsTask(x)
      /\ \A u : InTransit(u)' = InTransit(u)
      /\ \A c, x : Unassigned(c, x)' = Unassigned(c, x)
      /\ \A u \in Threads : u # t => BoxOf(u)' = BoxOf(u) /\ Slots(MsgQ(u))' = Slots(MsgQ(u))
  BY <1>1, <1>2, <1>4, InboxStep
<1>6. Inbox(t) \in Seq(Packets) /\ Inbox(t) # <<>> /\ Head(Inbox(t)) = p /\ Inbox(t)' = Tail(Inbox(t))
  <2>1. reader[MsgQ(t)] \in Seq(Packets) /\ writer[MsgQ(t)] \in Seq(Packets) /\ Inbox(t) \in Seq(Packets)
    BY <1>0, InboxParts
  <2>2. \A s, r \in Seq(Packets) : s # <<>> => s \o r # <<>> /\ Head(s \o r) = Head(s) /\ Tail(s \o r) = Tail(s) \o r
    BY ConcatTail
  <2>3. /\ reader[MsgQ(t)] \o writer[MsgQ(t)] # <<>>
        /\ Head(reader[MsgQ(t)] \o writer[MsgQ(t)]) = p
        /\ Tail(reader[MsgQ(t)] \o writer[MsgQ(t)]) = Tail(reader[MsgQ(t)]) \o writer[MsgQ(t)]
    BY <1>p, <1>1, <2>1, <2>2
  <2>4. Inbox(t)' = Tail(reader[MsgQ(t)]) \o writer[MsgQ(t)]
    BY <1>2 DEF Inbox
  <2> QED BY <2>1, <2>3, <2>4 DEF Inbox
<1>7. Holders(p)' = Holders(p) \ {t} /\ t \in Holders(p) /\ \A x : x # p => Holders(x)' = Holders(x)
  BY <1>3, <1>5 DEF Holders
<1>8. /\ p \notin Dispatched => BoxOf(t)' = BoxOf(t)
      /\ p \in Dispatched => BoxOf(t) # <<>> /\ BoxOf(t)' = Tail(BoxOf(t))
  <2>1. /\ \A s \in Seq(Packets) : Kept(s, Dispatched) \in Seq(Packets)
        /\ \A s \in Seq(Packets) : s # <<>> =>
              /\ Head(s) \notin Dispatched => Kept(s, Dispatched) = Kept(Tail(s), Dispatched)
              /\ Head(s) \in Dispatched => /\ Kept(s, Dispatched) # <<>>
                                           /\ Tail(Kept(s, Dispatched)) = Kept(Tail(s), Dispatched)
    BY KeptType, KeptHead
  <2>2. /\ p \notin Dispatched => Kept(Inbox(t), Dispatched) = Kept(Tail(Inbox(t)), Dispatched)
        /\ p \in Dispatched => /\ Kept(Inbox(t), Dispatched) # <<>>
                               /\ Tail(Kept(Inbox(t), Dispatched)) = Kept(Tail(Inbox(t)), Dispatched)
        /\ Kept(Inbox(t), Dispatched) \in Seq(Packets)
    BY <1>6, <2>1
  <2>3. BoxOf(t)' = Kept(Tail(Inbox(t)), Dispatched) \o InTransit(t)
    BY <1>5, <1>6 DEF BoxOf
  <2>4. \A s, r \in Seq(Packets) : s # <<>> => s \o r # <<>> /\ Tail(s \o r) = Tail(s) \o r
    BY ConcatTail
  <2>5. InTransit(t) \in Seq(Packets)
    BY <1>0, TransitType
  <2> QED BY <2>2, <2>3, <2>4, <2>5 DEF BoxOf
<1>9. CASE t \in BroadcastThreads
  <2>1. \A c \in Exclusive : t \notin Members[c]
    BY <1>9 DEF BroadcastThreads
  <2>2. \A c \in Exclusive : PoolOf(c)' = PoolOf(c)
    <3>1. \A c \in Exclusive : \A x : Holders(x)' \cap Members[c] = Holders(x) \cap Members[c]
      BY <1>7, <2>1
    <3> QED BY <1>5, <3>1 DEF PoolOf
  <2>3. CASE p \in Dispatched
    <3>1. M!Consume(t)
      <4>1. boxes[t] # <<>> /\ boxes' = [boxes EXCEPT ![t] = Tail(@)]
        BY <1>5, <1>8, <1>9, <2>3 DEF boxes, BroadcastThreads
      <4>2. pools' = pools
        BY <2>2 DEF pools
      <4> QED BY <4>1, <4>2 DEF M!Consume
    <3> QED BY <1>5, <1>9, <3>1 DEF MapsTo, M!Next
  <2>4. CASE p \notin Dispatched
    <3>1. UNCHANGED <<boxes, pools>>
      BY <1>5, <1>8, <2>2, <2>4 DEF boxes, pools, BroadcastThreads
    <3> QED BY <1>5, <3>1 DEF MapsTo
  <2> QED BY <2>3, <2>4
<1>10. CASE t \notin BroadcastThreads
  <2>1. PICK c \in Exclusive : t \in Members[c]
    BY <1>10 DEF BroadcastThreads
  <2>2. \A d \in Exclusive : d # c => t \notin Members[d]
    BY <2>1, MembersAssumption, ThreadsAssumption
  <2>3. boxes' = boxes
    BY <1>5, <1>10 DEF boxes, BroadcastThreads
  <2>4. \A d \in Exclusive, x \in Packets : d # c \/ x # p \/ ~ IsTask(p) => PoolOf(d)'[x] = PoolOf(d)[x]
    <3>1. \A d \in Exclusive, x \in Packets : d # c \/ x # p => Holders(x)' \cap Members[d] = Holders(x) \cap Members[d]
      BY <1>7, <2>2
    <3> QED BY <1>5, <3>1 DEF PoolOf
  <2>5. \A d : PoolOf(d) = [x \in Packets |-> PoolOf(d)[x]] /\ PoolOf(d)' = [x \in Packets |-> PoolOf(d)'[x]]
    BY DEF PoolOf
  <2>6. CASE IsTask(p)
    <3> DEFINE H == Holders(p) \cap Members[c]
    <3>1. /\ IsFiniteSet(H) /\ t \in H /\ Holders(p)' \cap Members[c] = H \ {t}
      <4>1. IsFiniteSet(H)
        <5>1. H \subseteq Holders(p)
          OBVIOUS
        <5> QED BY <5>1, HoldersFinite, FS_Subset
      <4> QED BY <4>1, <1>7, <2>1
    <3>2. /\ Cardinality(H) \in Nat /\ Cardinality(H) > 0 /\ Cardinality(H \ {t}) = Cardinality(H) - 1
      <4> HIDE DEF H
      <4>1. Cardinality(H) \in Nat /\ Cardinality(H \ {t}) = Cardinality(H) - 1
        BY <3>1, FS_CardinalityType, FS_RemoveElement
      <4>2. H # {}
        BY <3>1
      <4>3. Cardinality(H) # 0
        BY <3>1, <4>2, FS_EmptySet
      <4> QED BY <4>1, <4>3
    <3>3. PoolOf(c)[p] > 0 /\ PoolOf(c)'[p] = PoolOf(c)[p] - 1
      <4>1. /\ PoolOf(c)[p] = Cardinality(H) + (IF Unassigned(c, p) THEN 1 ELSE 0)
            /\ PoolOf(c)'[p] = Cardinality(H \ {t}) + (IF Unassigned(c, p) THEN 1 ELSE 0)
        BY <1>3, <1>5, <2>6, <3>1 DEF PoolOf
      <4> HIDE DEF H
      <4> QED BY <3>2, <4>1
    <3>4. PoolOf(c)' = [PoolOf(c) EXCEPT ![p] = @ - 1] /\ \A d \in Exclusive : d # c => PoolOf(d)' = PoolOf(d)
      BY <1>3, <2>1, <2>4, <2>5, <3>3
    <3>5. pools[c][p] > 0 /\ pools' = [pools EXCEPT ![c][p] = @ - 1]
      BY <2>1, <3>3, <3>4 DEF pools
    <3>6. M!Take(c, p)
      BY <2>3, <3>5 DEF M!Take
    <3> QED BY <1>3, <1>5, <2>1, <3>6 DEF MapsTo, M!Next
  <2>7. CASE ~ IsTask(p)
    <3>1. \A d \in Exclusive : PoolOf(d)' = PoolOf(d)
      BY <2>4, <2>5, <2>7
    <3>2. pools' = pools
      BY <3>1 DEF pools
    <3> QED BY <1>5, <2>3, <3>2 DEF MapsTo
  <2> QED BY <2>6, <2>7
<1> QED BY <1>9, <1>10

\* ThreadMgr swaps its lists: what is in transit is the same.
LEMMA UpdateDispatchMap ==
    ASSUME BusInv, UpdateDispatchPacket
    PROVE  Keeps /\ MapsTo
<1>0. /\ TypeOK /\ ListsDistinct /\ PacketsQ \in Queues /\ PacketsQ \in OwnerQueues /\ PacketsQ # CreateQ
      /\ CreateQ \in Queues /\ Main \in Threads
  BY QueueFacts DEF BusInv, IInv
<1>1. /\ pc[Main] = "dispatch" /\ reader[PacketsQ] = <<>> /\ Swap(PacketsQ) /\ Goto(Main, "dispatching")
      /\ UNCHANGED <<msg, hold, todo>>
  BY DEF UpdateDispatchPacket, loopVars, BusInv, Walked
<1>2. Touches(PacketsQ) /\ reader'[PacketsQ] = writer[PacketsQ] /\ writer'[PacketsQ] = <<>>
  BY <1>0, <1>1, SwapLists
<1>3. /\ \A q \in Queues : Slots(q)' = Slots(q)
      /\ \A u \in Threads : Inbox(u)' = Inbox(u)
      /\ \A x : Holders(x)' = Holders(x)
  BY <1>0, <1>1, <1>2, SwapFacts, TouchesSlots
<1>4. pc'[Main] = "dispatching" /\ \A u \in Threads : u # Main => pc'[u] = pc[u]
  BY <1>0, <1>1, GotoOnly
<1>5. Dispatched' = Dispatched /\ \A x : IsTask(x)' = IsTask(x)
  BY <1>1 DEF Dispatched, IsTask
<1>6. Keeps
  <2>1. Walked'
    <3>1. \A u \in Threads : MsgQ(u) \in Queues /\ MsgQ(u) # PacketsQ
      BY <1>0, QueueFacts
    <3>2. \A u \in Threads : reader'[MsgQ(u)] = reader[MsgQ(u)]
      BY <1>2, <3>1 DEF Touches
    <3> QED BY <1>1, <1>4, <3>2 DEF BusInv, Walked
  <2>2. Kinds'
    BY <1>0, <1>1, <1>3, <1>5 DEF BusInv, Kinds
  <2>3. OneEach'
    BY <1>4 DEF OneEach
  <2> QED BY <2>1, <2>2, <2>3 DEF Keeps
<1>7. \A u : InTransit(u)' = InTransit(u)
  <2>1. writer[PacketsQ] \in Seq(Packets)
    BY <1>0 DEF TypeOK
  <2>2. \A s \in Seq(Packets) : s \o <<>> = s /\ <<>> \o s = s
    BY ConcatEmptySeq
  <2> QED BY <1>1, <1>2, <1>4, <2>1, <2>2 DEF InTransit
<1>8. \A c, x : Unassigned(c, x)' = Unassigned(c, x)
  BY <1>0, <1>1, <1>3, <1>4 DEF Unassigned
<1>9. \A u \in Threads : BoxOf(u)' = BoxOf(u)
  BY <1>3, <1>5, <1>7 DEF BoxOf
<1>10. \A c : PoolOf(c)' = PoolOf(c)
  BY <1>3, <1>5, <1>8 DEF PoolOf
<1> QED BY <1>6, <1>9, <1>10 DEF MapsTo, boxes, pools, BroadcastThreads

\* ThreadMgr chooses whom the packet at hand is for: one thread of an exclusive collector.
LEMMA DispatchBeginMap ==
    ASSUME BusInv, DispatchBegin
    PROVE  Keeps /\ MapsTo
<1>0. TypeOK /\ Main \in Threads /\ Main = 0
  BY QueueFacts DEF BusInv, IInv, Main
<1>1. /\ pc[Main] = "dispatching" /\ reader[PacketsQ] # <<>> /\ Goto(Main, "dispatchOne")
      /\ UNCHANGED <<msg, hold, reader, writer>>
  BY DEF DispatchBegin, cacheVars
<1>2. PICK one \in SUBSET Exclusive :
        /\ todo' = {Main} \union {NextThread(c) : c \in one}
                          \union UNION {Members[c] : c \in Collectors \ one}
        /\ msg[Head(reader[PacketsQ])].type = "net" => one = Exclusive
  <2> DEFINE one == IF msg[Head(reader[PacketsQ])].type = "cmd" THEN {} ELSE Exclusive
  <2>1. todo' = {Main} \union {NextThread(c) : c \in one} \union UNION {Members[c] : c \in Collectors \ one}
    BY DEF DispatchBegin
  <2>2. one \in SUBSET Exclusive /\ (msg[Head(reader[PacketsQ])].type = "net" => one = Exclusive)
    OBVIOUS
  <2> HIDE DEF one
  <2> QED BY <2>1, <2>2
<1>3. pc'[Main] = "dispatchOne" /\ \A u \in Threads : u # Main => pc'[u] = pc[u]
  BY <1>0, <1>1, GotoOnly
<1>4. /\ Dispatched' = Dispatched /\ \A x : IsTask(x)' = IsTask(x)
      /\ \A q : Slots(q)' = Slots(q)
      /\ \A u \in Threads : Inbox(u)' = Inbox(u)
      /\ \A x : Holders(x)' = Holders(x)
  BY <1>1 DEF Dispatched, IsTask, Inbox, Slots, Holders
<1>5. \A c \in Collectors : NextThread(c) \in Members[c] /\ Main \notin Members[c]
  <2> SUFFICES ASSUME NEW c \in Collectors PROVE NextThread(c) \in Members[c] /\ Main \notin Members[c]
    OBVIOUS
  <2>1. Members[c] \in SUBSET Nat /\ Members[c] # {} /\ 0 \notin Members[c]
    BY ThreadsAssumption
  <2> QED BY <1>0, <2>1, LeastMember DEF NextThread
<1>6. \A u \in BroadcastThreads : u \in todo'
  <2> SUFFICES ASSUME NEW u \in BroadcastThreads, u # Main PROVE u \in todo'
    BY <1>2
  <2>1. PICK c \in Collectors : u \in Members[c]
    BY DEF BroadcastThreads, Threads
  <2>2. c \notin one
    BY <1>2, <2>1 DEF BroadcastThreads
  <2> QED BY <1>2, <2>1, <2>2
<1>7. ASSUME one = Exclusive, NEW c \in Exclusive
      PROVE  todo' \cap Members[c] = {NextThread(c)}
  <2>1. c \in Collectors /\ NextThread(c) \in Members[c] /\ NextThread(c) \in todo'
    BY <1>2, <1>5, <1>7, ThreadsAssumption
  <2>2. ASSUME NEW u \in todo' \cap Members[c] PROVE u = NextThread(c)
    <3>1. u # Main
      BY <1>5, <2>1, <2>2
    <3>2. CASE \E d \in one : u = NextThread(d)
      <4>1. PICK d \in one : u = NextThread(d)
        BY <3>2
      <4>2. d \in Collectors /\ u \in Members[d]
        BY <1>5, <4>1, ThreadsAssumption
      <4> QED BY <2>1, <2>2, <4>1, <4>2, MembersAssumption
    <3>3. CASE \E d \in Collectors \ one : u \in Members[d]
      BY <1>7, <2>1, <2>2, <3>3, MembersAssumption
    <3> QED BY <1>2, <2>2, <3>1, <3>2, <3>3
  <2> QED BY <2>1, <2>2
<1>8. Keeps
  <2>1. Walked'
    BY <1>1, <1>3 DEF BusInv, Walked
  <2>2. Kinds'
    BY <1>1, <1>4 DEF BusInv, Kinds
  <2>3. OneEach'
    <3>1. msg[Head(reader[PacketsQ])].type = "net" => \A c \in Exclusive : \A u, v \in todo' \cap Members[c] : u = v
      BY <1>2, <1>7
    <3> QED BY <1>1, <3>1 DEF OneEach
  <2> QED BY <2>1, <2>2, <2>3 DEF Keeps
<1>9. \A u \in BroadcastThreads : BoxOf(u)' = BoxOf(u)
  <2>1. \A u \in BroadcastThreads : InTransit(u)' = InTransit(u)
    BY <1>1, <1>6 DEF InTransit
  <2> QED BY <1>4, <2>1 DEF BoxOf, BroadcastThreads
<1>10. \A c \in Exclusive : PoolOf(c)' = PoolOf(c)
  <2> SUFFICES ASSUME NEW c \in Exclusive PROVE PoolOf(c)' = PoolOf(c)
    OBVIOUS
  <2>1. \A x : IsTask(x) => Unassigned(c, x)' = Unassigned(c, x)
    <3>1. \A x : x = Head(reader[PacketsQ]) /\ IsTask(x) => todo' \cap Members[c] # {}
      BY <1>2, <1>7 DEF IsTask
    <3> QED BY <1>1, <1>3, <1>4, <3>1 DEF Unassigned
  <2> QED BY <1>4, <2>1 DEF PoolOf
<1> QED BY <1>8, <1>9, <1>10 DEF MapsTo, boxes, pools

\* The packet at hand is added to the list of a thread.
LEMMA DeliverMap ==
    ASSUME BusInv, Deliver
    PROVE  Keeps /\ MapsTo
<1>0. TypeOK /\ DeliveringOne /\ IInv
  BY DEF BusInv, IInv
<1>p. PICK p : p = Head(reader[CurrentQ])
  OBVIOUS
<1>1. PICK t \in todo : Emplace(MsgQ(t), p) /\ todo' = todo \ {t}
  BY <1>p DEF Deliver, AddPacketToList
<1>2. /\ t \in Threads /\ Delivering /\ UNCHANGED <<reader, msg, pc, hold>>
      /\ \A q \in Queues : q \in OwnerQueues => q # MsgQ(t)
      /\ MsgQ(t) \in Queues /\ PacketsQ \in Queues /\ PacketsQ \in OwnerQueues
      /\ CreateQ \in Queues /\ CreateQ \in OwnerQueues
  BY <1>0, QueueFacts DEF Deliver, TypeOK
<1>3. AtHand(p)
  BY <1>p, <1>2 DEF AtHand
<1>4. /\ p \in Packets /\ p \in Slots(CurrentQ) /\ ~ Held(p) /\ ~ open[p]
  BY <1>0, <1>3, AtHandOwned
<1>5. CASE pc[Main] = "createOne"
  <2>1. p \notin Dispatched
    BY <1>4, <1>5 DEF BusInv, Kinds, CurrentQ
  <2> QED BY <1>1, <1>2, <1>4, <1>5, <2>1, AddOther
<1>6. CASE pc[Main] = "dispatchOne"
  <2>1. /\ p = Head(reader[PacketsQ]) /\ p \in Slots(PacketsQ) /\ p \in Dispatched
        /\ reader[PacketsQ] # <<>> /\ pc'[Main] = "dispatchOne"
    BY <1>p, <1>0, <1>2, <1>4, <1>6, TransitType DEF CurrentQ, BusInv, Kinds
  <2>2. /\ Touches(MsgQ(t)) /\ writer'[MsgQ(t)] = Append(writer[MsgQ(t)], p)
        /\ reader'[MsgQ(t)] = reader[MsgQ(t)]
    BY <1>0, <1>1, <1>2, EmplaceLists
  <2>3. /\ Slots(MsgQ(t))' = Slots(MsgQ(t)) \union {p}
        /\ \A q \in Queues : q # MsgQ(t) => Slots(q)' = Slots(q)
    BY <1>0, <1>1, <1>2, <1>4, EmplaceFacts DEF IInv
  <2>4. p \notin Slots(MsgQ(t))
    BY <1>0, <1>1, <1>2, <1>4 DEF IInv, ListedWhileOwned, Held
  <2>5. Dispatched' = Dispatched /\ \A x : IsTask(x)' = IsTask(x)
    BY <1>2 DEF Dispatched, IsTask
  <2>6. writer'[PacketsQ] = writer[PacketsQ] /\ Slots(PacketsQ)' = Slots(PacketsQ) /\ Slots(CreateQ)' = Slots(CreateQ)
    BY <1>2, <2>2, <2>3 DEF Touches
  <2>7. \A u \in Threads : u # t => Inbox(u)' = Inbox(u) /\ Slots(MsgQ(u))' = Slots(MsgQ(u))
    <3>1. \A u \in Threads : u # t => MsgQ(u) \in Queues /\ MsgQ(u) # MsgQ(t)
      BY <1>2, QueueFacts
    <3> QED BY <2>2, <2>3, <3>1 DEF Touches, Inbox
  <2>8. Keeps
    <3>1. Walked'
      BY <1>2 DEF BusInv, Walked
    <3>2. Kinds'
      BY <1>2, <2>5, <2>6 DEF BusInv, Kinds
    <3>3. OneEach'
      BY <1>1, <1>2 DEF BusInv, OneEach
    <3> QED BY <3>1, <3>2, <3>3 DEF Keeps
  <2>9. BoxOf(t)' = BoxOf(t)
    <3>1. reader[MsgQ(t)] \in Seq(Packets) /\ writer[MsgQ(t)] \in Seq(Packets) /\ Inbox(t) \in Seq(Packets)
      BY <1>0, <1>2, InboxParts
    <3>2. Inbox(t)' = Append(Inbox(t), p)
      <4>1. \A r, w \in Seq(Packets), e \in Packets : r \o Append(w, e) = Append(r \o w, e)
        BY ConcatAppend
      <4> QED BY <1>4, <2>2, <3>1, <4>1 DEF Inbox
    <3>3. Kept(Append(Inbox(t), p), Dispatched) = Append(Kept(Inbox(t), Dispatched), p)
      BY <1>4, <2>1, <3>1, KeptAppend
    <3> DEFINE z == reader[PacketsQ] \o writer[PacketsQ]
               k == Kept(Inbox(t), Dispatched)
    <3>4. z \in Seq(Packets) /\ z # <<>> /\ Head(z) = p /\ Tail(z) = Tail(reader[PacketsQ]) \o writer[PacketsQ]
      <4>1. reader[PacketsQ] \in Seq(Packets) /\ writer[PacketsQ] \in Seq(Packets)
        BY <1>0, TransitType
      <4>2. \A s, r \in Seq(Packets) :
               s # <<>> => s \o r # <<>> /\ Head(s \o r) = Head(s) /\ Tail(s \o r) = Tail(s) \o r
        BY ConcatTail
      <4>3. \A s, r \in Seq(Packets) : s \o r \in Seq(Packets)
        BY ConcatProperties
      <4> QED BY <2>1, <4>1, <4>2, <4>3
    <3>5. k \in Seq(Packets)
      BY <3>1, KeptType
    <3>6. InTransit(t) = z /\ InTransit(t)' = Tail(z)
      <4>1. t \in todo /\ t \notin todo'
        BY <1>1
      <4> QED BY <1>2, <2>1, <2>6, <3>4, <4>1 DEF InTransit
    <3>7. Append(k, p) \o Tail(z) = k \o z
      <4> HIDE DEF k, z
      <4>1. \A s, r \in Seq(Packets) : r # <<>> => Append(s, Head(r)) \o Tail(r) = s \o r
        BY ConcatMiddle
      <4> QED BY <3>4, <3>5, <4>1
    <3> QED BY <2>5, <3>2, <3>3, <3>6, <3>7 DEF BoxOf
  <2>10. \A u \in Threads : u # t => BoxOf(u)' = BoxOf(u)
    <3>1. \A u \in Threads : u # t => InTransit(u)' = InTransit(u)
      BY <1>1, <1>2, <2>6 DEF InTransit
    <3> QED BY <2>5, <2>7, <3>1 DEF BoxOf
  <2>11. Holders(p)' = Holders(p) \union {t} /\ t \notin Holders(p) /\ \A x : x # p => Holders(x)' = Holders(x)
    BY <1>2, <2>3, <2>4, <2>7 DEF Holders
  <2>12. ASSUME NEW c \in Exclusive PROVE PoolOf(c)' = PoolOf(c)
    <3>1. \A x \in Packets : x # p => PoolOf(c)'[x] = PoolOf(c)[x]
      <4>1. \A x : x # p => Unassigned(c, x)' = Unassigned(c, x)
        BY <1>2, <2>1, <2>6 DEF Unassigned
      <4> QED BY <2>5, <2>11, <4>1 DEF PoolOf
    <3>2. /\ Unassigned(c, p) <=> todo \cap Members[c] # {}
          /\ Unassigned(c, p)' <=> todo' \cap Members[c] # {}
      BY <1>2, <1>6, <2>1, <2>6 DEF Unassigned
    <3>3. PoolOf(c)'[p] = PoolOf(c)[p]
      <4>1. CASE ~ IsTask(p)
        BY <1>4, <2>5, <4>1 DEF PoolOf
      <4>2. CASE IsTask(p) /\ t \notin Members[c]
        <5>1. todo' \cap Members[c] = todo \cap Members[c] /\ Holders(p)' \cap Members[c] = Holders(p) \cap Members[c]
          BY <1>1, <2>11, <4>2
        <5> QED BY <1>4, <2>5, <3>2, <5>1 DEF PoolOf
      <4>3. CASE IsTask(p) /\ t \in Members[c]
        <5> DEFINE H == Holders(p) \cap Members[c]
        <5>1. \A u, v \in todo \cap Members[c] : u = v
          BY <1>6, <2>1, <4>3 DEF IsTask, BusInv, OneEach
        <5>2. todo \cap Members[c] # {} /\ todo' \cap Members[c] = {}
          BY <1>1, <4>3, <5>1
        <5>3. t \notin H /\ Holders(p)' \cap Members[c] = H \union {t} /\ IsFiniteSet(H)
          <6>1. H \subseteq Holders(p)
            OBVIOUS
          <6> QED BY <2>11, <4>3, <6>1, HoldersFinite, FS_Subset
        <5>4. Cardinality(H) \in Nat /\ Cardinality(H \union {t}) = Cardinality(H) + 1
          <6> HIDE DEF H
          <6> QED BY <5>3, FS_CardinalityType, FS_AddElement
        <5>5. PoolOf(c)[p] = Cardinality(H) + 1 /\ PoolOf(c)'[p] = Cardinality(H \union {t}) + 0
          BY <1>4, <2>5, <3>2, <4>3, <5>2, <5>3 DEF PoolOf
        <5> HIDE DEF H
        <5> QED BY <5>4, <5>5
      <4> QED BY <4>1, <4>2, <4>3
    <3>4. PoolOf(c) = [x \in Packets |-> PoolOf(c)[x]] /\ PoolOf(c)' = [x \in Packets |-> PoolOf(c)'[x]]
      BY DEF PoolOf
    <3> QED BY <3>1, <3>3, <3>4
  <2> QED BY <2>8, <2>9, <2>10, <2>12 DEF MapsTo, boxes, pools, BroadcastThreads
<1> QED BY <1>2, <1>5, <1>6 DEF Delivering

\* Every thread has the packet at hand.
LEMMA DeliverEndMap ==
    ASSUME BusInv, DeliverEnd
    PROVE  Keeps /\ MapsTo
<1>0. /\ TypeOK /\ DeliveringOne /\ ListsDistinct /\ Main \in Threads
      /\ PacketsQ \in Queues /\ PacketsQ \in OwnerQueues /\ CreateQ \in Queues /\ CreateQ # PacketsQ
  BY QueueFacts DEF BusInv, IInv
<1>1. CASE pc[Main] = "createOne"
  BY <1>1, QuietMain
<1>2. CASE pc[Main] = "dispatchOne"
  <2>p. PICK p : p = Head(reader[PacketsQ])
    OBVIOUS
  <2>1. /\ todo = {} /\ Advance(PacketsQ) /\ reader[PacketsQ] # <<>> /\ Goto(Main, "dispatching")
        /\ UNCHANGED <<writer, msg, hold, todo>>
    BY <1>0, <1>2, TransitType DEF DeliverEnd, CurrentQ, loopVars
  <2>2. Touches(PacketsQ) /\ reader'[PacketsQ] = Tail(reader[PacketsQ]) /\ writer'[PacketsQ] = writer[PacketsQ]
    BY <1>0, <2>1, AdvanceLists
  <2>3. /\ Slots(PacketsQ)' = Slots(PacketsQ) \ {p} /\ Slots(CreateQ)' = Slots(CreateQ)
        /\ \A u \in Threads : Inbox(u)' = Inbox(u)
        /\ \A x : Holders(x)' = Holders(x)
    BY <2>p, <1>0, <2>1, <2>2, AdvanceFacts, TouchesSlots
  <2>4. pc'[Main] = "dispatching" /\ \A u \in Threads : u # Main => pc'[u] = pc[u]
    BY <1>0, <2>1, GotoOnly
  <2>5. Dispatched' = Dispatched /\ \A x : IsTask(x)' = IsTask(x)
    BY <2>1 DEF Dispatched, IsTask
  <2>6. Keeps
    <3>1. Walked'
      <4>1. \A u \in Threads : MsgQ(u) \in Queues /\ MsgQ(u) # PacketsQ
        BY <1>0, QueueFacts
      <4>2. \A u \in Threads : reader'[MsgQ(u)] = reader[MsgQ(u)]
        BY <2>2, <4>1 DEF Touches
      <4> QED BY <1>2, <2>4, <4>2 DEF BusInv, Walked
    <3>2. Kinds'
      BY <2>1, <2>3, <2>5 DEF BusInv, Kinds
    <3>3. OneEach'
      BY <2>4 DEF OneEach
    <3> QED BY <3>1, <3>2, <3>3 DEF Keeps
  <2>7. \A u : InTransit(u)' = InTransit(u)
    BY <1>2, <2>1, <2>2, <2>4 DEF InTransit
  <2>8. \A c, x : Unassigned(c, x)' = Unassigned(c, x)
    BY <2>p, <1>2, <2>1, <2>3, <2>4 DEF Unassigned
  <2>9. \A u \in Threads : BoxOf(u)' = BoxOf(u)
    BY <2>3, <2>5, <2>7 DEF BoxOf
  <2>10. \A c : PoolOf(c)' = PoolOf(c)
    BY <2>3, <2>5, <2>8 DEF PoolOf
  <2> QED BY <2>6, <2>9, <2>10 DEF MapsTo, boxes, pools, BroadcastThreads
<1> QED BY <1>1, <1>2 DEF DeliverEnd, Delivering

-----------------------------------------------------------------------------
\* Empty lists are empty mailboxes.
LEMMA BusInit == Init => BusInv /\ M!Init
<1> SUFFICES ASSUME Init PROVE BusInv /\ M!Init
  OBVIOUS
<1>1. IInv /\ Main \in Threads /\ PacketsQ \in Queues /\ CreateQ \in Queues /\ \A t \in Threads : MsgQ(t) \in Queues
  BY InitStep, QueueFacts
<1>2. /\ \A q \in Queues : writer[q] = <<>> /\ reader[q] = <<>>
      /\ \A t \in Threads : hold[t] = NoPacket
      /\ \A p \in Packets : msg[p] = NoMsg
      /\ pc[Main] = "create"
  BY <1>1 DEF Init
<1>3. \A q \in Queues : Slots(q) = {}
  BY <1>2, EmptyRange DEF Slots
<1>4. Walked /\ Kinds /\ OneEach
  BY <1>1, <1>2, <1>3 DEF Walked, Kinds, OneEach
<1>5. <<>> \o <<>> = <<>>
  <2>1. <<>> \in Seq({})
    BY EmptySeq
  <2> QED BY <2>1, ConcatEmptySeq
<1>6. \A D : Kept(<<>>, D) = <<>>
  <2> SUFFICES ASSUME NEW D PROVE Kept(<<>>, D) = <<>>
    OBVIOUS
  <2>1. <<>> \in Seq({}) /\ Len(<<>>) = 0
    BY EmptySeq
  <2>2. \A s \in Seq({}) : \E k : Kept(s, D) = k[Len(s)] /\ k[0] = <<>>
    BY KeptBy
  <2> QED BY <2>1, <2>2
<1>7. \A t \in Threads : BoxOf(t) = <<>>
  BY <1>1, <1>2, <1>5, <1>6 DEF BoxOf, Inbox, InTransit
<1>8. \A c : PoolOf(c) = [p \in Packets |-> 0]
  BY <1>2 DEF PoolOf, IsTask
<1>9. M!Init
  BY <1>7, <1>8 DEF M!Init, boxes, pools, BroadcastThreads
<1> QED BY <1>1, <1>4, <1>9 DEF BusInv

\* Every step of the packet bus keeps BusInv and is a step of the mailboxes or none.
LEMMA BusStep == BusInv /\ [Next]_vars => BusInv' /\ MapsTo
<1> SUFFICES ASSUME BusInv, [Next]_vars PROVE BusInv' /\ MapsTo
  OBVIOUS
<1>1. IInv'
  BY InvarianceStep DEF BusInv
<1>2. ASSUME NEW t \in Threads, PassOn(t) PROVE Keeps /\ MapsTo
  BY <1>2, DispatchMap, ClosePostMap, QuietPassOn DEF PassOn
<1>3. ASSUME NEW t \in Threads, Loop(t) PROVE Keeps /\ MapsTo
  BY <1>3, MessageSwapMap, MessageDoneMap, QuietLoop DEF Loop
<1>4. ASSUME NEW t \in Threads, NEW m \in Msgs, Malloc(t, m) PROVE Keeps /\ MapsTo
  BY <1>4, MallocMap
<1>5. ASSUME MainLoop PROVE Keeps /\ MapsTo
  <2>1. CASE UpdateDispatchPacket
    BY <2>1, UpdateDispatchMap
  <2>2. CASE DispatchBegin
    BY <2>2, DispatchBeginMap
  <2>3. CASE Deliver
    BY <2>3, DeliverMap
  <2>4. CASE DeliverEnd
    BY <2>4, DeliverEndMap
  <2>5. CASE UpdateCreatePacket \/ CreateBegin \/ CreateUnknown \/ CreateEnd \/ DispatchEnd \/ PoolUpdate
    BY <2>5, QuietMain
  <2> QED BY <1>5, <2>1, <2>2, <2>3, <2>4, <2>5 DEF MainLoop
<1>6. ASSUME UNCHANGED vars PROVE Keeps /\ MapsTo
  <2>1. UNCHANGED <<msg, cacheVars, pc, todo>> /\ hold' = hold
    BY <1>6 DEF vars, loopVars
  <2>2. \A t \in Threads : hold'[t] \in {hold[t], NoPacket}
    BY <2>1
  <2> QED BY <2>1, <2>2, QuietHand
<1>7. Keeps /\ MapsTo
  <2>1. CASE \E t \in Threads : PassOn(t)
    BY <1>2, <2>1
  <2>2. CASE \E t \in Threads : Loop(t)
    BY <1>3, <2>2
  <2>3. CASE \E t \in Threads : \E m \in Msgs : Malloc(t, m)
    BY <1>4, <2>3
  <2> QED BY <1>5, <1>6, <2>1, <2>2, <2>3 DEF Next
<1> QED BY <1>1, <1>7 DEF BusInv, Keeps

\* The packet bus implements the mailboxes: every broadcast thread takes every
\* dispatched packet once and in order, one thread of an exclusive collector takes
\* each task (ThreadMgr::UpdateDispatchPacket, HandlerMessage, MessageSystem::Update).
THEOREM BusImplementsMailboxes == Spec => Delivery
<1>1. Init => BusInv /\ M!Init
  BY BusInit
<1>2. BusInv /\ [Next]_vars => BusInv' /\ [M!Next]_<<boxes, pools>>
  BY BusStep DEF MapsTo
<1> QED BY <1>1, <1>2, PTL DEF Spec, Delivery, M!Spec
=============================================================================

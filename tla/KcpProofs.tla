------------------------------ MODULE KcpProofs ------------------------------
(****************************************************************************)
(* What the two models of KCP guarantee for all values of their constants,   *)
(* proved.                                                                    *)
(*                                                                            *)
(* Kcp.tla, for any messages, windows, sizes and bounds: the types, the       *)
(* windows, and that each user gets the bytes that the other one sent, in     *)
(* order and once.  The sequence and set operators of the model are recursive *)
(* functions; what they compute is proved by induction over sets of arguments *)
(* (SetInduction).                                                            *)
(*                                                                            *)
(* KcpServer.tla, for any number of clients and of calls of users: how the    *)
(* tables of the I/O loop agree, and that the assertions that fail, and the   *)
(* uses of destroyed objects, are no others than those its Sound names.       *)
(****************************************************************************)
EXTENDS Kcp, KcpServer, SequenceTheorems, FiniteSetTheorems, WellFoundedInduction, TLAPS

------------------------------------------------------------------------------
(* Natural numbers and finite sets of them.                                   *)

\* Induction, for a set: otherwise look at the least number that is not in it.
LEMMA SetInduction ==
  ASSUME NEW T, 0 \in T, \A m \in Nat : m \in T => m + 1 \in T
  PROVE  \A m \in Nat : m \in T
<1> DEFINE Not == {m \in Nat : m \notin T}
<1>1. SUFFICES ASSUME Not # {} PROVE FALSE
  OBVIOUS
<1>2. PICK m \in Not : \A y \in Not : <<y, m>> \notin OpToRel(<, Nat)
  BY <1>1, WFMin, NatLessThanWellFounded, Zenon
<1>3. \A y \in Not : ~(y < m)
  BY <1>2, Zenon DEF OpToRel
<1>4. m \in Nat /\ m \notin T /\ m # 0
  OBVIOUS
<1>5. m - 1 \in Nat /\ m - 1 \in T
  BY <1>3, <1>4
<1> QED
  BY <1>4, <1>5

\* A set of natural numbers that is not empty has a least element.
LEMMA MinOf ==
  ASSUME NEW S \in SUBSET Nat, S # {}
  PROVE  Min(S) \in S /\ \A y \in S : Min(S) <= y
<1>1. PICK m \in S : \A y \in S : <<y, m>> \notin OpToRel(<, Nat)
  BY WFMin, NatLessThanWellFounded, Zenon
<1>2. \A y \in S : ~(y < m)
  BY <1>1, Zenon DEF OpToRel
<1>3. \A y \in S : m <= y
  BY <1>2
<1> QED
  BY <1>3, Zenon DEF Min

\* The rank of an element of a finite set of numbers: how many are smaller.
LEMMA Rank ==
  ASSUME NEW S \in SUBSET Nat, IsFiniteSet(S)
  PROVE  /\ Cardinality(S) \in Nat
         /\ \A x \in S : Cardinality({y \in S : y < x}) \in 0..Cardinality(S) - 1
         /\ \A x, z \in S : x < z => Cardinality({y \in S : y < x}) < Cardinality({y \in S : y < z})
         /\ \A i \in 0..Cardinality(S) - 1 : \E x \in S : Cardinality({y \in S : y < x}) = i
<1> DEFINE Below(x) == {y \in S : y < x}
<1> DEFINE n == Cardinality(S)
<1>1. n \in Nat
  BY FS_CardinalityType
<1>2. ASSUME NEW x \in S PROVE /\ IsFiniteSet(Below(x)) /\ Cardinality(Below(x)) \in Nat
                               /\ Cardinality(Below(x)) <= n - 1
  <2>1. IsFiniteSet(S \ {x}) /\ Cardinality(S \ {x}) = n - 1
    BY FS_RemoveElement
  <2>2. Below(x) \in SUBSET (S \ {x})
    OBVIOUS
  <2>3. IsFiniteSet(Below(x)) /\ Cardinality(Below(x)) <= Cardinality(S \ {x})
    BY <2>1, <2>2, FS_Subset
  <2> QED
    BY <2>1, <2>3, FS_CardinalityType
<1>3. ASSUME NEW x \in S, NEW z \in S, x < z PROVE Cardinality(Below(x)) < Cardinality(Below(z))
  <2>0. S \subseteq Nat /\ x \in Nat /\ z \in Nat /\ ~(x < x)
    OBVIOUS
  <2>a. \A y \in S : y < x => y < z
    BY <1>3, <2>0
  <2>1. Below(x) \in SUBSET Below(z) /\ x \in Below(z) /\ x \notin Below(x)
    BY <1>3, <2>0, <2>a, Zenon
  <2>2. IsFiniteSet(Below(z)) /\ Cardinality(Below(z)) \in Nat /\ Cardinality(Below(x)) \in Nat
    BY <1>2
  <2>3. Below(x) # Below(z)
    BY <2>1
  <2> HIDE DEF Below
  <2>4. Cardinality(Below(x)) <= Cardinality(Below(z)) /\ (Cardinality(Below(z)) = Cardinality(Below(x)) => Below(z) = Below(x))
    BY <2>1, <2>2, FS_Subset
  <2> QED
    BY <2>2, <2>3, <2>4
<1> DEFINE r == [x \in S |-> Cardinality(Below(x))]
<1>4. r \in [S -> 0..n - 1]
  BY <1>1, <1>2
<1>5. r \in Injection(S, 0..n - 1)
  <2>1. \A a, b \in S : Cardinality(Below(a)) = Cardinality(Below(b)) => a = b
    <3>1. SUFFICES ASSUME NEW a \in S, NEW b \in S, a # b PROVE Cardinality(Below(a)) # Cardinality(Below(b))
      OBVIOUS
    <3>2. Cardinality(Below(a)) \in Nat /\ Cardinality(Below(b)) \in Nat
      BY <1>2
    <3>3. a \in Nat /\ b \in Nat
      OBVIOUS
    <3>4. a < b \/ b < a
      BY <3>1, <3>3
    <3> HIDE DEF Below
    <3> QED
      BY <1>3, <3>2, <3>4
  <2> HIDE DEF Below
  <2> QED
    BY <1>4, <2>1 DEF Injection, IsInjective
<1>6. IsFiniteSet(0..n - 1) /\ Cardinality(0..n - 1) = n
  <2>1. 0 \in Int /\ n - 1 \in Int
    BY <1>1
  <2> HIDE DEF n
  <2> QED
    BY <1>1, <2>1, FS_Interval
<1>7. r \in Surjection(S, 0..n - 1)
  <2> HIDE DEF r
  <2> QED
    BY <1>5, <1>6, FS_Injection, Zenon
<1>8. \A i \in 0..n - 1 : \E x \in S : Cardinality(Below(x)) = i
  BY <1>7, Zenon DEF Surjection
<1> QED
  <2> HIDE DEF Below
  <2>1. \A x \in S : Cardinality(Below(x)) \in 0..n - 1
    BY <1>1, <1>2
  <2> QED
    BY <1>1, <2>1, <1>3, <1>8, Zenon DEF Below

\* In a finite set of numbers that is not empty there is a greatest one.
LEMMA MaxOf ==
  ASSUME NEW S \in SUBSET Nat, IsFiniteSet(S), S # {}
  PROVE  Max(S) \in S /\ \A y \in S : Max(S) >= y
<1> DEFINE Below(x) == Cardinality({y \in S : y < x})
<1>1. Cardinality(S) \in Nat /\ Cardinality(S) # 0
  BY FS_CardinalityType, FS_EmptySet
<1>2. \A x \in S : Below(x) \in 0..Cardinality(S) - 1
  BY Rank, Zenon
<1>3. \A x, z \in S : x < z => Below(x) < Below(z)
  BY Rank, Zenon
<1>4. \A i \in 0..Cardinality(S) - 1 : \E x \in S : Below(x) = i
  BY Rank, Zenon
<1> HIDE DEF Below
<1>5. Cardinality(S) - 1 \in 0..Cardinality(S) - 1
  BY <1>1
<1>6. PICK x \in S : Below(x) = Cardinality(S) - 1
  BY <1>4, <1>5
<1>7. ASSUME NEW y \in S PROVE x >= y
  <2>1. CASE x < y
    BY <2>1, <1>1, <1>2, <1>3, <1>6
  <2> QED
    BY <2>1
<1> QED
  BY <1>7, Zenon DEF Max

\* Ascending lists exactly the elements of its set.
LEMMA AscendingLists ==
  ASSUME NEW S \in SUBSET Nat, IsFiniteSet(S)
  PROVE  /\ Ascending(S) \in Seq(Nat)
         /\ ToSet(Ascending(S)) = S
<1> DEFINE Below(x) == Cardinality({y \in S : y < x})
<1> DEFINE n == Cardinality(S)
<1>1. n \in Nat
  BY Rank
<1>2. \A x \in S : Below(x) \in 0..n - 1
  BY Rank, Zenon
<1>3. \A x, z \in S : x < z => Below(x) < Below(z)
  BY Rank, Zenon
<1>4. \A i \in 0..n - 1 : \E x \in S : Below(x) = i
  BY Rank, Zenon
<1>5. Ascending(S) = [i \in 1..n |-> CHOOSE x \in S : Below(x) = i - 1]
  BY DEF Ascending
<1> HIDE DEF Below, n
<1>6. ASSUME NEW i \in 1..n PROVE Ascending(S)[i] \in S /\ Below(Ascending(S)[i]) = i - 1
  <2>1. i - 1 \in 0..n - 1
    BY <1>1
  <2>2. \E x \in S : Below(x) = i - 1
    BY <1>4, <2>1
  <2>3. Ascending(S)[i] = CHOOSE x \in S : Below(x) = i - 1
    BY <1>5, Zenon
  <2> QED
    BY <2>2, <2>3, Zenon
<1>7. \A x, z \in S : Below(x) = Below(z) => x = z
  <2>1. SUFFICES ASSUME NEW x \in S, NEW z \in S, x # z PROVE Below(x) # Below(z)
    OBVIOUS
  <2>2. x < z \/ z < x
    BY <2>1
  <2> QED
    BY <1>1, <1>2, <1>3, <2>2
<1>8. Ascending(S) \in Seq(Nat) /\ DOMAIN Ascending(S) = 1..n
  <2>1. DOMAIN Ascending(S) = 1..n
    BY <1>5, Zenon
  <2>2. Ascending(S) \in [1..n -> Nat]
    <3>1. \A i \in 1..n : Ascending(S)[i] \in Nat
      BY <1>6
    <3>2. Ascending(S) = [i \in 1..n |-> Ascending(S)[i]]
      BY <1>5, Zenon
    <3> QED
      BY <3>1, <3>2, Zenon
  <2> QED
    BY <1>1, <2>1, <2>2
<1>9. ASSUME NEW x \in S PROVE \E i \in 1..n : Ascending(S)[i] = x
  <2>1. Below(x) + 1 \in 1..n /\ (Below(x) + 1) - 1 = Below(x)
    BY <1>1, <1>2
  <2>2. Ascending(S)[Below(x) + 1] \in S /\ Below(Ascending(S)[Below(x) + 1]) = Below(x)
    BY <1>6, <2>1
  <2> QED
    BY <1>7, <2>1, <2>2, Zenon
<1> QED
  BY <1>6, <1>8, <1>9, Zenon DEF ToSet
------------------------------------------------------------------------------
(* Sequences, and FlattenSeq of sequences of bytes.                           *)

\* Induction on the length of a sequence, for a set of sequences.
LEMMA SeqSetInduction ==
  ASSUME NEW S, NEW T, <<>> \in T,
         \A s \in Seq(S), x \in S : s \in T => Append(s, x) \in T
  PROVE  \A s \in Seq(S) : s \in T
<1> DEFINE OfLen(m) == \A s \in Seq(S) : Len(s) = m => s \in T
<1> DEFINE U == {m \in Nat : OfLen(m)}
<1>1. 0 \in U
  BY EmptySeq
<1>2. ASSUME NEW m \in Nat, m \in U PROVE m + 1 \in U
  <2>1. SUFFICES ASSUME NEW s \in Seq(S), Len(s) = m + 1 PROVE s \in T
    OBVIOUS
  <2>2. s # <<>>
    BY <2>1
  <2>3. PICK r \in Seq(S), x \in S : s = Append(r, x)
    BY <2>2, SequenceEmptyOrAppend
  <2>4. Len(r) = m
    BY <2>1, <2>3
  <2>5. r \in T
    BY <1>2, <2>4
  <2> QED
    BY <2>3, <2>5
<1> HIDE DEF U
<1>3. \A m \in Nat : m \in U
  BY <1>1, <1>2, SetInduction
<1>4. \A s \in Seq(S) : Len(s) \in Nat
  OBVIOUS
<1> QED
  BY <1>3, <1>4, Zenon DEF U

\* One step of the recursion of FlattenSeq, for the first m elements.
Cat(a, b) == a \o b
Flat(s, m, g) == g = [i \in 1..m |-> IF i = 1 THEN s[i] ELSE Cat(g[i - 1], s[i])]

\* Its values.
LEMMA FlatAt ==
  ASSUME NEW s, NEW m, NEW g, Flat(s, m, g), NEW i \in 1..m
  PROVE  g[i] = IF i = 1 THEN s[i] ELSE Cat(g[i - 1], s[i])
<1> DEFINE f == [j \in 1..m |-> IF j = 1 THEN s[j] ELSE Cat(g[j - 1], s[j])]
<1>1. f[i] = IF i = 1 THEN s[i] ELSE Cat(g[i - 1], s[i])
  OBVIOUS
<1>2. g = f
  BY Zenon DEF Flat
<1> HIDE DEF f
<1> QED
  BY <1>1, <1>2, Zenon

\* There is such a function.
LEMMA FlatExists ==
  ASSUME NEW s
  PROVE  \A m \in Nat : \E g : Flat(s, m, g)
<1> DEFINE T == {m \in Nat : \E g : Flat(s, m, g)}
<1>1. 0 \in T
  <2>1. Flat(s, 0, [i \in 1..0 |-> i])
    BY DEF Flat
  <2> QED
    BY <2>1
<1>2. ASSUME NEW m \in Nat, m \in T PROVE m + 1 \in T
  <2>1. PICK g : Flat(s, m, g)
    BY <1>2
  <2> DEFINE h == [i \in 1..m + 1 |-> IF i = 1 THEN s[i] ELSE Cat(g[i - 1], s[i])]
  <2>2. ASSUME NEW i \in 1..m PROVE h[i] = g[i]
    <3>1. i \in 1..m + 1
      OBVIOUS
    <3> QED
      BY <2>1, <3>1, FlatAt
  <2>3. ASSUME NEW i \in 1..m + 1 PROVE h[i] = IF i = 1 THEN s[i] ELSE Cat(h[i - 1], s[i])
    <3>1. CASE i = 1
      BY <3>1
    <3>2. CASE i # 1
      <4>1. i - 1 \in 1..m
        BY <3>2
      <4>2. h[i - 1] = g[i - 1]
        BY <2>2, <4>1
      <4> QED
        BY <3>2, <4>2
    <3> QED
      BY <3>1, <3>2
  <2>4. h = [i \in 1..m + 1 |-> h[i]]
    OBVIOUS
  <2> HIDE DEF h
  <2>5. Flat(s, m + 1, h)
    BY <2>3, <2>4, Zenon DEF Flat
  <2> QED
    BY <2>5
<1> HIDE DEF T
<1>3. \A m \in Nat : m \in T
  BY <1>1, <1>2, SetInduction
<1> QED
  BY <1>3 DEF T

\* And FlattenSeq is its last value.
LEMMA FlattenIsFlat ==
  ASSUME NEW S, NEW s \in Seq(S), s # <<>>
  PROVE  \E g : Flat(s, Len(s), g) /\ FlattenSeq(s) = g[Len(s)]
<1> DEFINE g == CHOOSE h : Flat(s, Len(s), h)
<1>1. Flat(s, Len(s), g)
  <2>1. Len(s) \in Nat
    OBVIOUS
  <2> QED
    BY <2>1, FlatExists, Zenon
<1>2. g = CHOOSE h : h = [i \in 1..Len(s) |-> IF i = 1 THEN s[i] ELSE h[i - 1] \o s[i]]
  BY DEF Flat, Cat
<1>3. Len(s) # 0
  BY EmptySeq
<1>4. FlattenSeq(s) = g[Len(s)]
  BY <1>2, <1>3, Zenon DEF FlattenSeq
<1> QED
  BY <1>1, <1>4

\* Two such functions agree where both are defined.
LEMMA FlatUnique ==
  ASSUME NEW s, NEW r, NEW m \in Nat, NEW n \in Nat, m <= n, \A i \in 1..m : s[i] = r[i],
         NEW g, Flat(s, m, g), NEW h, Flat(r, n, h)
  PROVE  \A i \in 1..m : g[i] = h[i]
<1> DEFINE T == {i \in Nat : i \in 1..m => g[i] = h[i]}
<1>1. 0 \in T
  OBVIOUS
<1>2. ASSUME NEW i \in Nat, i \in T PROVE i + 1 \in T
  <2>1. SUFFICES ASSUME i + 1 \in 1..m PROVE g[i + 1] = h[i + 1]
    OBVIOUS
  <2>2. i + 1 \in 1..n /\ s[i + 1] = r[i + 1] /\ i + 1 - 1 = i
    BY <2>1
  <2>3. g[i + 1] = IF i + 1 = 1 THEN s[i + 1] ELSE Cat(g[i], s[i + 1])
    BY <2>1, <2>2, FlatAt
  <2>4. h[i + 1] = IF i + 1 = 1 THEN r[i + 1] ELSE Cat(h[i], r[i + 1])
    BY <2>2, FlatAt
  <2>5. CASE i = 0
    BY <2>2, <2>3, <2>4, <2>5
  <2>6. CASE i # 0
    BY <1>2, <2>1, <2>2, <2>3, <2>4, <2>6
  <2> QED
    BY <2>5, <2>6
<1> HIDE DEF T
<1>3. \A i \in Nat : i \in T
  BY <1>1, <1>2, SetInduction
<1> QED
  BY <1>3 DEF T

\* FlattenSeq of nothing, and of a sequence with one element more.
LEMMA FlattenEmpty == FlattenSeq(<<>>) = <<>>
  BY DEF FlattenSeq

\* A queue of one message is that message's bytes.
LEMMA FlattenOne ==
  ASSUME NEW b \in Bytes
  PROVE  FlattenSeq(<<b>>) = b
<1>1. <<b>> \in Seq(Bytes) /\ <<b>> # <<>> /\ Len(<<b>>) = 1
  OBVIOUS
<1>2. PICK g : Flat(<<b>>, 1, g) /\ FlattenSeq(<<b>>) = g[1]
  BY <1>1, FlattenIsFlat, Zenon
<1> QED
  BY <1>2 DEF Flat

\* push_back adds its bytes at the end.
LEMMA FlattenAppend ==
  ASSUME NEW s \in Seq(Bytes), s # <<>>, NEW b \in Bytes
  PROVE  FlattenSeq(Append(s, b)) = FlattenSeq(s) \o b
<1> DEFINE r == Append(s, b)
<1> DEFINE m == Len(s)
<1>1. /\ r \in Seq(Bytes) /\ r # <<>> /\ Len(r) = m + 1 /\ m \in Nat /\ m # 0
      /\ \A i \in 1..m : s[i] = r[i]
      /\ r[m + 1] = b
  BY AppendProperties, EmptySeq
<1> HIDE DEF r
<1>2. PICK g : Flat(s, m, g) /\ FlattenSeq(s) = g[m]
  BY FlattenIsFlat, Zenon
<1>3. PICK h : Flat(r, m + 1, h) /\ FlattenSeq(r) = h[m + 1]
  BY <1>1, FlattenIsFlat, Zenon
<1> HIDE DEF m
<1>4. \A i \in 1..m : g[i] = h[i]
  <2>1. m + 1 \in Nat /\ m <= m + 1
    BY <1>1
  <2> QED
    BY <1>1, <1>2, <1>3, <2>1, FlatUnique
<1>5. h[m + 1] = Cat(h[m], b)
  <2>1. m + 1 \in 1..m + 1 /\ m + 1 # 1 /\ m + 1 - 1 = m
    BY <1>1
  <2> QED
    BY <1>1, <1>3, <2>1, FlatAt
<1>6. m \in 1..m
  BY <1>1
<1> QED
  BY <1>2, <1>3, <1>4, <1>5, <1>6, Zenon DEF r, Cat

\* Concatenation and Append of bytes and of sequences of them.
LEMMA BytesConcat ==
  /\ <<>> \in Bytes
  /\ \A a, b \in Bytes : a \o b \in Bytes
  /\ \A a \in Bytes : <<>> \o a = a /\ a \o <<>> = a
  /\ \A a, b, c \in Bytes : (a \o b) \o c = a \o (b \o c)
<1>1. <<>> \in Bytes /\ \A a, b \in Bytes : a \o b \in Bytes
  BY DEF Bytes
<1>2. \A a \in Bytes : <<>> \o a = a /\ a \o <<>> = a
  BY ConcatEmptySeq DEF Bytes
<1>3. \A a, b, c \in Bytes : (a \o b) \o c = a \o (b \o c)
  BY ConcatAssociative DEF Bytes
<1> QED
  BY <1>1, <1>2, <1>3

\* Queues of bytes, put together.
LEMMA QueueConcat ==
  /\ <<>> \in Seq(Bytes)
  /\ \A a, b \in Seq(Bytes) : a \o b \in Seq(Bytes)
  /\ \A a \in Seq(Bytes) : <<>> \o a = a /\ a \o <<>> = a
  /\ \A a, b, c \in Seq(Bytes) : (a \o b) \o c = a \o (b \o c)
  /\ \A a \in Seq(Bytes), x \in Bytes : Append(a, x) = a \o <<x>> /\ <<x>> \in Seq(Bytes)
<1>1. <<>> \in Seq(Bytes) /\ \A a, b \in Seq(Bytes) : a \o b \in Seq(Bytes)
  OBVIOUS
<1>2. \A a \in Seq(Bytes) : <<>> \o a = a /\ a \o <<>> = a
  BY ConcatEmptySeq
<1>3. \A a, b, c \in Seq(Bytes) : (a \o b) \o c = a \o (b \o c)
  BY ConcatAssociative
<1>4. \A a \in Seq(Bytes), x \in Bytes : Append(a, x) = a \o <<x>> /\ <<x>> \in Seq(Bytes)
  BY AppendIsConcat
<1> QED
  BY <1>1, <1>2, <1>3, <1>4

\* FlattenSeq of a sequence of bytes is bytes.
LEMMA FlattenType ==
  ASSUME NEW s \in Seq(Bytes)
  PROVE  FlattenSeq(s) \in Bytes
<1> DEFINE T == {r \in Seq(Bytes) : FlattenSeq(r) \in Bytes}
<1>1. <<>> \in T
  BY FlattenEmpty, BytesConcat, QueueConcat
<1>2. ASSUME NEW r \in Seq(Bytes), NEW x \in Bytes, r \in T PROVE Append(r, x) \in T
  <2>1. Append(r, x) \in Seq(Bytes)
    OBVIOUS
  <2>4. FlattenSeq(r) \in Bytes
    BY <1>2
  <2>2. CASE r = <<>>
    <3>1. Append(r, x) = <<x>>
      BY <2>2, QueueConcat
    <3> QED
      BY <2>1, <3>1, FlattenOne
  <2>3. CASE r # <<>>
    BY <2>4, <2>1, <2>3, FlattenAppend, BytesConcat
  <2> QED
    BY <2>2, <2>3
<1> HIDE DEF T
<1>3. \A r \in Seq(Bytes) : r \in T
  BY <1>1, <1>2, SeqSetInduction
<1> QED
  BY <1>3 DEF T

\* FlattenSeq goes through concatenation.
LEMMA FlattenConcat ==
  ASSUME NEW s \in Seq(Bytes), NEW t \in Seq(Bytes)
  PROVE  FlattenSeq(s \o t) = FlattenSeq(s) \o FlattenSeq(t)
<1> DEFINE T == {r \in Seq(Bytes) : FlattenSeq(s \o r) = FlattenSeq(s) \o FlattenSeq(r)}
<1>1. <<>> \in T
  BY FlattenEmpty, FlattenType, BytesConcat, QueueConcat
<1>2. ASSUME NEW r \in Seq(Bytes), NEW x \in Bytes, r \in T PROVE Append(r, x) \in T
  <2>1. Append(r, x) \in Seq(Bytes) /\ Append(r, x) = r \o <<x>> /\ <<x>> \in Seq(Bytes)
    BY QueueConcat
  <2>2. s \o Append(r, x) = (s \o r) \o <<x>>
    BY <2>1, QueueConcat
  <2>3. s \o r \in Seq(Bytes) /\ (s \o r) \o <<x>> = Append(s \o r, x)
    BY QueueConcat
  <2>4. FlattenSeq(s) \in Bytes /\ FlattenSeq(r) \in Bytes
    BY FlattenType
  <2>5. CASE r = <<>>
    <3>1. Append(r, x) = <<x>> /\ s \o r = s
      BY <2>5, QueueConcat
    <3>2. CASE s = <<>>
      <4>1. s \o Append(r, x) = <<x>>
        BY <2>1, <3>1, <3>2, QueueConcat
      <4>2. FlattenSeq(s) \o FlattenSeq(<<x>>) = FlattenSeq(<<x>>)
        BY <3>2, FlattenEmpty, FlattenOne, BytesConcat
      <4> QED
        BY <2>1, <3>1, <4>1, <4>2
    <3>3. CASE s # <<>>
      <4>1. FlattenSeq(s \o Append(r, x)) = FlattenSeq(s) \o x
        BY <2>2, <2>3, <3>1, <3>3, FlattenAppend
      <4> QED
        BY <2>1, <3>1, <4>1, FlattenOne
    <3> QED
      BY <3>2, <3>3
  <2>6. CASE r # <<>>
    <3>1. s \o r # <<>>
      BY <2>6, ConcatEqualIffEmpty
    <3>2. FlattenSeq(s \o Append(r, x)) = FlattenSeq(s \o r) \o x
      BY <2>2, <2>3, <3>1, FlattenAppend
    <3>3. FlattenSeq(Append(r, x)) = FlattenSeq(r) \o x
      BY <2>6, FlattenAppend
    <3> QED
      <4>1. FlattenSeq(s \o r) = FlattenSeq(s) \o FlattenSeq(r)
        BY <1>2
      <4>2. (FlattenSeq(s) \o FlattenSeq(r)) \o x = FlattenSeq(s) \o (FlattenSeq(r) \o x)
        BY <2>4, BytesConcat
      <4>3. FlattenSeq(s \o Append(r, x)) = FlattenSeq(s) \o FlattenSeq(Append(r, x))
        BY <3>2, <3>3, <4>1, <4>2
      <4> QED
        BY <2>1, <4>3
  <2> QED
    BY <2>5, <2>6
<1> HIDE DEF T
<1>3. \A r \in Seq(Bytes) : r \in T
  BY <1>1, <1>2, SeqSetInduction
<1> QED
  BY <1>3 DEF T

------------------------------------------------------------------------------
(* The recursive functions of the model.                                      *)

\* One step of the recursion of SizeOf, for the first m elements.
Sizes(d, m, g) == g = [i \in 0..m |-> IF i = 0 THEN 0 ELSE g[i - 1] + SegSize(d[i])]

\* Its values.
LEMMA SizesAt ==
  ASSUME NEW d, NEW m, NEW g, Sizes(d, m, g), NEW i \in 0..m
  PROVE  g[i] = IF i = 0 THEN 0 ELSE g[i - 1] + SegSize(d[i])
<1> DEFINE f == [j \in 0..m |-> IF j = 0 THEN 0 ELSE g[j - 1] + SegSize(d[j])]
<1>1. f[i] = IF i = 0 THEN 0 ELSE g[i - 1] + SegSize(d[i])
  OBVIOUS
<1>2. g = f
  BY Zenon DEF Sizes
<1> HIDE DEF f
<1> QED
  BY <1>1, <1>2, Zenon

\* There is such a function.
LEMMA SizesExists ==
  ASSUME NEW d
  PROVE  \A m \in Nat : \E g : Sizes(d, m, g)
<1> DEFINE T == {m \in Nat : \E g : Sizes(d, m, g)}
<1>1. 0 \in T
  <2> DEFINE f == [i \in 0..0 |-> 0]
  <2>1. f = [i \in 0..0 |-> IF i = 0 THEN 0 ELSE f[i - 1] + SegSize(d[i])]
    OBVIOUS
  <2> HIDE DEF f
  <2>2. Sizes(d, 0, f)
    BY <2>1, Zenon DEF Sizes
  <2> QED
    BY <2>2
<1>2. ASSUME NEW m \in Nat, m \in T PROVE m + 1 \in T
  <2>1. PICK g : Sizes(d, m, g)
    BY <1>2
  <2> DEFINE h == [i \in 0..m + 1 |-> IF i = 0 THEN 0 ELSE g[i - 1] + SegSize(d[i])]
  <2>2. ASSUME NEW i \in 0..m PROVE h[i] = g[i]
    <3>1. i \in 0..m + 1
      OBVIOUS
    <3> QED
      BY <2>1, <3>1, SizesAt
  <2>3. ASSUME NEW i \in 0..m + 1 PROVE h[i] = IF i = 0 THEN 0 ELSE h[i - 1] + SegSize(d[i])
    <3>1. CASE i = 0
      BY <3>1
    <3>2. CASE i # 0
      <4>1. i - 1 \in 0..m
        BY <3>2
      <4>2. h[i - 1] = g[i - 1]
        BY <2>2, <4>1
      <4> QED
        BY <3>2, <4>2
    <3> QED
      BY <3>1, <3>2
  <2>4. h = [i \in 0..m + 1 |-> h[i]]
    OBVIOUS
  <2> HIDE DEF h
  <2>5. Sizes(d, m + 1, h)
    BY <2>3, <2>4, Zenon DEF Sizes
  <2> QED
    BY <2>5
<1> HIDE DEF T
<1>3. \A m \in Nat : m \in T
  BY <1>1, <1>2, SetInduction
<1> QED
  BY <1>3 DEF T

\* And SizeOf is its last value.
LEMMA SizeOfIsSizes ==
  ASSUME NEW d, Len(d) \in Nat
  PROVE  \E g : Sizes(d, Len(d), g) /\ SizeOf(d) = g[Len(d)]
<1> DEFINE g == CHOOSE h : Sizes(d, Len(d), h)
<1>1. Sizes(d, Len(d), g)
  BY SizesExists, Zenon
<1>2. g = CHOOSE h : h = [i \in 0..Len(d) |-> IF i = 0 THEN 0 ELSE h[i - 1] + SegSize(d[i])]
  BY DEF Sizes
<1>3. SizeOf(d) = g[Len(d)]
  BY <1>2, Zenon DEF SizeOf
<1> QED
  BY <1>1, <1>3

\* One step of the recursion of Pack, for the first m elements.
Packs(segs, m, g) == g = [i \in 0..m |-> IF i = 0 THEN <<>> ELSE PackNext(g[i - 1], segs[i])]

\* Its values.
LEMMA PacksAt ==
  ASSUME NEW segs, NEW m, NEW g, Packs(segs, m, g), NEW i \in 0..m
  PROVE  g[i] = IF i = 0 THEN <<>> ELSE PackNext(g[i - 1], segs[i])
<1> DEFINE f == [j \in 0..m |-> IF j = 0 THEN <<>> ELSE PackNext(g[j - 1], segs[j])]
<1>1. f[i] = IF i = 0 THEN <<>> ELSE PackNext(g[i - 1], segs[i])
  OBVIOUS
<1>2. g = f
  BY Zenon DEF Packs
<1> HIDE DEF f
<1> QED
  BY <1>1, <1>2, Zenon

\* There is such a function.
LEMMA PacksExists ==
  ASSUME NEW segs
  PROVE  \A m \in Nat : \E g : Packs(segs, m, g)
<1> DEFINE T == {m \in Nat : \E g : Packs(segs, m, g)}
<1>1. 0 \in T
  <2> DEFINE f == [i \in 0..0 |-> <<>>]
  <2>1. f = [i \in 0..0 |-> IF i = 0 THEN <<>> ELSE PackNext(f[i - 1], segs[i])]
    OBVIOUS
  <2> HIDE DEF f
  <2>2. Packs(segs, 0, f)
    BY <2>1, Zenon DEF Packs
  <2> QED
    BY <2>2
<1>2. ASSUME NEW m \in Nat, m \in T PROVE m + 1 \in T
  <2>1. PICK g : Packs(segs, m, g)
    BY <1>2
  <2> DEFINE h == [i \in 0..m + 1 |-> IF i = 0 THEN <<>> ELSE PackNext(g[i - 1], segs[i])]
  <2>2. ASSUME NEW i \in 0..m PROVE h[i] = g[i]
    <3>1. i \in 0..m + 1
      OBVIOUS
    <3> QED
      BY <2>1, <3>1, PacksAt
  <2>3. ASSUME NEW i \in 0..m + 1 PROVE h[i] = IF i = 0 THEN <<>> ELSE PackNext(h[i - 1], segs[i])
    <3>1. CASE i = 0
      BY <3>1
    <3>2. CASE i # 0
      <4>1. i - 1 \in 0..m
        BY <3>2
      <4>2. h[i - 1] = g[i - 1]
        BY <2>2, <4>1
      <4> QED
        BY <3>2, <4>2
    <3> QED
      BY <3>1, <3>2
  <2>4. h = [i \in 0..m + 1 |-> h[i]]
    OBVIOUS
  <2> HIDE DEF h
  <2>5. Packs(segs, m + 1, h)
    BY <2>3, <2>4, Zenon DEF Packs
  <2> QED
    BY <2>5
<1> HIDE DEF T
<1>3. \A m \in Nat : m \in T
  BY <1>1, <1>2, SetInduction
<1> QED
  BY <1>3 DEF T

\* And Pack is its last value.
LEMMA PackIsPacks ==
  ASSUME NEW segs, Len(segs) \in Nat
  PROVE  \E g : Packs(segs, Len(segs), g) /\ Pack(segs) = g[Len(segs)]
<1> DEFINE g == CHOOSE h : Packs(segs, Len(segs), h)
<1>1. Packs(segs, Len(segs), g)
  BY PacksExists, Zenon
<1>2. g = CHOOSE h : h = [i \in 0..Len(segs) |-> IF i = 0 THEN <<>> ELSE PackNext(h[i - 1], segs[i])]
  BY DEF Packs
<1>3. Pack(segs) = g[Len(segs)]
  BY <1>2, Zenon DEF Pack
<1> QED
  BY <1>1, <1>3

\* One step of the recursion of InputSegments, for the first m elements.
Inputs(k, segs, m, g) == g = [i \in 0..m |-> IF i = 0 THEN k ELSE InputSegment(g[i - 1], segs[i])]

\* Its values.
LEMMA InputsAt ==
  ASSUME NEW k, NEW segs, NEW m, NEW g, Inputs(k, segs, m, g), NEW i \in 0..m
  PROVE  g[i] = IF i = 0 THEN k ELSE InputSegment(g[i - 1], segs[i])
<1> DEFINE f == [j \in 0..m |-> IF j = 0 THEN k ELSE InputSegment(g[j - 1], segs[j])]
<1>1. f[i] = IF i = 0 THEN k ELSE InputSegment(g[i - 1], segs[i])
  OBVIOUS
<1>2. g = f
  BY Zenon DEF Inputs
<1> HIDE DEF f
<1> QED
  BY <1>1, <1>2, Zenon

\* There is such a function.
LEMMA InputsExists ==
  ASSUME NEW k, NEW segs
  PROVE  \A m \in Nat : \E g : Inputs(k, segs, m, g)
<1> DEFINE T == {m \in Nat : \E g : Inputs(k, segs, m, g)}
<1>1. 0 \in T
  <2> DEFINE f == [i \in 0..0 |-> k]
  <2>1. f = [i \in 0..0 |-> IF i = 0 THEN k ELSE InputSegment(f[i - 1], segs[i])]
    OBVIOUS
  <2> HIDE DEF f
  <2>2. Inputs(k, segs, 0, f)
    BY <2>1, Zenon DEF Inputs
  <2> QED
    BY <2>2
<1>2. ASSUME NEW m \in Nat, m \in T PROVE m + 1 \in T
  <2>1. PICK g : Inputs(k, segs, m, g)
    BY <1>2
  <2> DEFINE h == [i \in 0..m + 1 |-> IF i = 0 THEN k ELSE InputSegment(g[i - 1], segs[i])]
  <2>2. ASSUME NEW i \in 0..m PROVE h[i] = g[i]
    <3>1. i \in 0..m + 1
      OBVIOUS
    <3> QED
      BY <2>1, <3>1, InputsAt
  <2>3. ASSUME NEW i \in 0..m + 1 PROVE h[i] = IF i = 0 THEN k ELSE InputSegment(h[i - 1], segs[i])
    <3>1. CASE i = 0
      BY <3>1
    <3>2. CASE i # 0
      <4>1. i - 1 \in 0..m
        BY <3>2
      <4>2. h[i - 1] = g[i - 1]
        BY <2>2, <4>1
      <4> QED
        BY <3>2, <4>2
    <3> QED
      BY <3>1, <3>2
  <2>4. h = [i \in 0..m + 1 |-> h[i]]
    OBVIOUS
  <2> HIDE DEF h
  <2>5. Inputs(k, segs, m + 1, h)
    BY <2>3, <2>4, Zenon DEF Inputs
  <2> QED
    BY <2>5
<1> HIDE DEF T
<1>3. \A m \in Nat : m \in T
  BY <1>1, <1>2, SetInduction
<1> QED
  BY <1>3 DEF T

\* And InputSegments is its last value.
LEMMA InputSegmentsIsInputs ==
  ASSUME NEW k, NEW segs, Len(segs) \in Nat
  PROVE  \E g : Inputs(k, segs, Len(segs), g) /\ InputSegments(k, segs) = g[Len(segs)]
<1> DEFINE g == CHOOSE h : Inputs(k, segs, Len(segs), h)
<1>1. Inputs(k, segs, Len(segs), g)
  BY InputsExists, Zenon
<1>2. g = CHOOSE h : h = [i \in 0..Len(segs) |-> IF i = 0 THEN k ELSE InputSegment(h[i - 1], segs[i])]
  BY DEF Inputs
<1>3. InputSegments(k, segs) = g[Len(segs)]
  BY <1>2, Zenon DEF InputSegments
<1> QED
  BY <1>1, <1>3

\* Two functions are equal from a to b.
EqualFrom(g, h, a, b) == \A i \in a..b : g[i] = h[i]

\* Two functions of sizes agree where both are defined.
LEMMA SizesUnique ==
  ASSUME NEW d, NEW e, NEW m \in Nat, NEW n \in Nat, m <= n, EqualFrom(d, e, 1, m),
         NEW g, Sizes(d, m, g), NEW h, Sizes(e, n, h)
  PROVE  EqualFrom(g, h, 0, m)
<1> DEFINE T == {i \in Nat : i \in 0..m => g[i] = h[i]}
<1>1. 0 \in T
  <2>1. 0 \in 0..m /\ 0 \in 0..n
    OBVIOUS
  <2> QED
    BY <2>1, SizesAt
<1>2. ASSUME NEW i \in Nat, i \in T PROVE i + 1 \in T
  <2>1. SUFFICES ASSUME i + 1 \in 0..m PROVE g[i + 1] = h[i + 1]
    OBVIOUS
  <2>2. i + 1 \in 0..n /\ d[i + 1] = e[i + 1] /\ i + 1 - 1 = i /\ i + 1 # 0
    BY <2>1 DEF EqualFrom
  <2>3. g[i + 1] = g[i] + SegSize(d[i + 1])
    BY <2>1, <2>2, SizesAt
  <2>4. h[i + 1] = h[i] + SegSize(e[i + 1])
    BY <2>2, SizesAt
  <2> QED
    BY <1>2, <2>1, <2>2, <2>3, <2>4
<1> HIDE DEF T
<1>3. \A i \in Nat : i \in T
  BY <1>1, <1>2, SetInduction
<1> QED
  BY <1>3 DEF T, EqualFrom

\* A segment has a size, and SizeOf adds the sizes up.
LEMMA SegSizeType ==
  ASSUME NEW seg \in SegType
  PROVE  SegSize(seg) \in Nat /\ SegSize(seg) = Overhead + Len(seg.data)
<1>1. Overhead \in Nat
  BY KcpAssumption DEF Nats
<1>2. Len(seg.data) \in Nat
  BY DEF SegType, Bytes
<1> QED
  BY <1>1, <1>2 DEF SegSize

\* One more segment adds its size to the size of a datagram.
LEMMA SizeOfAppend ==
  ASSUME NEW d \in Seq(SegType), NEW seg \in SegType
  PROVE  SizeOf(Append(d, seg)) = SizeOf(d) + SegSize(seg)
<1> DEFINE e == Append(d, seg)
<1> DEFINE m == Len(d)
<1>1. /\ Len(e) = m + 1 /\ Len(e) \in Nat /\ m \in Nat
      /\ \A i \in 1..m : d[i] = e[i]
      /\ e[m + 1] = seg
  BY AppendProperties
<1> HIDE DEF e
<1>2. PICK g : Sizes(d, m, g) /\ SizeOf(d) = g[m]
  BY <1>1, SizeOfIsSizes, Zenon
<1>3. PICK h : Sizes(e, m + 1, h) /\ SizeOf(e) = h[m + 1]
  BY <1>1, SizeOfIsSizes
<1> HIDE DEF m
<1>4. \A i \in 0..m : g[i] = h[i]
  <2> DEFINE n == m + 1
  <2>1. n \in Nat /\ m <= n
    BY <1>1
  <2>2. Sizes(e, n, h)
    BY <1>3
  <2>3. Sizes(d, m, g) /\ m \in Nat /\ EqualFrom(d, e, 1, m)
    BY <1>1, <1>2 DEF EqualFrom
  <2> HIDE DEF n
  <2>4. EqualFrom(g, h, 0, m)
    BY <2>1, <2>2, <2>3, SizesUnique
  <2> QED
    BY <2>4 DEF EqualFrom
<1>5. h[m + 1] = h[m] + SegSize(seg)
  <2>1. m + 1 \in 0..m + 1 /\ m + 1 # 0 /\ m + 1 - 1 = m
    BY <1>1
  <2> QED
    BY <1>1, <1>3, <2>1, SizesAt
<1>6. m \in 0..m
  BY <1>1
<1> QED
  BY <1>2, <1>3, <1>4, <1>5, <1>6 DEF e

\* A datagram without segments has no size.
LEMMA SizeOfEmpty == SizeOf(<<>>) = 0
<1>1. Len(<<>>) = 0
  OBVIOUS
<1>2. PICK g : Sizes(<<>>, 0, g) /\ SizeOf(<<>>) = g[0]
  BY <1>1, SizeOfIsSizes
<1>3. 0 \in 0..0
  OBVIOUS
<1> QED
  BY <1>2, <1>3, SizesAt

\* The size of a datagram is a natural number.
LEMMA SizeOfType ==
  ASSUME NEW d \in Seq(SegType)
  PROVE  SizeOf(d) \in Nat
<1> DEFINE T == {e \in Seq(SegType) : SizeOf(e) \in Nat}
<1>1. <<>> \in T
  BY SizeOfEmpty
<1>2. ASSUME NEW e \in Seq(SegType), NEW seg \in SegType, e \in T PROVE Append(e, seg) \in T
  BY <1>2, SizeOfAppend, SegSizeType
<1> HIDE DEF T
<1>3. \A e \in Seq(SegType) : e \in T
  BY <1>1, <1>2, SeqSetInduction
<1> QED
  BY <1>3 DEF T

\* A datagram of one segment.
LEMMA SizeOfOne ==
  ASSUME NEW seg \in SegType
  PROVE  <<seg>> \in Seq(SegType) /\ SizeOf(<<seg>>) = SegSize(seg)
<1>1. <<>> \in Seq(SegType) /\ Append(<<>>, seg) = <<seg>>
  OBVIOUS
<1>2. SizeOf(<<seg>>) = 0 + SegSize(seg)
  BY <1>1, SizeOfAppend, SizeOfEmpty
<1> QED
  BY <1>1, <1>2, SegSizeType

Chunk == {d \in Bytes : Len(d) <= Mss}

\* The constants.
LEMMA Constants ==
  /\ Mss \in Nat /\ Mss > 0 /\ Overhead \in Nat /\ Overhead > 0 /\ RcvWnd \in Nat /\ RcvWnd > 0 /\ RecvRoom \in Nat
  /\ FastLimit \in Nat /\ MaxSends \in Nat /\ MaxFaults \in Nat /\ InputRoom \in Nat /\ Mtu \in Nat
  /\ Mtu = Mss + Overhead
  /\ NetCap \in [Ends -> Nat] /\ Lens \subseteq Nat /\ IsFiniteSet(Lens) /\ Ends = {1, 2}
  /\ Modes \subseteq ModeType
<1>1. NetCap \in [Ends -> Nat] /\ Ends = {1, 2}
  BY KcpAssumption DEF Nats, Ends
<1>2. Lens \subseteq Nat /\ IsFiniteSet(Lens) /\ Modes \subseteq ModeType
  BY KcpAssumption DEF Nats
<1> QED
  BY <1>1, <1>2, KcpAssumption DEF Nats, Mtu

\* The last element of a sequence and those before it.
LEMMA FrontLast ==
  ASSUME NEW S, NEW s \in Seq(S), s # <<>>
  PROVE  /\ Front(s) \in Seq(S) /\ Last(s) \in S /\ s = Append(Front(s), Last(s))
         /\ Len(Front(s)) = Len(s) - 1
         /\ \A i \in DOMAIN Front(s) : Front(s)[i] = s[i] /\ i \in DOMAIN s
<1>1. PICK r \in Seq(S), x \in S : s = Append(r, x)
  BY SequenceEmptyOrAppend
<1>2. Len(s) = Len(r) + 1 /\ s[Len(s)] = x /\ Len(r) \in Nat
  BY <1>1
<1>3. SubSeq(s, 1, Len(s) - 1) = r
  BY <1>1, <1>2
<1>4. Front(s) = r /\ Last(s) = x
  BY <1>2, <1>3 DEF Front, Last
<1>5. \A i \in DOMAIN r : r[i] = s[i] /\ i \in DOMAIN s
  BY <1>1, <1>2
<1> QED
  BY <1>1, <1>2, <1>4, <1>5

\* Datagrams of segments from S, none of which is longer than Mtu.
Datagrams(S) == {ds \in Seq(Seq(S)) : \A i \in DOMAIN ds : SizeOf(ds[i]) <= Mtu}

\* Datagrams one after the other.
LEMMA DatagramsConcat ==
  ASSUME NEW S, NEW a \in Datagrams(S), NEW b \in Datagrams(S)
  PROVE  a \o b \in Datagrams(S)
<1>1. a \in Seq(Seq(S)) /\ b \in Seq(Seq(S)) /\ a \o b \in Seq(Seq(S))
  BY DEF Datagrams
<1>2. ASSUME NEW i \in DOMAIN (a \o b) PROVE SizeOf((a \o b)[i]) <= Mtu
  <2>1. i \in 1..Len(a) + Len(b)
    BY <1>1
  <2>2. CASE i <= Len(a)
    <3>1. (a \o b)[i] = a[i] /\ i \in DOMAIN a
      BY <1>1, <2>1, <2>2
    <3> QED
      BY <3>1 DEF Datagrams
  <2>3. CASE ~(i <= Len(a))
    <3>1. (a \o b)[i] = b[i - Len(a)] /\ i - Len(a) \in DOMAIN b
      BY <1>1, <2>1, <2>3
    <3> QED
      BY <3>1 DEF Datagrams
  <2> QED
    BY <2>2, <2>3
<1> QED
  BY <1>1, <1>2 DEF Datagrams

\* One more segment keeps the datagrams within Mtu.
LEMMA PackNextFits ==
  ASSUME NEW S \in SUBSET SegType, NEW ds \in Datagrams(S), NEW seg \in S, SegSize(seg) <= Mtu
  PROVE  PackNext(ds, seg) \in Datagrams(S)
<1>1. ds \in Seq(Seq(S)) /\ seg \in SegType
  BY DEF Datagrams
<1>2. CASE ds # <<>> /\ SizeOf(Last(ds)) + SegSize(seg) <= Mtu
  <2>1. /\ Front(ds) \in Seq(Seq(S)) /\ Last(ds) \in Seq(S) /\ ds = Append(Front(ds), Last(ds))
    BY <1>1, <1>2, FrontLast
  <2>2. PackNext(ds, seg) = Append(Front(ds), Append(Last(ds), seg))
    BY <1>2 DEF PackNext
  <2> DEFINE f == Front(ds)
  <2> DEFINE e == Append(Last(ds), seg)
  <2>3. e \in Seq(S) /\ Last(ds) \in Seq(SegType)
    BY <2>1
  <2>4. SizeOf(e) <= Mtu
    BY <1>1, <1>2, <2>3, SizeOfAppend
  <2>5. \A i \in DOMAIN f : f[i] = ds[i] /\ i \in DOMAIN ds
    BY <1>1, <1>2, FrontLast
  <2> HIDE DEF f, e
  <2>6. Append(f, e) \in Seq(Seq(S)) /\ \A i \in DOMAIN Append(f, e) : Append(f, e)[i] = e \/ (i \in DOMAIN f /\ Append(f, e)[i] = f[i])
    BY <2>1, <2>3 DEF f
  <2>7. \A i \in DOMAIN Append(f, e) : SizeOf(Append(f, e)[i]) <= Mtu
    BY <2>4, <2>5, <2>6 DEF Datagrams
  <2> QED
    BY <2>2, <2>6, <2>7 DEF Datagrams, e, f
<1>3. CASE ~(ds # <<>> /\ SizeOf(Last(ds)) + SegSize(seg) <= Mtu)
  <2>1. PackNext(ds, seg) = Append(ds, <<seg>>)
    BY <1>3 DEF PackNext
  <2>2. SizeOf(<<seg>>) <= Mtu /\ <<seg>> \in Seq(S)
    BY <1>1, SizeOfOne
  <2>3. Append(ds, <<seg>>) \in Seq(Seq(S)) /\ \A i \in DOMAIN Append(ds, <<seg>>) : Append(ds, <<seg>>)[i] = <<seg>> \/ (i \in DOMAIN ds /\ Append(ds, <<seg>>)[i] = ds[i])
    BY <1>1, <2>2
  <2>4. \A i \in DOMAIN Append(ds, <<seg>>) : SizeOf(Append(ds, <<seg>>)[i]) <= Mtu
    BY <2>2, <2>3 DEF Datagrams
  <2> QED
    BY <2>1, <2>3, <2>4 DEF Datagrams
<1> QED
  BY <1>2, <1>3

\* Pack makes datagrams of nothing but the segments it is given.
LEMMA PackFits ==
  ASSUME NEW S \in SUBSET SegType, NEW segs \in Seq(S), \A x \in S : SegSize(x) <= Mtu
  PROVE  Pack(segs) \in Datagrams(S)
<1> DEFINE n == Len(segs)
<1>1. n \in Nat
  OBVIOUS
<1>2. PICK g : Packs(segs, n, g) /\ Pack(segs) = g[n]
  BY <1>1, PackIsPacks, Zenon
<1> DEFINE T == {i \in Nat : i \in 0..n => g[i] \in Datagrams(S)}
<1>3. 0 \in T
  <2>1. 0 \in 0..n
    BY <1>1
  <2>2. g[0] = <<>>
    BY <1>2, <2>1, PacksAt
  <2>3. <<>> \in Datagrams(S)
    BY DEF Datagrams
  <2> QED
    BY <2>2, <2>3
<1>4. ASSUME NEW i \in Nat, i \in T PROVE i + 1 \in T
  <2>1. SUFFICES ASSUME i + 1 \in 0..n PROVE g[i + 1] \in Datagrams(S)
    OBVIOUS
  <2>2. i \in 0..n /\ i + 1 # 0 /\ i + 1 - 1 = i /\ i + 1 \in 1..n
    BY <1>1, <2>1
  <2> HIDE DEF n
  <2>3. g[i + 1] = PackNext(g[i], segs[i + 1])
    BY <1>2, <2>1, <2>2, PacksAt
  <2>4. segs[i + 1] \in S
    BY <2>2 DEF n
  <2>5. g[i] \in Datagrams(S)
    BY <1>4, <2>2
  <2> QED
    BY <2>3, <2>4, <2>5, PackNextFits
<1> HIDE DEF T
<1>5. \A i \in Nat : i \in T
  BY <1>3, <1>4, SetInduction
<1>6. n \in 0..n
  BY <1>1
<1> QED
  BY <1>1, <1>2, <1>5, <1>6 DEF T

------------------------------------------------------------------------------
(* ikcp_send: the fragments of a message make up the message.                 *)

\* The number of fragments of a message of n bytes.
LEMMA FragmentCount ==
  ASSUME NEW n \in Nat
  PROVE  LET c == (n + Mss - 1) \div Mss
         IN c \in Nat /\ c * Mss >= n /\ (c > 0 => (c - 1) * Mss < n) /\ (n = 0 => c = 0)
<1> DEFINE a == n + Mss - 1
<1> DEFINE c == a \div Mss
<1>1. Mss \in Nat /\ Mss > 0 /\ a \in Nat
  BY Constants
<1>2. c \in Int /\ c * Mss <= a /\ a < c * Mss + Mss
  <2> HIDE DEF a
  <2> QED
    BY <1>1
<1>3. c >= 0
  <2>1. CASE c <= -1
    <3>1. c * Mss <= -Mss
      BY <1>1, <1>2, <2>1
    <3> QED
      BY <1>1, <1>2, <3>1
  <2> QED
    BY <1>2, <2>1
<1>4. c > 0 => (c - 1) * Mss = c * Mss - Mss
  BY <1>1, <1>2
<1>5. n = 0 => c = 0
  <2>1. CASE n = 0 /\ c >= 1
    <3>1. c * Mss >= Mss
      BY <1>1, <1>2, <2>1
    <3> QED
      BY <1>1, <1>2, <2>1, <3>1
  <2> QED
    BY <1>2, <1>3, <2>1
<1> HIDE DEF c
<1> QED
  BY <1>1, <1>2, <1>3, <1>4, <1>5 DEF c

\* A part of some bytes, and two parts next to each other.
LEMMA PartOf ==
  ASSUME NEW bytes \in Bytes, NEW i \in Nat, NEW j \in Nat, i <= j, j <= Len(bytes)
  PROVE  /\ SubSeq(bytes, i + 1, j) \in Bytes
         /\ Len(SubSeq(bytes, i + 1, j)) = j - i
         /\ Cat(SubSeq(bytes, 1, i), SubSeq(bytes, i + 1, j)) = SubSeq(bytes, 1, j)
<1>1. bytes \in Seq(Nats)
  BY DEF Bytes
<1>2. SubSeq(bytes, i + 1, j) \in Seq(Nats) /\ Len(SubSeq(bytes, i + 1, j)) = j - i
  BY <1>1
<1>3. 1 \in 1..Len(bytes) + 1 /\ i \in 0..Len(bytes) /\ j \in i..Len(bytes)
  BY <1>1
<1>4. SubSeq(bytes, 1, i) \o SubSeq(bytes, i + 1, j) = SubSeq(bytes, 1, j)
  BY <1>1, <1>3, ConcatAdjacentSubSeq
<1> QED
  BY <1>2, <1>4 DEF Bytes, Cat

\* Each fragment fits a segment, and one after the other they are the message.
LEMMA FragmentsMakeMessage ==
  ASSUME NEW bytes \in Bytes
  PROVE  /\ Fragments(bytes) \in Seq(Chunk)
         /\ FlattenSeq(Fragments(bytes)) = bytes
<1> DEFINE len == Len(bytes)
<1> DEFINE c == (len + Mss - 1) \div Mss
<1> DEFINE upto(i) == Least(i * Mss, len)
<1> DEFINE F == Fragments(bytes)
<1>1. len \in Nat /\ Mss \in Nat /\ Mss > 0
  BY Constants DEF Bytes
<1>2. c \in Nat /\ c * Mss >= len /\ (c > 0 => (c - 1) * Mss < len) /\ (len = 0 => c = 0)
  BY <1>1, FragmentCount, Zenon
<1>3. F = [i \in 1..c |-> SubSeq(bytes, (i - 1) * Mss + 1, upto(i))]
  BY DEF Fragments
<1> HIDE DEF c, len, F
<1>4. ASSUME NEW i \in 1..c
      PROVE  /\ (i - 1) * Mss \in Nat /\ i * Mss = (i - 1) * Mss + Mss
             /\ (i - 1) * Mss <= (c - 1) * Mss /\ (i - 1) * Mss < len
  <2>0. i \in Nat /\ i - 1 \in Nat /\ i <= c /\ c > 0 /\ c - 1 \in Nat /\ c - 1 - (i - 1) \in Nat
    BY <1>2
  <2>1. (i - 1) * Mss \in Nat /\ i * Mss = (i - 1) * Mss + Mss
    BY <1>1, <2>0
  <2>2. (c - 1) * Mss = (i - 1) * Mss + (c - 1 - (i - 1)) * Mss
    BY <1>1, <1>2, <2>0
  <2>3. (c - 1 - (i - 1)) * Mss \in Nat
    BY <1>1, <2>0
  <2>4. (c - 1) * Mss \in Nat
    BY <1>1, <2>0
  <2> QED
    BY <1>1, <1>2, <2>0, <2>1, <2>2, <2>3, <2>4
<1>5. ASSUME NEW i \in 1..c
      PROVE  /\ F[i] \in Chunk
             /\ Cat(SubSeq(bytes, 1, upto(i - 1)), F[i]) = SubSeq(bytes, 1, upto(i))
  <2>1. upto(i - 1) = (i - 1) * Mss
    BY <1>1, <1>4 DEF Least
  <2>2. upto(i) \in Nat /\ upto(i) <= len /\ upto(i) - (i - 1) * Mss <= Mss /\ (i - 1) * Mss <= upto(i)
    BY <1>1, <1>4 DEF Least
  <2>3. (i - 1) * Mss \in Nat
    BY <1>4
  <2>4. F[i] = SubSeq(bytes, (i - 1) * Mss + 1, upto(i))
    BY <1>3
  <2> DEFINE from == (i - 1) * Mss
  <2> DEFINE to == upto(i)
  <2>5. from \in Nat /\ to \in Nat /\ from <= to /\ to <= Len(bytes) /\ F[i] = SubSeq(bytes, from + 1, to)
    BY <2>2, <2>3, <2>4 DEF len
  <2>6. to - from <= Mss /\ upto(i - 1) = from
    BY <2>1, <2>2
  <2> HIDE DEF from, to
  <2>7. F[i] \in Bytes /\ Len(F[i]) = to - from /\ Cat(SubSeq(bytes, 1, from), F[i]) = SubSeq(bytes, 1, to)
    BY <2>5, PartOf
  <2>8. F[i] \in Chunk
    BY <2>6, <2>7 DEF Chunk
  <2> HIDE DEF upto
  <2> QED
    BY <2>6, <2>7, <2>8, Zenon DEF to
<1>6. F \in Seq(Chunk) /\ Len(F) = c
  <2>1. F \in [1..c -> Chunk]
    <3>1. \A i \in 1..c : F[i] \in Chunk
      BY <1>5
    <3>2. F = [i \in 1..c |-> F[i]]
      BY <1>3, Zenon
    <3> QED
      BY <3>1, <3>2, Zenon
  <2> QED
    BY <1>2, <2>1
<1>7. F \in Seq(Bytes)
  BY <1>6, SeqMonotonic DEF Chunk
<1> DEFINE T == {i \in Nat : i \in 0..c => FlattenSeq(SubSeq(F, 1, i)) = SubSeq(bytes, 1, upto(i))}
<1>8. 0 \in T
  <2>1. upto(0) = 0
    BY <1>1 DEF Least
  <2>2. SubSeq(F, 1, 0) = <<>> /\ SubSeq(bytes, 1, 0) = <<>>
    BY <1>7 DEF Bytes
  <2> QED
    BY <2>1, <2>2, FlattenEmpty
<1>9. ASSUME NEW i \in Nat, i \in T PROVE i + 1 \in T
  <2>1. SUFFICES ASSUME i + 1 \in 0..c PROVE FlattenSeq(SubSeq(F, 1, i + 1)) = SubSeq(bytes, 1, upto(i + 1))
    OBVIOUS
  <2>2. i + 1 \in 1..c /\ i \in 0..c /\ i + 1 - 1 = i
    BY <1>2, <2>1
  <2>3. SubSeq(F, 1, i) \in Seq(Bytes) /\ F[i + 1] \in Bytes /\ SubSeq(F, 1, i + 1) = Append(SubSeq(F, 1, i), F[i + 1])
    BY <1>6, <1>7, <2>2
  <2>4. SubSeq(F, 1, i + 1) = SubSeq(F, 1, i) \o <<F[i + 1]>> /\ <<F[i + 1]>> \in Seq(Bytes)
    BY <2>3, QueueConcat
  <2>5. FlattenSeq(SubSeq(F, 1, i + 1)) = FlattenSeq(SubSeq(F, 1, i)) \o F[i + 1]
    BY <2>3, <2>4, FlattenConcat, FlattenOne
  <2>6. FlattenSeq(SubSeq(F, 1, i)) = SubSeq(bytes, 1, upto(i))
    BY <1>9, <2>2
  <2> HIDE DEF upto
  <2>7. Cat(SubSeq(bytes, 1, upto(i)), F[i + 1]) = SubSeq(bytes, 1, upto(i + 1))
    <3>1. Cat(SubSeq(bytes, 1, upto(i + 1 - 1)), F[i + 1]) = SubSeq(bytes, 1, upto(i + 1))
      BY <1>5, <2>2
    <3> QED
      BY <2>2, <3>1
  <2> QED
    BY <2>5, <2>6, <2>7, Zenon DEF Cat
<1> HIDE DEF T
<1>10. \A i \in Nat : i \in T
  BY <1>8, <1>9, SetInduction
<1>11. FlattenSeq(SubSeq(F, 1, c)) = SubSeq(bytes, 1, upto(c))
  <2>1. c \in 0..c
    BY <1>2
  <2> QED
    BY <1>2, <1>10, <2>1 DEF T
<1>12. SubSeq(F, 1, c) = F
  BY <1>6, <1>7, SubSeqFull
<1>13. upto(c) = len
  BY <1>1, <1>2 DEF Least
<1>14. SubSeq(bytes, 1, len) = bytes
  BY SubSeqFull DEF len, Bytes
<1> QED
  BY <1>6, <1>11, <1>12, <1>13, <1>14 DEF F

\* BytesConcat and FlattenSeq, said with Cat.
LEMMA CatBytes ==
  /\ <<>> \in Bytes
  /\ \A a, b \in Bytes : Cat(a, b) \in Bytes
  /\ \A a \in Bytes : Cat(<<>>, a) = a /\ Cat(a, <<>>) = a
  /\ \A a, b, c \in Bytes : Cat(Cat(a, b), c) = Cat(a, Cat(b, c))
  /\ \A a, b \in Bytes : Len(Cat(a, b)) = Len(a) + Len(b)
<1>1. \A a, b \in Bytes : Len(Cat(a, b)) = Len(a) + Len(b)
  BY DEF Cat, Bytes
<1> QED
  BY <1>1, BytesConcat DEF Cat

\* The bytes of two queues, one after the other.
LEMMA FlattenCat ==
  ASSUME NEW s \in Seq(Bytes), NEW t \in Seq(Bytes)
  PROVE  FlattenSeq(s) \in Bytes /\ FlattenSeq(s \o t) = Cat(FlattenSeq(s), FlattenSeq(t))
  BY FlattenType, FlattenConcat DEF Cat

\* The bytes of a queue and one more message.
LEMMA FlattenSnoc ==
  ASSUME NEW s \in Seq(Bytes), NEW b \in Bytes
  PROVE  FlattenSeq(Append(s, b)) = Cat(FlattenSeq(s), b)
<1>1. <<b>> \in Seq(Bytes) /\ Append(s, b) = s \o <<b>>
  BY QueueConcat
<1> QED
  BY <1>1, FlattenCat, FlattenOne

\* Chunks are bytes.
LEMMA ChunksAreBytes ==
  ASSUME NEW q \in Seq(Chunk)
  PROVE  q \in Seq(Bytes)
  BY SeqMonotonic DEF Chunk

\* What ikcp_send adds to the last segment of the queue.
LEMMA FilledAppends ==
  ASSUME NEW q \in Seq(Chunk), NEW bytes \in Bytes
  PROVE  /\ Fill(q, bytes) \in Nat /\ Fill(q, bytes) <= Len(bytes)
         /\ Filled(q, bytes) \in Seq(Chunk)
         /\ FlattenSeq(Filled(q, bytes)) = Cat(FlattenSeq(q), SubSeq(bytes, 1, Fill(q, bytes)))
<1> DEFINE n == Fill(q, bytes)
<1> DEFINE part == SubSeq(bytes, 1, n)
<1>0. Mss \in Nat /\ Len(bytes) \in Nat /\ q \in Seq(Bytes)
  BY Constants, ChunksAreBytes DEF Bytes
<1>1. CASE q = <<>>
  <2>1. n = 0 /\ Filled(q, bytes) = q
    BY <1>1 DEF Fill, Filled
  <2>2. part = <<>>
    BY <2>1 DEF Bytes
  <2>3. FlattenSeq(q) = <<>>
    BY <1>1, FlattenEmpty
  <2>4. FlattenSeq(Filled(q, bytes)) = <<>> /\ Cat(FlattenSeq(q), part) = <<>>
    <3> HIDE DEF n, part
    <3> QED
      BY <2>1, <2>2, <2>3, CatBytes
  <2>5. FlattenSeq(Filled(q, bytes)) = Cat(FlattenSeq(q), SubSeq(bytes, 1, Fill(q, bytes)))
    BY <2>4
  <2>6. Fill(q, bytes) \in Nat /\ Fill(q, bytes) <= Len(bytes) /\ Filled(q, bytes) \in Seq(Chunk)
    BY <1>0, <2>1
  <2> QED
    BY <2>5, <2>6
<1>2. CASE q # <<>>
  <2> DEFINE f == Front(q)
  <2> DEFINE x == Last(q)
  <2>1. f \in Seq(Chunk) /\ x \in Chunk /\ q = Append(f, x)
    BY <1>2, FrontLast
  <2>2. Len(x) \in Nat /\ Len(x) <= Mss /\ x \in Bytes /\ f \in Seq(Bytes)
    BY <2>1, ChunksAreBytes DEF Chunk, Bytes
  <2>3. n = Least(Mss - Len(x), Len(bytes))
    BY <1>2 DEF Fill
  <2>4. n \in Nat /\ n <= Len(bytes) /\ n <= Mss - Len(x)
    BY <1>0, <2>2, <2>3 DEF Least
  <2>5. Filled(q, bytes) = Append(f, x \o part)
    BY <1>2 DEF Filled
  <2> HIDE DEF f, x, n
  <2>6. part \in Bytes /\ Len(part) = n
    BY <2>4 DEF Bytes
  <2> HIDE DEF part
  <2>7. x \o part \in Bytes /\ Len(x \o part) = Len(x) + n
    <3>1. Cat(x, part) \in Bytes /\ Len(Cat(x, part)) = Len(x) + n
      BY <2>2, <2>6, CatBytes
    <3> QED
      BY <3>1 DEF Cat
  <2>8. x \o part \in Chunk
    BY <1>0, <2>2, <2>4, <2>7 DEF Chunk
  <2>9. Append(f, x \o part) \in Seq(Chunk)
    BY <2>1, <2>8
  <2>10. FlattenSeq(Append(f, x \o part)) = Cat(FlattenSeq(f), Cat(x, part))
    BY <2>2, <2>7, FlattenSnoc DEF Cat
  <2>11. FlattenSeq(q) = Cat(FlattenSeq(f), x) /\ FlattenSeq(f) \in Bytes
    BY <2>1, <2>2, FlattenSnoc, FlattenType
  <2>12. Cat(FlattenSeq(f), Cat(x, part)) = Cat(Cat(FlattenSeq(f), x), part)
    BY <2>2, <2>6, <2>11, CatBytes
  <2>13. FlattenSeq(Filled(q, bytes)) = Cat(FlattenSeq(q), part)
    BY <2>5, <2>10, <2>11, <2>12, Zenon
  <2> QED
    BY <2>4, <2>5, <2>9, <2>13, Zenon DEF n, part
<1> QED
  BY <1>1, <1>2

\* A message that ikcp_send accepts is appended to what the queue holds.
LEMMA IkcpSendAppends ==
  ASSUME NEW k, k.snd_queue \in Seq(Chunk), NEW bytes \in Bytes, IkcpSend(k, bytes).ok
  PROVE  \E q \in Seq(Chunk) : /\ IkcpSend(k, bytes).kcp = [k EXCEPT !.snd_queue = q]
                               /\ FlattenSeq(q) = Cat(FlattenSeq(k.snd_queue), bytes)
<1> DEFINE q == k.snd_queue
<1> DEFINE n == Fill(q, bytes)
<1> DEFINE tail == SubSeq(bytes, n + 1, Len(bytes))
<1> DEFINE rest == Fragments(tail)
<1> DEFINE r == Filled(q, bytes) \o rest
<1>1. IkcpSend(k, bytes).kcp = [k EXCEPT !.snd_queue = r]
  BY DEF IkcpSend
<1>2. /\ n \in Nat /\ n <= Len(bytes)
      /\ Filled(q, bytes) \in Seq(Chunk)
      /\ FlattenSeq(Filled(q, bytes)) = Cat(FlattenSeq(q), SubSeq(bytes, 1, n))
  BY FilledAppends
<1>3. /\ tail \in Bytes /\ Len(bytes) \in Nat
      /\ Cat(SubSeq(bytes, 1, n), tail) = SubSeq(bytes, 1, Len(bytes))
      /\ SubSeq(bytes, 1, n) \in Bytes /\ SubSeq(bytes, 1, Len(bytes)) = bytes
  <2>1. Len(bytes) \in Nat /\ SubSeq(bytes, 1, Len(bytes)) = bytes
    BY SubSeqFull DEF Bytes
  <2> HIDE DEF n
  <2>2. SubSeq(bytes, 1, n) \in Bytes
    BY <1>2, <2>1 DEF Bytes
  <2>3. tail \in Bytes /\ Cat(SubSeq(bytes, 1, n), tail) = SubSeq(bytes, 1, Len(bytes))
    <3>1. Len(bytes) <= Len(bytes)
      BY <2>1
    <3>2. \A i, j \in Nat : i <= j /\ j <= Len(bytes) => /\ SubSeq(bytes, i + 1, j) \in Bytes
                                                        /\ Cat(SubSeq(bytes, 1, i), SubSeq(bytes, i + 1, j)) = SubSeq(bytes, 1, j)
      BY PartOf
    <3> QED
      BY <1>2, <2>1, <3>1, <3>2
  <2> QED
    BY <2>1, <2>2, <2>3
<1> HIDE DEF tail, n
<1>4. rest \in Seq(Chunk) /\ FlattenSeq(rest) = tail
  BY <1>3, FragmentsMakeMessage
<1> HIDE DEF rest, q
<1>5. r \in Seq(Chunk)
  BY <1>2, <1>4
<1>6. FlattenSeq(r) = Cat(Cat(FlattenSeq(q), SubSeq(bytes, 1, n)), tail)
  BY <1>2, <1>4, FlattenCat, ChunksAreBytes
<1>7. FlattenSeq(q) \in Bytes
  BY FlattenType, ChunksAreBytes DEF q
<1>8. Cat(Cat(FlattenSeq(q), SubSeq(bytes, 1, n)), tail) = Cat(FlattenSeq(q), bytes)
  <2> DEFINE head == SubSeq(bytes, 1, n)
  <2>1. head \in Bytes /\ Cat(head, tail) = bytes
    BY <1>3
  <2> HIDE DEF head
  <2>2. Cat(Cat(FlattenSeq(q), head), tail) = Cat(FlattenSeq(q), Cat(head, tail))
    BY <1>3, <1>7, <2>1, CatBytes
  <2> QED
    BY <2>1, <2>2 DEF head
<1> HIDE DEF r
<1> QED
  BY <1>1, <1>5, <1>6, <1>8 DEF q

------------------------------------------------------------------------------
(* The inductive invariant of an established connection.                      *)

SndSeg == [sn : Nat, data : Chunk, fastack : 0..mode.resend, xmit : 0..FastLimit + 1]
RcvSeg == [sn : Nat, data : Bytes]
ControlBlock ==
  [snd_una : Nat, snd_nxt : Nat, rcv_nxt : Nat, rmt_wnd : 0..RcvWnd, cwnd : Nat, ssthresh : Nat,
   probe : SUBSET {"ask", "tell"}, probing : BOOLEAN, updated : BOOLEAN, acklist : Seq(Nat),
   snd_queue : Seq(Chunk), snd_buf : SUBSET SndSeg, rcv_queue : Seq(Bytes), rcv_buf : SUBSET RcvSeg]

\* No sequence number is there twice.
OneEach(buf) == \A x, y \in buf : x.sn = y.sn => x = y

Has(buf, n, d) == \E x \in buf : x.sn = n /\ x.data = d
Got(b, n) == n < b.rcv_nxt \/ \E y \in b.rcv_buf : y.sn = n

\* An end by itself: what it has sent and not yet got acknowledged is within its
\* window, what it has received and not yet handed on within its own, and it
\* acknowledges what it has.
SndInv(k) ==
  /\ OneEach(k.snd_buf)
  /\ k.snd_una <= k.snd_nxt /\ k.snd_nxt - k.snd_una <= mode.sndWnd
  /\ \A x \in k.snd_buf : k.snd_una <= x.sn /\ x.sn < k.snd_nxt
RcvInv(k) ==
  /\ OneEach(k.rcv_buf)
  /\ Len(k.rcv_queue) <= RcvWnd
  /\ \A y \in k.rcv_buf : k.rcv_nxt <= y.sn /\ y.sn < k.rcv_nxt + RcvWnd
Acked(k) == \A i \in DOMAIN k.acklist : Got(k, k.acklist[i])
End(k) == k \in ControlBlock /\ SndInv(k) /\ RcvInv(k) /\ Acked(k)

\* The queue stops only when it is full; what is in snd_buf has been sent.
Moved(k) == \A y \in k.rcv_buf : y.sn = k.rcv_nxt => Len(k.rcv_queue) = RcvWnd
Sent1(k) == \A x \in k.snd_buf : x.xmit >= 1

\* From a to b; toB and toA are the segments on the way.
\* What a holds no more is at b; what both hold is the same; a segment on the way has
\* arrived before, or a holds it; an acknowledgement is of what b has.
Agree(a, b) ==
  /\ b.rcv_nxt <= a.snd_nxt
  /\ \A y \in b.rcv_buf : y.sn < a.snd_nxt
  /\ \A n \in Nat : n < a.snd_nxt => (\E x \in a.snd_buf : x.sn = n) \/ Got(b, n)
  /\ \A x \in a.snd_buf, y \in b.rcv_buf : x.sn = y.sn => x.data = y.data
PushOk(a, b, x) ==
  x.cmd = "push" => x.sn < a.snd_nxt /\ (Got(b, x.sn) \/ Has(a.snd_buf, x.sn, x.data))
AckOk(b, x) == (x.cmd = "ack" => Got(b, x.sn)) /\ x.una <= b.rcv_nxt
Direction(a, b, toB, toA) ==
  /\ Agree(a, b)
  /\ \A x \in toB : PushOk(a, b, x)
  /\ \A x \in toA : AckOk(b, x)

\* Both directions of a connection between k and p.
Link(k, p, toP, toK) ==
  /\ mode \in ModeType
  /\ End(k) /\ End(p)
  /\ toP \subseteq SegType /\ toK \subseteq SegType
  /\ Direction(k, p, toP, toK) /\ Direction(p, k, toK, toP)

\* What a has accepted and the user of b has not got yet, and that it stays the same.
Data(a, b, n) == At(IF n \in Sns(b.rcv_buf) THEN b.rcv_buf ELSE a.snd_buf, n).data
Between(a, b) == [i \in 1..a.snd_nxt - b.rcv_nxt |-> Data(a, b, b.rcv_nxt + i - 1)]
Chain(a, b) == b.rcv_queue \o (Between(a, b) \o a.snd_queue)
Kept(k, k1, p) == Chain(k1, p) = Chain(k, p) /\ Chain(p, k1) = Chain(p, k)

\* The types of a control block.
LEMMA EndTypes ==
  ASSUME NEW k, End(k), mode \in ModeType
  PROVE  /\ k.snd_una \in Nat /\ k.snd_nxt \in Nat /\ k.rcv_nxt \in Nat
         /\ k.rmt_wnd \in 0..RcvWnd /\ k.cwnd \in Nat /\ k.ssthresh \in Nat
         /\ k.acklist \in Seq(Nat) /\ k.snd_queue \in Seq(Chunk) /\ k.snd_queue \in Seq(Bytes)
         /\ k.rcv_queue \in Seq(Bytes)
         /\ \A x \in k.snd_buf : /\ x.sn \in Nat /\ x.data \in Chunk /\ x.data \in Bytes
                                 /\ x.fastack \in 0..mode.resend /\ x.xmit \in 0..FastLimit + 1
         /\ \A y \in k.rcv_buf : y.sn \in Nat /\ y.data \in Bytes
<1>1. k \in ControlBlock
  BY DEF End
<1>2. k.snd_queue \in Seq(Chunk)
  BY <1>1 DEF ControlBlock
<1>3. k.snd_queue \in Seq(Bytes)
  BY <1>2, ChunksAreBytes
<1>4. k.snd_buf \subseteq SndSeg /\ k.rcv_buf \subseteq RcvSeg
  BY <1>1 DEF ControlBlock
<1>5. \A x \in k.snd_buf : /\ x.sn \in Nat /\ x.data \in Chunk /\ x.data \in Bytes
                           /\ x.fastack \in 0..mode.resend /\ x.xmit \in 0..FastLimit + 1
  BY <1>4 DEF SndSeg, Chunk
<1>6. \A y \in k.rcv_buf : y.sn \in Nat /\ y.data \in Bytes
  BY <1>4 DEF RcvSeg
<1> QED
  BY <1>1, <1>2, <1>3, <1>5, <1>6 DEF ControlBlock

\* At finds the segment of a number.
LEMMA AtIs ==
  ASSUME NEW buf, NEW n, n \in Sns(buf)
  PROVE  At(buf, n) \in buf /\ At(buf, n).sn = n
<1>1. \E x \in buf : x.sn = n
  BY DEF Sns
<1> QED
  BY <1>1, Zenon DEF At

\* What a buffer has under a number is what At finds there.
LEMMA AtHas ==
  ASSUME NEW buf, OneEach(buf), NEW n, NEW d, Has(buf, n, d)
  PROVE  n \in Sns(buf) /\ At(buf, n).data = d
<1>1. PICK x \in buf : x.sn = n /\ x.data = d
  BY DEF Has
<1>2. n \in Sns(buf)
  BY <1>1 DEF Sns
<1>3. At(buf, n) = x
  BY <1>1, <1>2, AtIs DEF OneEach
<1> QED
  BY <1>1, <1>2, <1>3

\* The data of a segment that one of the ends holds.
LEMMA DataIs ==
  ASSUME NEW a, NEW b, OneEach(a.snd_buf), OneEach(b.rcv_buf), Agree(a, b),
         NEW n, NEW d, Has(b.rcv_buf, n, d) \/ Has(a.snd_buf, n, d)
  PROVE  Data(a, b, n) = d
<1>1. CASE n \in Sns(b.rcv_buf)
  <2>1. At(b.rcv_buf, n) \in b.rcv_buf /\ At(b.rcv_buf, n).sn = n
    BY <1>1, AtIs
  <2>2. Has(b.rcv_buf, n, d) => At(b.rcv_buf, n).data = d
    BY AtHas
  <2>3. Has(a.snd_buf, n, d) => At(b.rcv_buf, n).data = d
    BY <2>1 DEF Agree, Has
  <2> QED
    BY <1>1, <2>2, <2>3 DEF Data
<1>2. CASE n \notin Sns(b.rcv_buf)
  <2>1. ~Has(b.rcv_buf, n, d)
    BY <1>2, AtHas
  <2>2. At(a.snd_buf, n).data = d
    BY <2>1, AtHas
  <2> QED
    BY <1>2, <2>2 DEF Data
<1> QED
  BY <1>1, <1>2

\* Of what b waits for and a has sent, one of the ends holds the data.
LEMMA DataHeld ==
  ASSUME NEW a, NEW b, End(a), End(b), mode \in ModeType, Agree(a, b),
         NEW n \in Nat, b.rcv_nxt <= n, n < a.snd_nxt
  PROVE  /\ Data(a, b, n) \in Bytes
         /\ Has(b.rcv_buf, n, Data(a, b, n)) \/ Has(a.snd_buf, n, Data(a, b, n))
<1>1. OneEach(a.snd_buf) /\ OneEach(b.rcv_buf)
  BY DEF End, SndInv, RcvInv
<1>2. b.rcv_nxt \in Nat
  BY EndTypes
<1>3. (\E x \in a.snd_buf : x.sn = n) \/ \E y \in b.rcv_buf : y.sn = n
  BY <1>2 DEF Agree, Got
<1>4. \E d \in Bytes : Has(b.rcv_buf, n, d) \/ Has(a.snd_buf, n, d)
  <2>1. ASSUME NEW x \in a.snd_buf, x.sn = n PROVE x.data \in Bytes /\ Has(a.snd_buf, n, x.data)
    BY <2>1, EndTypes DEF Has
  <2>2. ASSUME NEW y \in b.rcv_buf, y.sn = n PROVE y.data \in Bytes /\ Has(b.rcv_buf, n, y.data)
    BY <2>2, EndTypes DEF Has
  <2> QED
    BY <1>3, <2>1, <2>2
<1> QED
  BY <1>1, <1>4, DataIs

\* What is between the ends is a sequence of data.
LEMMA BetweenType ==
  ASSUME NEW a, NEW b, End(a), End(b), mode \in ModeType, Agree(a, b)
  PROVE  /\ a.snd_nxt - b.rcv_nxt \in Nat
         /\ Between(a, b) \in Seq(Bytes) /\ Len(Between(a, b)) = a.snd_nxt - b.rcv_nxt
         /\ \A i \in 1..a.snd_nxt - b.rcv_nxt : Between(a, b)[i] = Data(a, b, b.rcv_nxt + i - 1)
<1> DEFINE m == a.snd_nxt - b.rcv_nxt
<1>1. a.snd_nxt \in Nat /\ b.rcv_nxt \in Nat /\ m \in Nat
  BY EndTypes DEF Agree
<1>2. ASSUME NEW i \in 1..m PROVE Data(a, b, b.rcv_nxt + i - 1) \in Bytes
  <2>1. b.rcv_nxt + i - 1 \in Nat /\ b.rcv_nxt <= b.rcv_nxt + i - 1 /\ b.rcv_nxt + i - 1 < a.snd_nxt
    BY <1>1
  <2> QED
    BY <2>1, DataHeld
<1>3. Between(a, b) = [i \in 1..m |-> Data(a, b, b.rcv_nxt + i - 1)]
  BY DEF Between
<1> HIDE DEF m
<1>4. Between(a, b) \in [1..m -> Bytes]
  BY <1>2, <1>3
<1>5. Between(a, b) \in Seq(Bytes) /\ Len(Between(a, b)) = m
  BY <1>1, <1>4
<1>6. \A i \in 1..m : Between(a, b)[i] = Data(a, b, b.rcv_nxt + i - 1)
  BY <1>3
<1> QED
  BY <1>1, <1>5, <1>6 DEF m

\* It stays the same when nothing is taken for data that was not there before.
LEMMA BetweenKept ==
  ASSUME mode \in ModeType, NEW a, NEW b, End(a), End(b), Agree(a, b),
         NEW a1, NEW b1, End(a1), End(b1), Agree(a1, b1),
         a1.snd_nxt = a.snd_nxt, b1.rcv_nxt = b.rcv_nxt,
         \A n, d : n >= b.rcv_nxt /\ (Has(b1.rcv_buf, n, d) \/ Has(a1.snd_buf, n, d))
                     => Has(b.rcv_buf, n, d) \/ Has(a.snd_buf, n, d)
  PROVE  Between(a1, b1) = Between(a, b)
<1>1. a.snd_nxt \in Nat /\ b.rcv_nxt \in Nat /\ OneEach(a.snd_buf) /\ OneEach(b.rcv_buf)
  BY EndTypes DEF End, SndInv, RcvInv
<1>2. ASSUME NEW i \in 1..a.snd_nxt - b.rcv_nxt
      PROVE  Data(a1, b1, b.rcv_nxt + i - 1) = Data(a, b, b.rcv_nxt + i - 1)
  <2> DEFINE n == b.rcv_nxt + i - 1
  <2>1. n \in Nat /\ b.rcv_nxt <= n /\ n < a.snd_nxt /\ n >= b.rcv_nxt
    BY <1>1
  <2> HIDE DEF n
  <2>2. Has(b1.rcv_buf, n, Data(a1, b1, n)) \/ Has(a1.snd_buf, n, Data(a1, b1, n))
    BY <2>1, DataHeld
  <2>3. Has(b.rcv_buf, n, Data(a1, b1, n)) \/ Has(a.snd_buf, n, Data(a1, b1, n))
    BY <2>1, <2>2
  <2>4. Data(a, b, n) = Data(a1, b1, n)
    BY <1>1, <2>3, DataIs
  <2> QED
    BY <2>4 DEF n
<1> QED
  BY <1>2 DEF Between

------------------------------------------------------------------------------
(* What the steps of an end do to the connection.                             *)

\* What is not about snd_queue, snd_buf, snd_nxt and what is received does not
\* matter, nor does forgetting of what the peer has.
LEMMA SndChange ==
  ASSUME NEW k, NEW p, NEW toP, NEW toK, Link(k, p, toP, toK),
         NEW k1 \in ControlBlock, SndInv(k1), Acked(k1),
         k1.snd_nxt = k.snd_nxt, k1.rcv_nxt = k.rcv_nxt, k1.rcv_buf = k.rcv_buf,
         k1.rcv_queue = k.rcv_queue, k1.snd_queue = k.snd_queue,
         \A y \in k1.snd_buf : Has(k.snd_buf, y.sn, y.data),
         \A x \in k.snd_buf : Has(k1.snd_buf, x.sn, x.data) \/ Got(p, x.sn)
  PROVE  Link(k1, p, toP, toK) /\ Kept(k, k1, p)
<1>1. End(k) /\ End(p) /\ Agree(k, p) /\ Agree(p, k) /\ mode \in ModeType
  BY DEF Link, Direction
<1>2. End(k1)
  BY <1>1 DEF End, RcvInv
<1>3. \A n : Got(k1, n) <=> Got(k, n)
  BY DEF Got
<1>4. Agree(k1, p)
  <2>1. ASSUME NEW n \in Nat, n < k1.snd_nxt PROVE (\E x \in k1.snd_buf : x.sn = n) \/ Got(p, n)
    <3>1. (\E x \in k.snd_buf : x.sn = n) \/ Got(p, n)
      BY <1>1, <2>1 DEF Agree
    <3> QED
      BY <3>1 DEF Has
  <2>2. ASSUME NEW x \in k1.snd_buf, NEW y \in p.rcv_buf, x.sn = y.sn PROVE x.data = y.data
    BY <1>1, <2>2 DEF Agree, Has
  <2> QED
    BY <1>1, <2>1, <2>2 DEF Agree
<1>5. Agree(p, k1)
  BY <1>1, <1>3 DEF Agree
<1>6. ASSUME NEW x \in toP PROVE PushOk(k1, p, x)
  <2>1. PushOk(k, p, x)
    BY DEF Link, Direction
  <2>2. Has(k.snd_buf, x.sn, x.data) => Has(k1.snd_buf, x.sn, x.data) \/ Got(p, x.sn)
    BY DEF Has
  <2> QED
    BY <2>1, <2>2 DEF PushOk
<1>7. ASSUME NEW x \in toK PROVE PushOk(p, k1, x)
  BY <1>3 DEF Link, Direction, PushOk
<1>8. \A x \in toK : AckOk(p, x)
  BY DEF Link, Direction
<1>9. \A x \in toP : AckOk(k1, x)
  BY <1>3 DEF Link, Direction, AckOk
<1>10. Link(k1, p, toP, toK)
  BY <1>1, <1>2, <1>4, <1>5, <1>6, <1>7, <1>8, <1>9 DEF Link, Direction
<1>11. Between(k1, p) = Between(k, p)
  <2>1. \A n, d : Has(k1.snd_buf, n, d) => Has(k.snd_buf, n, d)
    BY DEF Has
  <2> QED
    BY <1>1, <1>2, <1>4, <2>1, BetweenKept
<1>12. Between(p, k1) = Between(p, k)
  BY DEF Between, Data
<1> QED
  BY <1>10, <1>11, <1>12 DEF Kept, Chain

\* More segments on the way.
LEMMA Emission ==
  ASSUME NEW k, NEW p, NEW toP, NEW toK, Link(k, p, toP, toK),
         NEW out \in SUBSET SegType, \A x \in out : PushOk(k, p, x) /\ AckOk(k, x)
  PROVE  Link(k, p, toP \cup out, toK)
  BY DEF Link, Direction

\* Fewer segments on the way.
LEMMA FewerOnTheWay ==
  ASSUME NEW k, NEW p, NEW toP, NEW toK, Link(k, p, toP, toK),
         NEW toP1 \in SUBSET toP, NEW toK1 \in SUBSET toK
  PROVE  Link(k, p, toP1, toK1)
  BY DEF Link, Direction

\* Both ends are alike.
LEMMA LinkSymmetric ==
  ASSUME NEW k, NEW p, NEW toP, NEW toK, Link(k, p, toP, toK)
  PROVE  Link(p, k, toK, toP)
  BY DEF Link

\* A segment that k expects comes in: it is in rcv_buf then.
Inserted(k, seg) ==
  IF seg.sn \in Sns(k.rcv_buf) THEN k
  ELSE [k EXCEPT !.rcv_buf = @ \cup {[sn |-> seg.sn, data |-> seg.data]}]

\* Such a segment leaves the connection as it should be, and is in rcv_buf then.
LEMMA Insert ==
  ASSUME NEW k, NEW p, NEW toP, NEW toK, Link(k, p, toP, toK),
         NEW seg \in SegType, k.rcv_nxt <= seg.sn, seg.sn < k.rcv_nxt + RcvWnd,
         seg.cmd = "push", PushOk(p, k, seg)
  PROVE  /\ Link(Inserted(k, seg), p, toP, toK) /\ Kept(k, Inserted(k, seg), p)
         /\ Got(Inserted(k, seg), seg.sn)
<1> DEFINE k1 == Inserted(k, seg)
<1>1. End(k) /\ End(p) /\ Agree(k, p) /\ Agree(p, k) /\ mode \in ModeType /\ k \in ControlBlock
  BY DEF Link, Direction, End
<1>2. seg.sn \in Nat /\ seg.data \in Bytes /\ seg.sn < p.snd_nxt
  BY DEF SegType, PushOk
<1>3. CASE seg.sn \in Sns(k.rcv_buf)
  <2>1. Inserted(k, seg) = k
    BY <1>3 DEF Inserted
  <2> QED
    BY <1>3, <2>1 DEF Kept, Got, Sns
<1>4. CASE seg.sn \notin Sns(k.rcv_buf)
  <2> DEFINE y1 == [sn |-> seg.sn, data |-> seg.data]
  <2>1. /\ k1 \in ControlBlock
        /\ k1.snd_una = k.snd_una /\ k1.snd_nxt = k.snd_nxt /\ k1.rcv_nxt = k.rcv_nxt
        /\ k1.acklist = k.acklist /\ k1.snd_queue = k.snd_queue /\ k1.snd_buf = k.snd_buf
        /\ k1.rcv_queue = k.rcv_queue /\ k1.rcv_buf = k.rcv_buf \cup {y1}
    <3>1. y1 \in RcvSeg
      BY <1>2 DEF RcvSeg
    <3>2. k1 = [k EXCEPT !.rcv_buf = k.rcv_buf \cup {y1}]
      BY <1>4 DEF Inserted
    <3> HIDE DEF y1, k1
    <3> QED
      BY <1>1, <3>1, <3>2 DEF ControlBlock
  <2>2. y1.sn = seg.sn /\ y1.data = seg.data
    OBVIOUS
  <2> HIDE DEF k1, y1
  <2>3. \A y \in k.rcv_buf : y.sn # y1.sn
    BY <1>4, <2>2 DEF Sns
  <2>4. Has(p.snd_buf, seg.sn, seg.data)
    <3>1. k.rcv_nxt \in Nat
      BY <1>1, EndTypes
    <3> QED
      BY <1>2, <2>2, <2>3, <3>1 DEF PushOk, Got
  <2>5. /\ \A n : Got(k, n) => Got(k1, n)
        /\ \A n, d : Has(k1.rcv_buf, n, d) => Has(k.rcv_buf, n, d) \/ Has(p.snd_buf, n, d)
    BY <2>1, <2>2, <2>4 DEF Got, Has
  <2>6. End(k1)
    <3>1. RcvInv(k1)
      BY <1>1, <2>1, <2>2, <2>3 DEF End, RcvInv, OneEach
    <3>2. SndInv(k1) /\ Acked(k1)
      BY <1>1, <2>1, <2>5 DEF End, SndInv, Acked
    <3> QED
      BY <2>1, <3>1, <3>2 DEF End
  <2>7. Agree(k1, p)
    BY <1>1, <2>1 DEF Agree
  <2>8. Agree(p, k1)
    <3>1. ASSUME NEW x \in p.snd_buf, NEW y \in k1.rcv_buf, x.sn = y.sn PROVE x.data = y.data
      <4>1. CASE y = y1
        <5>1. OneEach(p.snd_buf)
          BY <1>1 DEF End, SndInv
        <5> QED
          BY <2>2, <2>4, <3>1, <4>1, <5>1 DEF Has, OneEach
      <4>2. CASE y \in k.rcv_buf
        BY <1>1, <3>1, <4>2 DEF Agree
      <4> QED
        BY <2>1, <4>1, <4>2
    <3>2. \A y \in k1.rcv_buf : y.sn < p.snd_nxt
      BY <1>1, <1>2, <2>1, <2>2 DEF Agree
    <3>3. ASSUME NEW n \in Nat, n < p.snd_nxt PROVE (\E x \in p.snd_buf : x.sn = n) \/ Got(k1, n)
      BY <1>1, <2>5, <3>3 DEF Agree
    <3> QED
      BY <1>1, <2>1, <3>1, <3>2, <3>3 DEF Agree
  <2>9. Link(k1, p, toP, toK)
    <3>1. \A x \in toP : PushOk(k1, p, x) /\ AckOk(k1, x)
      BY <2>1, <2>5 DEF Link, Direction, PushOk, AckOk
    <3>2. \A x \in toK : PushOk(p, k1, x) /\ AckOk(p, x)
      BY <2>1, <2>5 DEF Link, Direction, PushOk, AckOk
    <3> QED
      BY <1>1, <2>6, <2>7, <2>8, <3>1, <3>2 DEF Link, Direction
  <2>10. Between(p, k1) = Between(p, k)
    BY <1>1, <2>1, <2>5, <2>6, <2>8, BetweenKept
  <2>11. Between(k1, p) = Between(k, p)
    BY <2>1 DEF Between, Data
  <2>12. Got(k1, seg.sn)
    BY <2>1, <2>2 DEF Got
  <2> QED
    BY <2>1, <2>9, <2>10, <2>11, <2>12 DEF Kept, Chain, k1
<1> QED
  BY <1>3, <1>4

\* The elements of two queues one after the other.
LEMMA QueueLen ==
  \A a, b \in Seq(Bytes) :
    /\ a \o b \in Seq(Bytes) /\ Len(a \o b) = Len(a) + Len(b)
    /\ \A i \in 1..Len(a) + Len(b) : (a \o b)[i] = IF i <= Len(a) THEN a[i] ELSE b[i - Len(a)]
  BY ConcatProperties

\* A buffer of segments whose numbers are in a range.
LEMMA BufFinite ==
  ASSUME NEW buf, OneEach(buf), NEW lo \in Nat, NEW hi \in Nat,
         \A x \in buf : x.sn \in Nat /\ lo <= x.sn /\ x.sn < hi
  PROVE  /\ IsFiniteSet(buf) /\ IsFiniteSet(Sns(buf)) /\ Cardinality(Sns(buf)) = Cardinality(buf)
         /\ Sns(buf) \in SUBSET Nat /\ Cardinality(buf) \in Nat
<1> DEFINE f == [x \in buf |-> x.sn]
<1> DEFINE R == lo..hi - 1
<1>1. IsFiniteSet(R)
  BY FS_Interval
<1>2. \A x, y \in buf : f[x] = f[y] => x = y
  BY DEF OneEach
<1>3. f \in [buf -> R] /\ \A x \in buf : x.sn \in R
  OBVIOUS
<1>4. f \in [buf -> Sns(buf)] /\ \A t \in Sns(buf) : \E x \in buf : f[x] = t
  BY DEF Sns
<1>5. Sns(buf) \in SUBSET Nat
  BY DEF Sns
<1> HIDE DEF f, R
<1>6. f \in Injection(buf, R) /\ f \in Injection(buf, Sns(buf)) /\ f \in Surjection(buf, Sns(buf))
  BY <1>2, <1>3, <1>4 DEF Injection, Surjection, IsInjective
<1>7. IsFiniteSet(buf)
  BY <1>1, <1>6, FS_Injection, Zenon
<1>8. IsFiniteSet(Sns(buf)) /\ (Cardinality(Sns(buf)) = Cardinality(buf) <=> f \in Injection(buf, Sns(buf)))
  BY <1>6, <1>7, FS_Surjection, Zenon
<1> QED
  BY <1>5, <1>6, <1>7, <1>8, FS_CardinalityType, Zenon

\* The buffers of an end.
LEMMA BufsFinite ==
  ASSUME NEW k, End(k), mode \in ModeType
  PROVE  /\ IsFiniteSet(Sns(k.snd_buf)) /\ Cardinality(Sns(k.snd_buf)) = Cardinality(k.snd_buf)
         /\ IsFiniteSet(Sns(k.rcv_buf)) /\ Cardinality(Sns(k.rcv_buf)) = Cardinality(k.rcv_buf)
         /\ Sns(k.snd_buf) \in SUBSET Nat /\ Sns(k.rcv_buf) \in SUBSET Nat
         /\ Cardinality(k.rcv_buf) \in Nat
<1>1. k.snd_una \in Nat /\ k.snd_nxt \in Nat /\ k.rcv_nxt \in Nat /\ k.rcv_nxt + RcvWnd \in Nat
  BY EndTypes, Constants
<1>2. OneEach(k.snd_buf) /\ \A x \in k.snd_buf : x.sn \in Nat /\ k.snd_una <= x.sn /\ x.sn < k.snd_nxt
  BY EndTypes DEF End, SndInv
<1>3. OneEach(k.rcv_buf) /\ \A x \in k.rcv_buf : x.sn \in Nat /\ k.rcv_nxt <= x.sn /\ x.sn < k.rcv_nxt + RcvWnd
  BY EndTypes DEF End, RcvInv
<1>4. IsFiniteSet(Sns(k.snd_buf)) /\ Cardinality(Sns(k.snd_buf)) = Cardinality(k.snd_buf) /\ Sns(k.snd_buf) \in SUBSET Nat
  BY <1>1, <1>2, BufFinite
<1>5. /\ IsFiniteSet(Sns(k.rcv_buf)) /\ Cardinality(Sns(k.rcv_buf)) = Cardinality(k.rcv_buf)
      /\ Sns(k.rcv_buf) \in SUBSET Nat /\ Cardinality(k.rcv_buf) \in Nat
  BY <1>1, <1>3, BufFinite
<1> QED
  BY <1>4, <1>5

\* The first n segments of rcv_buf are there and have room in rcv_queue.
Fits(k, n) == /\ k.rcv_nxt .. k.rcv_nxt + n - 1 \subseteq Sns(k.rcv_buf)
              /\ n = 0 \/ Len(k.rcv_queue) + n <= RcvWnd
FirstOf(k, n) == [i \in 1..n |-> At(k.rcv_buf, k.rcv_nxt + i - 1).data]
MovedBy(k, n) ==
  [k EXCEPT !.rcv_queue = @ \o FirstOf(k, n),
            !.rcv_buf = {seg \in @ : seg.sn >= k.rcv_nxt + n},
            !.rcv_nxt = @ + n]

\* MoveAvailable moves as many as fit.
LEMMA MoveAvailableIs ==
  ASSUME NEW k, End(k), mode \in ModeType
  PROVE  \E n \in Nat : /\ Fits(k, n) /\ MoveAvailable(k) = MovedBy(k, n)
                        /\ k.rcv_nxt + n \in Sns(k.rcv_buf) => Len(k.rcv_queue) + n >= RcvWnd
<1> DEFINE S == {m \in 0..Cardinality(k.rcv_buf) : Fits(k, m)}
<1> DEFINE n == Max(S)
<1> DEFINE c == Cardinality(k.rcv_buf)
<1>1. /\ c \in Nat /\ IsFiniteSet(Sns(k.rcv_buf)) /\ Cardinality(Sns(k.rcv_buf)) = c
      /\ k.rcv_nxt \in Nat /\ Len(k.rcv_queue) \in Nat /\ RcvWnd \in Nat
  BY BufsFinite, EndTypes, Constants
<1>2. IsFiniteSet(S) /\ S \in SUBSET Nat
  <2>1. S \in SUBSET (0..c) /\ IsFiniteSet(0..c)
    BY <1>1, FS_Interval
  <2> HIDE DEF S
  <2>2. IsFiniteSet(S)
    BY <2>1, FS_Subset
  <2> QED
    BY <1>1, <2>1, <2>2
<1>3. S # {}
  <2>1. k.rcv_nxt .. k.rcv_nxt + 0 - 1 \subseteq Sns(k.rcv_buf)
    BY <1>1
  <2>2. Fits(k, 0) /\ 0 \in 0..Cardinality(k.rcv_buf)
    BY <1>1, <2>1 DEF Fits
  <2> QED
    BY <2>2
<1>4. n \in S /\ \A m \in S : n >= m
  <2> HIDE DEF S
  <2> QED
    BY <1>2, <1>3, MaxOf
<1>5. MoveAvailable(k) = MovedBy(k, n)
  BY DEF MoveAvailable, MovedBy, Fits, FirstOf
<1> HIDE DEF n
<1>6. n \in Nat /\ Fits(k, n)
  BY <1>1, <1>4
<1>7. ASSUME k.rcv_nxt + n \in Sns(k.rcv_buf), Len(k.rcv_queue) + n < RcvWnd PROVE FALSE
  <2> DEFINE I == k.rcv_nxt .. k.rcv_nxt + (n + 1) - 1
  <2>1. I \in SUBSET Sns(k.rcv_buf)
    BY <1>1, <1>6, <1>7 DEF Fits
  <2>2. Fits(k, n + 1)
    <3>1. Len(k.rcv_queue) + (n + 1) <= RcvWnd
      <4> DEFINE len == Len(k.rcv_queue)
      <4>1. len \in Nat /\ len + n < RcvWnd
        BY <1>1, <1>7
      <4> HIDE DEF len
      <4>2. len + (n + 1) <= RcvWnd
        BY <1>1, <1>6, <4>1
      <4> QED
        BY <4>2 DEF len
    <3>2. k.rcv_nxt .. k.rcv_nxt + (n + 1) - 1 \subseteq Sns(k.rcv_buf)
      BY <2>1
    <3> QED
      BY <3>1, <3>2, Zenon DEF Fits
  <2>3. Cardinality(I) = n + 1
    <3> DEFINE lo == k.rcv_nxt
    <3> DEFINE hi == k.rcv_nxt + (n + 1) - 1
    <3>1. lo \in Int /\ hi \in Int /\ ~(lo > hi) /\ hi - lo + 1 = n + 1
      BY <1>1, <1>6
    <3>2. I = lo..hi
      OBVIOUS
    <3> HIDE DEF I, lo, hi
    <3> QED
      BY <3>1, <3>2, FS_Interval
  <2> HIDE DEF I
  <2>4. n + 1 <= c
    BY <1>1, <2>1, <2>3, FS_Subset
  <2>5. n + 1 \in S
    BY <1>1, <1>6, <2>2, <2>4
  <2> QED
    BY <1>4, <1>6, <2>5
<1>8. k.rcv_nxt + n \in Sns(k.rcv_buf) => Len(k.rcv_queue) + n >= RcvWnd
  BY <1>1, <1>6, <1>7
<1> QED
  BY <1>5, <1>6, <1>8

\* Moving n segments keeps the connection as it is.
LEMMA MovedByKeeps ==
  ASSUME NEW k, NEW p, NEW toP, NEW toK, Link(k, p, toP, toK), NEW n \in Nat, Fits(k, n)
  PROVE  /\ Link(MovedBy(k, n), p, toP, toK) /\ Kept(k, MovedBy(k, n), p)
         /\ Len(MovedBy(k, n).rcv_queue) = Len(k.rcv_queue) + n
<1> DEFINE k1 == MovedBy(k, n)
<1> DEFINE M == FirstOf(k, n)
<1> DEFINE r == k.rcv_nxt
<1>1. End(k) /\ End(p) /\ Agree(k, p) /\ Agree(p, k) /\ mode \in ModeType /\ k \in ControlBlock
  BY DEF Link, Direction, End
<1>2. r \in Nat /\ Len(k.rcv_queue) \in Nat /\ k.rcv_queue \in Seq(Bytes) /\ RcvWnd \in Nat /\ p.snd_nxt \in Nat
  BY <1>1, EndTypes, Constants
<1>3. \A m \in r..r + n - 1 : m \in Sns(k.rcv_buf)
  BY DEF Fits
<1>4. M \in Seq(Bytes) /\ Len(M) = n /\ \A i \in 1..n : M[i] = At(k.rcv_buf, r + i - 1).data
  <2>1. ASSUME NEW i \in 1..n PROVE At(k.rcv_buf, r + i - 1).data \in Bytes
    <3>1. r + i - 1 \in r..r + n - 1
      BY <1>2
    <3>2. At(k.rcv_buf, r + i - 1) \in k.rcv_buf
      BY <1>3, <3>1, AtIs
    <3> QED
      BY <1>1, <3>2, EndTypes
  <2>2. M = [i \in 1..n |-> At(k.rcv_buf, r + i - 1).data]
    BY DEF FirstOf
  <2> HIDE DEF M
  <2>3. M \in [1..n -> Bytes]
    BY <2>1, <2>2
  <2> QED
    BY <2>2, <2>3
<1>5. /\ k1 \in ControlBlock
      /\ k1.snd_una = k.snd_una /\ k1.snd_nxt = k.snd_nxt /\ k1.rcv_nxt = r + n
      /\ k1.acklist = k.acklist /\ k1.snd_queue = k.snd_queue /\ k1.snd_buf = k.snd_buf
      /\ k1.rcv_queue = k.rcv_queue \o M /\ k1.rcv_buf = {seg \in k.rcv_buf : seg.sn >= r + n}
  <2> DEFINE q1 == k.rcv_queue \o M
  <2> DEFINE b1 == {seg \in k.rcv_buf : seg.sn >= r + n}
  <2> HIDE DEF M
  <2>1. q1 \in Seq(Bytes) /\ r + n \in Nat
    BY <1>2, <1>4
  <2>2. b1 \in SUBSET RcvSeg
    BY <1>1 DEF ControlBlock
  <2>3. k1 = [k EXCEPT !.rcv_queue = q1, !.rcv_buf = b1, !.rcv_nxt = r + n]
    BY DEF MovedBy, M
  <2> HIDE DEF k1, q1, b1
  <2>4. k1 \in ControlBlock /\ k1.rcv_queue = q1 /\ k1.rcv_buf = b1 /\ k1.rcv_nxt = r + n
    BY <1>1, <2>1, <2>2, <2>3 DEF ControlBlock
  <2>5. /\ k1.snd_una = k.snd_una /\ k1.snd_nxt = k.snd_nxt
        /\ k1.acklist = k.acklist /\ k1.snd_queue = k.snd_queue /\ k1.snd_buf = k.snd_buf
    BY <1>1, <2>3 DEF ControlBlock
  <2> QED
    BY <2>4, <2>5 DEF q1, b1
<1> HIDE DEF k1, M
<1>6. Len(k1.rcv_queue) = Len(k.rcv_queue) + n /\ Len(k1.rcv_queue) <= RcvWnd
  <2>1. Len(k1.rcv_queue) = Len(k.rcv_queue) + n
    BY <1>2, <1>4, <1>5, QueueLen
  <2> QED
    BY <1>1, <1>2, <2>1 DEF Fits, End, RcvInv
<1>7. /\ \A m \in Nat : Got(k, m) => Got(k1, m)
      /\ \A m \in Nat : \A d : m >= r + n /\ Has(k.rcv_buf, m, d) => Has(k1.rcv_buf, m, d)
      /\ \A m, d : Has(k1.rcv_buf, m, d) => Has(k.rcv_buf, m, d)
  <2>1. ASSUME NEW m \in Nat, Got(k, m) PROVE Got(k1, m)
    BY <1>2, <1>5, <2>1 DEF Got
  <2> QED
    BY <1>2, <1>5, <2>1 DEF Has
<1>8. r + n <= p.snd_nxt
  <2>1. CASE n = 0
    BY <1>1, <1>2, <2>1 DEF Agree
  <2>2. CASE n # 0
    <3>1. r + n - 1 \in r..r + n - 1
      BY <1>2, <2>2
    <3>2. PICK y \in k.rcv_buf : y.sn = r + n - 1
      BY <1>3, <3>1, AtIs
    <3>3. y.sn < p.snd_nxt
      BY <1>1, <3>2 DEF Agree
    <3> QED
      BY <1>2, <3>2, <3>3
  <2> QED
    BY <2>1, <2>2
<1>9. End(k1)
  <2>1. RcvInv(k1)
    <3>1. OneEach(k1.rcv_buf)
      BY <1>1, <1>5 DEF End, RcvInv, OneEach
    <3>2. ASSUME NEW y \in k1.rcv_buf PROVE k1.rcv_nxt <= y.sn /\ y.sn < k1.rcv_nxt + RcvWnd
      <4>1. y \in k.rcv_buf /\ y.sn >= r + n /\ y.sn \in Nat /\ y.sn < r + RcvWnd
        BY <1>1, <1>5, EndTypes DEF End, RcvInv
      <4> QED
        BY <1>2, <1>5, <4>1
    <3> QED
      BY <1>6, <3>1, <3>2 DEF RcvInv
  <2>2. SndInv(k1)
    BY <1>1, <1>5 DEF End, SndInv
  <2>3. Acked(k1)
    <3>1. \A i \in DOMAIN k.acklist : k.acklist[i] \in Nat /\ Got(k, k.acklist[i])
      BY <1>1, EndTypes DEF End, Acked
    <3> QED
      BY <1>5, <1>7, <3>1 DEF Acked
  <2> QED
    BY <1>5, <2>1, <2>2, <2>3 DEF End
<1>10. Agree(k1, p)
  BY <1>1, <1>5 DEF Agree
<1>11. Agree(p, k1)
  <2>1. ASSUME NEW m \in Nat, m < p.snd_nxt PROVE (\E x \in p.snd_buf : x.sn = m) \/ Got(k1, m)
    BY <1>1, <1>7, <2>1 DEF Agree
  <2>2. k1.rcv_buf \subseteq k.rcv_buf
    BY <1>5
  <2> QED
    BY <1>1, <1>5, <1>8, <2>1, <2>2 DEF Agree
<1>12. Link(k1, p, toP, toK)
  <2>1. \A x \in toP : PushOk(k1, p, x)
    BY <1>5 DEF Link, Direction, PushOk
  <2>2. ASSUME NEW x \in toP PROVE AckOk(k1, x)
    <3>1. AckOk(k, x) /\ x.sn \in Nat /\ x.una \in Nat
      BY DEF Link, Direction, SegType
    <3> QED
      BY <1>2, <1>5, <1>7, <3>1 DEF AckOk
  <2>3. ASSUME NEW x \in toK PROVE PushOk(p, k1, x) /\ AckOk(p, x)
    <3>1. PushOk(p, k, x) /\ AckOk(p, x) /\ x.sn \in Nat
      BY DEF Link, Direction, SegType
    <3> QED
      BY <1>7, <3>1 DEF PushOk
  <2>4. toP \subseteq SegType /\ toK \subseteq SegType
    BY DEF Link
  <2> QED
    BY <1>1, <1>9, <1>10, <1>11, <2>1, <2>2, <2>3, <2>4 DEF Link, Direction
<1>13. Between(p, k) = M \o Between(p, k1)
  <2> DEFINE B == Between(p, k)
  <2> DEFINE B1 == Between(p, k1)
  <2> DEFINE m == p.snd_nxt - r
  <2>1. B \in Seq(Bytes) /\ Len(B) = m /\ \A i \in 1..m : B[i] = Data(p, k, r + i - 1)
    BY <1>1, BetweenType
  <2>2. B1 \in Seq(Bytes) /\ Len(B1) = m - n /\ \A i \in 1..m - n : B1[i] = Data(p, k1, r + n + i - 1)
    <3>1. p.snd_nxt - k1.rcv_nxt = m - n
      BY <1>2, <1>5
    <3> QED
      BY <1>1, <1>5, <1>9, <1>11, <3>1, BetweenType
  <2>3. m \in Nat /\ m - n \in Nat
    BY <1>2, <1>8
  <2>4. ASSUME NEW i \in 1..m, i <= n PROVE B[i] = M[i]
    <3>1. r + i - 1 \in r..r + n - 1 /\ i \in 1..n
      BY <1>2, <2>3, <2>4
    <3>2. Data(p, k, r + i - 1) = At(k.rcv_buf, r + i - 1).data
      BY <1>3, <3>1 DEF Data
    <3> QED
      BY <1>4, <2>1, <3>1, <3>2
  <2>5. ASSUME NEW i \in 1..m, i > n PROVE B[i] = B1[i - n]
    <3> DEFINE j == r + i - 1
    <3>0. i \in Nat /\ i <= m /\ n < i /\ r \in Nat /\ n \in Nat /\ m \in Nat
      BY <1>2, <2>3, <2>5
    <3>1. j \in Nat /\ r <= j /\ r + n <= j /\ j < p.snd_nxt /\ i - n \in 1..m - n /\ r + n + (i - n) - 1 = j
      <4>1. j \in Nat /\ r <= j /\ r + n <= j /\ j < r + m /\ r + n + (i - n) - 1 = j
        BY <3>0
      <4>2. i - n \in 1..m - n
        BY <3>0
      <4> HIDE DEF j
      <4> QED
        BY <1>2, <4>1, <4>2
    <3> HIDE DEF j
    <3>2. Has(k1.rcv_buf, j, Data(p, k1, j)) \/ Has(p.snd_buf, j, Data(p, k1, j))
      BY <1>1, <1>5, <1>9, <1>11, <3>1, DataHeld
    <3>3. Has(k.rcv_buf, j, Data(p, k1, j)) \/ Has(p.snd_buf, j, Data(p, k1, j))
      BY <1>7, <3>2
    <3>4. Data(p, k, j) = Data(p, k1, j)
      BY <1>1, <3>3, DataIs DEF End, SndInv, RcvInv
    <3>5. B1[i - n] = Data(p, k1, j)
      BY <2>2, <3>1
    <3> QED
      BY <2>1, <3>4, <3>5 DEF j
  <2> HIDE DEF B, B1, m
  <2>6. M \o B1 \in Seq(Bytes) /\ Len(M \o B1) = m /\ \A i \in 1..m : (M \o B1)[i] = IF i <= n THEN M[i] ELSE B1[i - n]
    <3>1. Len(M) + Len(B1) = m
      BY <1>4, <2>2, <2>3
    <3> QED
      BY <1>4, <2>2, <3>1, QueueLen
  <2>7. \A i \in 1..m : B[i] = (M \o B1)[i]
    BY <2>3, <2>4, <2>5, <2>6
  <2>8. B = M \o B1
    BY <2>1, <2>6, <2>7, SeqEqual
  <2> QED
    BY <2>8 DEF B, B1
<1>14. Chain(p, k1) = Chain(p, k)
  <2> DEFINE B1 == Between(p, k1)
  <2> DEFINE q == k.rcv_queue
  <2> DEFINE s == p.snd_queue
  <2>1. B1 \in Seq(Bytes) /\ q \in Seq(Bytes) /\ s \in Seq(Bytes)
    BY <1>1, <1>2, <1>9, <1>11, BetweenType, EndTypes
  <2>2. Chain(p, k) = q \o ((M \o B1) \o s)
    BY <1>13 DEF Chain
  <2>3. Chain(p, k1) = (q \o M) \o (B1 \o s)
    BY <1>5 DEF Chain
  <2> HIDE DEF B1, q, s
  <2>4. (M \o B1) \o s = M \o (B1 \o s) /\ B1 \o s \in Seq(Bytes)
    BY <1>4, <2>1, QueueConcat
  <2>5. (q \o M) \o (B1 \o s) = q \o (M \o (B1 \o s))
    <3> DEFINE rest == B1 \o s
    <3>1. q \in Seq(Bytes) /\ M \in Seq(Bytes) /\ rest \in Seq(Bytes)
      BY <1>4, <2>1, <2>4
    <3> HIDE DEF rest
    <3>2. (q \o M) \o rest = q \o (M \o rest)
      BY <3>1, QueueConcat
    <3> QED
      BY <3>2 DEF rest
  <2> QED
    BY <2>2, <2>3, <2>4, <2>5
<1>15. Chain(k1, p) = Chain(k, p)
  BY <1>5 DEF Chain, Between, Data
<1> QED
  BY <1>6, <1>12, <1>14, <1>15 DEF Kept, k1

\* So does MoveAvailable, and it leaves nothing that could be moved.
LEMMA MoveAvailableKeeps ==
  ASSUME NEW k, NEW p, NEW toP, NEW toK, Link(k, p, toP, toK)
  PROVE  /\ Link(MoveAvailable(k), p, toP, toK) /\ Kept(k, MoveAvailable(k), p)
         /\ Moved(MoveAvailable(k))
         /\ \A m \in Nat : Got(k, m) => Got(MoveAvailable(k), m)
         /\ MoveAvailable(k).snd_buf = k.snd_buf /\ MoveAvailable(k).snd_una = k.snd_una
<1>1. End(k) /\ mode \in ModeType
  BY DEF Link
<1>2. PICK n \in Nat : /\ Fits(k, n) /\ MoveAvailable(k) = MovedBy(k, n)
                       /\ k.rcv_nxt + n \in Sns(k.rcv_buf) => Len(k.rcv_queue) + n >= RcvWnd
  BY <1>1, MoveAvailableIs
<1> DEFINE k1 == MovedBy(k, n)
<1>3. Link(k1, p, toP, toK) /\ Kept(k, k1, p) /\ Len(k1.rcv_queue) = Len(k.rcv_queue) + n
  BY <1>2, MovedByKeeps
<1>4. /\ k1.rcv_nxt = k.rcv_nxt + n /\ k1.rcv_buf = {seg \in k.rcv_buf : seg.sn >= k.rcv_nxt + n}
      /\ k1.snd_buf = k.snd_buf /\ k1.snd_una = k.snd_una
  BY <1>1 DEF MovedBy, End, ControlBlock
<1>5. /\ k.rcv_nxt \in Nat /\ Len(k1.rcv_queue) <= RcvWnd /\ Len(k1.rcv_queue) \in Nat /\ RcvWnd \in Nat
  BY <1>1, <1>3, EndTypes, Constants DEF Link, End, RcvInv
<1> HIDE DEF k1
<1>6. Moved(k1)
  BY <1>2, <1>3, <1>4, <1>5 DEF Moved, Sns
<1>7. ASSUME NEW m \in Nat, Got(k, m) PROVE Got(k1, m)
  BY <1>4, <1>5, <1>7 DEF Got
<1> QED
  BY <1>2, <1>3, <1>4, <1>6, <1>7 DEF k1

------------------------------------------------------------------------------
(* The functions of ikcp_input.                                               *)

\* An end between two functions, and what a function may do to it.
Good(k, p, toP, toK) == Link(k, p, toP, toK) /\ Moved(k) /\ Sent1(k)
Onward(k, k1, p, toP, toK) == Good(k1, p, toP, toK) /\ Kept(k, k1, p)

\* Two changes that keep the connection sound, one after the other.
LEMMA OnwardTwice ==
  ASSUME NEW k, NEW k1, NEW k2, NEW p, NEW toP, NEW toK,
         Onward(k, k1, p, toP, toK), Onward(k1, k2, p, toP, toK)
  PROVE  Onward(k, k2, p, toP, toK)
  BY DEF Onward, Kept

\* A change of nothing that the invariant is about.
LEMMA OtherChange ==
  ASSUME NEW k, NEW p, NEW toP, NEW toK, Good(k, p, toP, toK),
         NEW k1 \in ControlBlock,
         k1.snd_una = k.snd_una, k1.snd_nxt = k.snd_nxt, k1.rcv_nxt = k.rcv_nxt, k1.rcv_buf = k.rcv_buf,
         k1.rcv_queue = k.rcv_queue, k1.snd_queue = k.snd_queue, k1.snd_buf = k.snd_buf,
         k1.acklist = k.acklist \/ k1.acklist = <<>>
  PROVE  Onward(k, k1, p, toP, toK)
<1>1. Link(k, p, toP, toK) /\ End(k)
  BY DEF Good, Link
<1>2. SndInv(k1)
  BY <1>1 DEF End, SndInv
<1>3. Acked(k1)
  BY <1>1 DEF End, Acked, Got
<1>4. /\ \A y \in k1.snd_buf : Has(k.snd_buf, y.sn, y.data)
      /\ \A x \in k.snd_buf : Has(k1.snd_buf, x.sn, x.data)
  BY DEF Has
<1>5. Link(k1, p, toP, toK) /\ Kept(k, k1, p)
  BY <1>1, <1>2, <1>3, <1>4, SndChange
<1>6. Moved(k1) /\ Sent1(k1)
  BY DEF Good, Moved, Sent1
<1> QED
  BY <1>5, <1>6 DEF Onward, Good

\* Segments that the peer has got are forgotten.
LEMMA Forgetting ==
  ASSUME NEW k, NEW p, NEW toP, NEW toK, Good(k, p, toP, toK),
         NEW T \in SUBSET k.snd_buf, \A x \in k.snd_buf : x \notin T => Got(p, x.sn)
  PROVE  Onward(k, [k EXCEPT !.snd_buf = T], p, toP, toK)
<1> DEFINE k1 == [k EXCEPT !.snd_buf = T]
<1>1. Link(k, p, toP, toK) /\ End(k) /\ k \in ControlBlock
  BY DEF Good, Link, End
<1>2. T \in SUBSET SndSeg
  BY <1>1 DEF ControlBlock
<1>3. /\ k1 \in ControlBlock /\ k1.snd_buf = T
      /\ k1.snd_una = k.snd_una /\ k1.snd_nxt = k.snd_nxt /\ k1.rcv_nxt = k.rcv_nxt /\ k1.rcv_buf = k.rcv_buf
      /\ k1.rcv_queue = k.rcv_queue /\ k1.snd_queue = k.snd_queue /\ k1.acklist = k.acklist
  BY <1>1, <1>2 DEF ControlBlock
<1> HIDE DEF k1
<1>4. SndInv(k1)
  BY <1>1, <1>3 DEF End, SndInv, OneEach
<1>5. Acked(k1)
  BY <1>1, <1>3 DEF End, Acked, Got
<1>6. /\ \A y \in k1.snd_buf : Has(k.snd_buf, y.sn, y.data)
      /\ \A x \in k.snd_buf : Has(k1.snd_buf, x.sn, x.data) \/ Got(p, x.sn)
  BY <1>3 DEF Has
<1>7. Link(k1, p, toP, toK) /\ Kept(k, k1, p)
  BY <1>1, <1>3, <1>4, <1>5, <1>6, SndChange
<1>8. Moved(k1) /\ Sent1(k1)
  BY <1>3 DEF Good, Moved, Sent1
<1> QED
  BY <1>7, <1>8 DEF Onward, Good, k1

\* ikcp_shrink_buf: snd_una goes on, and not beyond what is held.
LEMMA ShrinkBufKeeps ==
  ASSUME NEW k, NEW p, NEW toP, NEW toK, Good(k, p, toP, toK)
  PROVE  Onward(k, ShrinkBuf(k), p, toP, toK)
<1> DEFINE k1 == ShrinkBuf(k)
<1> DEFINE una == IF k.snd_buf = {} THEN k.snd_nxt ELSE Min(Sns(k.snd_buf))
<1>1. Link(k, p, toP, toK) /\ End(k) /\ k \in ControlBlock /\ mode \in ModeType
  BY DEF Good, Link, End
<1>2. k.snd_una \in Nat /\ k.snd_nxt \in Nat /\ mode.sndWnd \in Nat
  BY <1>1, EndTypes DEF ModeType, Nats
<1>3. una \in Nat /\ k.snd_una <= una /\ una <= k.snd_nxt /\ \A x \in k.snd_buf : una <= x.sn
  <2>1. CASE k.snd_buf = {}
    BY <1>1, <1>2, <2>1 DEF End, SndInv
  <2>2. CASE k.snd_buf # {}
    <3>1. Sns(k.snd_buf) \in SUBSET Nat /\ Sns(k.snd_buf) # {}
      BY <1>1, <2>2, BufsFinite DEF Sns
    <3>2. Min(Sns(k.snd_buf)) \in Sns(k.snd_buf) /\ \A y \in Sns(k.snd_buf) : Min(Sns(k.snd_buf)) <= y
      BY <3>1, MinOf
    <3>3. una = Min(Sns(k.snd_buf))
      BY <2>2
    <3> HIDE DEF una
    <3>4. una \in Nat /\ \A x \in k.snd_buf : una <= x.sn
      BY <3>1, <3>2, <3>3 DEF Sns
    <3>5. PICK x \in k.snd_buf : x.sn = una
      BY <3>2, <3>3 DEF Sns
    <3>6. k.snd_una <= x.sn /\ x.sn < k.snd_nxt
      BY <1>1 DEF End, SndInv
    <3> QED
      BY <1>2, <3>4, <3>5, <3>6
  <2> QED
    BY <2>1, <2>2
<1>4. k1 = [k EXCEPT !.snd_una = una]
  BY DEF ShrinkBuf
<1> HIDE DEF k1, una
<1>5. /\ k1 \in ControlBlock /\ k1.snd_buf = k.snd_buf
      /\ k1.snd_una = una /\ k1.snd_nxt = k.snd_nxt /\ k1.rcv_nxt = k.rcv_nxt /\ k1.rcv_buf = k.rcv_buf
      /\ k1.rcv_queue = k.rcv_queue /\ k1.snd_queue = k.snd_queue /\ k1.acklist = k.acklist
  BY <1>1, <1>3, <1>4 DEF ControlBlock
<1>6. SndInv(k1)
  BY <1>1, <1>2, <1>3, <1>5 DEF End, SndInv
<1>7. Acked(k1)
  BY <1>1, <1>5 DEF End, Acked, Got
<1>8. /\ \A y \in k1.snd_buf : Has(k.snd_buf, y.sn, y.data)
      /\ \A x \in k.snd_buf : Has(k1.snd_buf, x.sn, x.data)
  BY <1>5 DEF Has
<1>9. Link(k1, p, toP, toK) /\ Kept(k, k1, p)
  BY <1>1, <1>5, <1>6, <1>7, <1>8, SndChange
<1>10. Moved(k1) /\ Sent1(k1)
  BY <1>5 DEF Good, Moved, Sent1
<1> QED
  BY <1>9, <1>10 DEF Onward, Good, k1

\* ikcp_parse_data, with ikcp_ack_push: what comes in is acknowledged, and kept.
LEMMA ParseDataKeeps ==
  ASSUME NEW k, NEW p, NEW toP, NEW toK, Good(k, p, toP, toK),
         NEW seg \in toK, seg.cmd = "push", seg.sn < k.rcv_nxt + RcvWnd
  PROVE  Onward(k, ParseData(AckPush(k, seg.sn), seg), p, toP, toK)
<1> DEFINE k1 == AckPush(k, seg.sn)
<1>1. Link(k, p, toP, toK) /\ End(k) /\ k \in ControlBlock /\ mode \in ModeType /\ seg \in SegType
  BY DEF Good, Link, End
<1>2. k.rcv_nxt \in Nat /\ seg.sn \in Nat /\ k.acklist \in Seq(Nat) /\ RcvWnd \in Nat
  BY <1>1, EndTypes, Constants DEF SegType
<1>3. /\ k1 \in ControlBlock /\ k1.acklist = Append(k.acklist, seg.sn) /\ k1.snd_buf = k.snd_buf
      /\ k1.snd_una = k.snd_una /\ k1.snd_nxt = k.snd_nxt /\ k1.rcv_nxt = k.rcv_nxt /\ k1.rcv_buf = k.rcv_buf
      /\ k1.rcv_queue = k.rcv_queue /\ k1.snd_queue = k.snd_queue
  <2> DEFINE l == Append(k.acklist, seg.sn)
  <2>1. l \in Seq(Nat) /\ k1 = [k EXCEPT !.acklist = l]
    BY <1>2 DEF AckPush
  <2> HIDE DEF k1, l
  <2> QED
    BY <1>1, <2>1 DEF ControlBlock, l
<1> HIDE DEF k1
<1>4. \A i \in DOMAIN k1.acklist : k1.acklist[i] = seg.sn \/ (i \in DOMAIN k.acklist /\ k1.acklist[i] = k.acklist[i])
  BY <1>2, <1>3
<1>5. CASE seg.sn < k.rcv_nxt
  <2>1. ParseData(k1, seg) = k1
    BY <1>3, <1>5 DEF ParseData
  <2>2. Acked(k1)
    BY <1>1, <1>3, <1>4, <1>5 DEF End, Acked, Got
  <2>3. SndInv(k1)
    BY <1>1, <1>3 DEF End, SndInv
  <2>4. /\ \A y \in k1.snd_buf : Has(k.snd_buf, y.sn, y.data)
        /\ \A x \in k.snd_buf : Has(k1.snd_buf, x.sn, x.data)
    BY <1>3 DEF Has
  <2>5. Link(k1, p, toP, toK) /\ Kept(k, k1, p)
    BY <1>1, <1>3, <2>2, <2>3, <2>4, SndChange
  <2>6. Moved(k1) /\ Sent1(k1)
    BY <1>3 DEF Good, Moved, Sent1
  <2> QED
    BY <2>1, <2>5, <2>6 DEF Onward, Good, k1
<1>6. CASE ~(seg.sn < k.rcv_nxt)
  <2> DEFINE k2 == Inserted(k, seg)
  <2> DEFINE k3 == Inserted(k1, seg)
  <2>1. PushOk(p, k, seg)
    BY DEF Good, Link, Direction
  <2>2. Link(k2, p, toP, toK) /\ Kept(k, k2, p) /\ Got(k2, seg.sn)
    BY <1>1, <1>2, <1>6, <2>1, Insert
  <2>3. ParseData(k1, seg) = MoveAvailable(k3)
    BY <1>2, <1>3, <1>6 DEF ParseData, Inserted
  <2>4. /\ k3 \in ControlBlock /\ k3.acklist = k1.acklist /\ k3.snd_buf = k2.snd_buf
        /\ k3.snd_una = k2.snd_una /\ k3.snd_nxt = k2.snd_nxt /\ k3.rcv_nxt = k2.rcv_nxt /\ k3.rcv_buf = k2.rcv_buf
        /\ k3.rcv_queue = k2.rcv_queue /\ k3.snd_queue = k2.snd_queue /\ k2.acklist = k.acklist
        /\ k2.snd_buf = k.snd_buf
    <3>1. CASE seg.sn \in Sns(k.rcv_buf)
      BY <1>3, <3>1 DEF Inserted
    <3>2. CASE seg.sn \notin Sns(k.rcv_buf)
      <4> DEFINE b == k.rcv_buf \cup {[sn |-> seg.sn, data |-> seg.data]}
      <4>1. b \in SUBSET RcvSeg
        BY <1>1, <1>2 DEF ControlBlock, RcvSeg, SegType
      <4>2. k2 = [k EXCEPT !.rcv_buf = b] /\ k3 = [k1 EXCEPT !.rcv_buf = b]
        BY <1>3, <3>2 DEF Inserted
      <4> HIDE DEF b, k2, k3
      <4> QED
        BY <1>1, <1>3, <4>1, <4>2 DEF ControlBlock
    <3> QED
      BY <3>1, <3>2
  <2> HIDE DEF k2, k3
  <2>5. Acked(k3)
    <3>1. Acked(k2)
      BY <2>2 DEF Link, End
    <3>2. \A n : Got(k2, n) => Got(k3, n)
      BY <2>4 DEF Got
    <3> QED
      BY <1>4, <2>2, <2>4, <3>1, <3>2 DEF Acked
  <2>6. SndInv(k3)
    BY <2>2, <2>4 DEF Link, End, SndInv
  <2>7. /\ \A y \in k3.snd_buf : Has(k2.snd_buf, y.sn, y.data)
        /\ \A x \in k2.snd_buf : Has(k3.snd_buf, x.sn, x.data)
    BY <2>4 DEF Has
  <2>8. Link(k3, p, toP, toK) /\ Kept(k2, k3, p)
    BY <2>2, <2>4, <2>5, <2>6, <2>7, SndChange
  <2>9. /\ Link(MoveAvailable(k3), p, toP, toK) /\ Kept(k3, MoveAvailable(k3), p)
        /\ Moved(MoveAvailable(k3)) /\ MoveAvailable(k3).snd_buf = k3.snd_buf
    BY <2>8, MoveAvailableKeeps
  <2>10. Sent1(MoveAvailable(k3))
    BY <2>4, <2>9 DEF Good, Sent1
  <2>11. Kept(k, MoveAvailable(k3), p)
    BY <2>2, <2>8, <2>9 DEF Kept
  <2> QED
    BY <2>3, <2>9, <2>10, <2>11 DEF Onward, Good, k1
<1> QED
  BY <1>5, <1>6

\* The segments of snd_buf change in what is not their number or data.
LEMMA Rewriting ==
  ASSUME NEW k, NEW p, NEW toP, NEW toK, Link(k, p, toP, toK),
         NEW k1 \in ControlBlock,
         k1.snd_una = k.snd_una, k1.snd_nxt = k.snd_nxt, k1.rcv_nxt = k.rcv_nxt, k1.rcv_buf = k.rcv_buf,
         k1.rcv_queue = k.rcv_queue, k1.snd_queue = k.snd_queue,
         k1.acklist = k.acklist \/ k1.acklist = <<>>,
         NEW f, k1.snd_buf = {f[x] : x \in k.snd_buf},
         \A x \in k.snd_buf : f[x].sn = x.sn /\ f[x].data = x.data
  PROVE  Link(k1, p, toP, toK) /\ Kept(k, k1, p)
<1>1. End(k)
  BY DEF Link
<1>2. OneEach(k1.snd_buf)
  BY <1>1 DEF End, SndInv, OneEach
<1>3. SndInv(k1)
  BY <1>1, <1>2 DEF End, SndInv
<1>4. Acked(k1)
  BY <1>1 DEF End, Acked, Got
<1>5. /\ \A y \in k1.snd_buf : Has(k.snd_buf, y.sn, y.data)
      /\ \A x \in k.snd_buf : Has(k1.snd_buf, x.sn, x.data)
  BY DEF Has
<1> QED
  BY <1>3, <1>4, <1>5, SndChange

\* ikcp_parse_fastack.
LEMMA ParseFastackKeeps ==
  ASSUME NEW k, NEW p, NEW toP, NEW toK, Good(k, p, toP, toK), NEW ack
  PROVE  Onward(k, ParseFastack(k, ack), p, toP, toK)
<1> DEFINE k1 == ParseFastack(k, ack)
<1>1. Link(k, p, toP, toK) /\ k \in ControlBlock /\ mode \in ModeType
  BY DEF Good, Link, End
<1>2. CASE ack < k.snd_una \/ ack >= k.snd_nxt
  <2>1. k1 = k
    BY <1>2 DEF ParseFastack
  <2> QED
    BY <2>1 DEF Onward, Kept
<1>3. CASE ~(ack < k.snd_una \/ ack >= k.snd_nxt)
  <2> DEFINE f == [x \in k.snd_buf |-> IF x.sn < ack THEN [x EXCEPT !.fastack = Least(@ + 1, mode.resend)] ELSE x]
  <2> DEFINE T == {f[x] : x \in k.snd_buf}
  <2>1. k1 = [k EXCEPT !.snd_buf = T]
    BY <1>3 DEF ParseFastack
  <2>2. ASSUME NEW x \in k.snd_buf
        PROVE  f[x] \in SndSeg /\ f[x].sn = x.sn /\ f[x].data = x.data /\ f[x].xmit = x.xmit
    <3>1. x \in SndSeg /\ mode.resend \in Nat
      BY <1>1 DEF ControlBlock, ModeType
    <3>2. Least(x.fastack + 1, mode.resend) \in 0..mode.resend
      BY <3>1 DEF SndSeg, Least
    <3>3. CASE x.sn < ack
      <4>1. f[x] = [x EXCEPT !.fastack = Least(x.fastack + 1, mode.resend)]
        BY <3>3
      <4> HIDE DEF f
      <4> QED
        BY <3>1, <3>2, <4>1 DEF SndSeg
    <3>4. CASE ~(x.sn < ack)
      BY <3>1, <3>4
    <3> QED
      BY <3>3, <3>4
  <2> HIDE DEF f, k1
  <2>3. T \in SUBSET SndSeg
    BY <2>2
  <2> HIDE DEF T
  <2>4. /\ k1 \in ControlBlock /\ k1.snd_buf = T
        /\ k1.snd_una = k.snd_una /\ k1.snd_nxt = k.snd_nxt /\ k1.rcv_nxt = k.rcv_nxt /\ k1.rcv_buf = k.rcv_buf
        /\ k1.rcv_queue = k.rcv_queue /\ k1.snd_queue = k.snd_queue /\ k1.acklist = k.acklist
    BY <1>1, <2>1, <2>3 DEF ControlBlock
  <2>5. Link(k1, p, toP, toK) /\ Kept(k, k1, p)
    BY <1>1, <2>2, <2>4, Rewriting DEF T
  <2>6. Moved(k1) /\ Sent1(k1)
    BY <2>2, <2>4 DEF Good, Moved, Sent1, T
  <2> QED
    BY <2>5, <2>6 DEF Onward, Good, k1
<1> QED
  BY <1>2, <1>3

\* The congestion window.
LEMMA GrowCwndKeeps ==
  ASSUME NEW k, NEW p, NEW toP, NEW toK, Good(k, p, toP, toK), NEW k1 \in GrowCwnd(k)
  PROVE  Onward(k, k1, p, toP, toK)
<1>1. k \in ControlBlock
  BY DEF Good, Link, End
<1>2. CASE k1 = k
  BY <1>2 DEF Onward, Kept
<1>3. CASE k1 # k
  <2>1. PICK d \in {1} \cup 0..2 : k1 = [k EXCEPT !.cwnd = Least(@ + d, k.rmt_wnd)]
    BY <1>3 DEF GrowCwnd
  <2> DEFINE w == Least(k.cwnd + d, k.rmt_wnd)
  <2>2. w \in Nat /\ k1 = [k EXCEPT !.cwnd = w]
    <3>1. k.cwnd \in Nat /\ k.rmt_wnd \in Nat
      BY Constants, EndTypes DEF Good, Link
    <3>3. d \in Nat
      BY <2>1
    <3>2. w \in Nat
      BY <3>1, <3>3 DEF Least
    <3> QED
      BY <2>1, <3>2
  <2> HIDE DEF w
  <2>3. /\ k1 \in ControlBlock /\ k1.snd_buf = k.snd_buf
        /\ k1.snd_una = k.snd_una /\ k1.snd_nxt = k.snd_nxt /\ k1.rcv_nxt = k.rcv_nxt /\ k1.rcv_buf = k.rcv_buf
        /\ k1.rcv_queue = k.rcv_queue /\ k1.snd_queue = k.snd_queue /\ k1.acklist = k.acklist
    BY <1>1, <2>2 DEF ControlBlock
  <2> QED
    BY <2>3, OtherChange
<1> QED
  BY <1>2, <1>3

\* One turn of the loop of ikcp_input.
LEMMA InputSegmentKeeps ==
  ASSUME NEW k, NEW p, NEW toP, NEW toK, Good(k, p, toP, toK), NEW seg \in toK
  PROVE  Onward(k, InputSegment(k, seg), p, toP, toK)
<1> DEFINE ka == [k EXCEPT !.rmt_wnd = seg.wnd]
<1> DEFINE kb == ParseUna(ka, seg.una)
<1> DEFINE k1 == ShrinkBuf(kb)
<1>1. Link(k, p, toP, toK) /\ k \in ControlBlock /\ mode \in ModeType /\ seg \in SegType /\ AckOk(p, seg) /\ End(p)
  BY DEF Good, Link, End, Direction
<1>2. Onward(k, ka, p, toP, toK)
  <2>1. /\ ka \in ControlBlock /\ ka.snd_buf = k.snd_buf
        /\ ka.snd_una = k.snd_una /\ ka.snd_nxt = k.snd_nxt /\ ka.rcv_nxt = k.rcv_nxt /\ ka.rcv_buf = k.rcv_buf
        /\ ka.rcv_queue = k.rcv_queue /\ ka.snd_queue = k.snd_queue /\ ka.acklist = k.acklist
    BY <1>1 DEF ControlBlock, SegType
  <2> HIDE DEF ka
  <2> QED
    BY <2>1, OtherChange
<1> HIDE DEF ka
<1>3. Onward(ka, kb, p, toP, toK)
  <2> DEFINE T == {x \in ka.snd_buf : x.sn >= seg.una}
  <2>1. kb = [ka EXCEPT !.snd_buf = T]
    BY DEF ParseUna
  <2>2. Good(ka, p, toP, toK) /\ ka.snd_buf \subseteq SndSeg
    BY <1>2 DEF Onward, Good, Link, End, ControlBlock
  <2>3. ASSUME NEW x \in ka.snd_buf, x \notin T PROVE Got(p, x.sn)
    <3>1. x.sn \in Nat /\ seg.una \in Nat /\ p.rcv_nxt \in Nat /\ seg.una <= p.rcv_nxt
      BY <1>1, <2>2, EndTypes DEF AckOk, SndSeg, SegType
    <3> QED
      BY <2>3, <3>1 DEF Got
  <2> HIDE DEF T, kb
  <2>4. T \in SUBSET ka.snd_buf
    BY DEF T
  <2> QED
    BY <2>1, <2>2, <2>3, <2>4, Forgetting
<1> HIDE DEF kb
<1>4. Onward(kb, k1, p, toP, toK)
  BY <1>3, ShrinkBufKeeps DEF Onward
<1>5. Onward(k, k1, p, toP, toK)
  BY <1>2, <1>3, <1>4, OnwardTwice
<1>6. Good(k1, p, toP, toK) /\ k1 \in ControlBlock
  BY <1>5 DEF Onward, Good, Link, End
<1> HIDE DEF k1
<1>7. Onward(k1, InputSegment(k, seg), p, toP, toK)
  <2>1. CASE seg.cmd = "ack"
    <3>1. InputSegment(k, seg) = IF seg.sn < k1.snd_una \/ seg.sn >= k1.snd_nxt THEN k1 ELSE ShrinkBuf(ParseAck(k1, seg.sn))
      BY <2>1 DEF InputSegment, k1, kb, ka
    <3>2. Onward(k1, k1, p, toP, toK)
      BY <1>6 DEF Onward, Kept
    <3> DEFINE T == {x \in k1.snd_buf : x.sn # seg.sn}
    <3>3. ParseAck(k1, seg.sn) = [k1 EXCEPT !.snd_buf = T] /\ T \in SUBSET k1.snd_buf
      BY DEF ParseAck
    <3>4. \A x \in k1.snd_buf : x \notin T => Got(p, x.sn)
      BY <1>1, <2>1 DEF AckOk
    <3> HIDE DEF T
    <3>5. Onward(k1, ParseAck(k1, seg.sn), p, toP, toK)
      BY <1>6, <3>3, <3>4, Forgetting
    <3>6. Onward(ParseAck(k1, seg.sn), ShrinkBuf(ParseAck(k1, seg.sn)), p, toP, toK)
      BY <3>5, ShrinkBufKeeps DEF Onward
    <3>7. Onward(k1, ShrinkBuf(ParseAck(k1, seg.sn)), p, toP, toK)
      BY <3>5, <3>6, OnwardTwice
    <3> QED
      BY <3>1, <3>2, <3>7
  <2>2. CASE seg.cmd = "push"
    <3>1. InputSegment(k, seg) = IF seg.sn < k1.rcv_nxt + RcvWnd THEN ParseData(AckPush(k1, seg.sn), seg) ELSE k1
      BY <2>2 DEF InputSegment, k1, kb, ka
    <3>2. Onward(k1, k1, p, toP, toK)
      BY <1>6 DEF Onward, Kept
    <3>3. seg.sn < k1.rcv_nxt + RcvWnd => Onward(k1, ParseData(AckPush(k1, seg.sn), seg), p, toP, toK)
      BY <1>6, <2>2, ParseDataKeeps
    <3> QED
      BY <3>1, <3>2, <3>3
  <2>3. CASE seg.cmd = "wask"
    <3> DEFINE b == k1.probe \cup {"tell"}
    <3>1. InputSegment(k, seg) = [k1 EXCEPT !.probe = b]
      BY <2>3 DEF InputSegment, k1, kb, ka
    <3> DEFINE k2 == [k1 EXCEPT !.probe = b]
    <3>2. b \in SUBSET {"ask", "tell"}
      BY <1>6 DEF ControlBlock
    <3> HIDE DEF b
    <3>3. /\ k2 \in ControlBlock /\ k2.snd_buf = k1.snd_buf
          /\ k2.snd_una = k1.snd_una /\ k2.snd_nxt = k1.snd_nxt /\ k2.rcv_nxt = k1.rcv_nxt /\ k2.rcv_buf = k1.rcv_buf
          /\ k2.rcv_queue = k1.rcv_queue /\ k2.snd_queue = k1.snd_queue /\ k2.acklist = k1.acklist
      BY <1>6, <3>2 DEF ControlBlock
    <3> HIDE DEF k2
    <3>4. Onward(k1, k2, p, toP, toK)
      BY <1>6, <3>3, OtherChange
    <3> QED
      BY <3>1, <3>4 DEF k2
  <2>4. CASE seg.cmd = "wins"
    <3>1. InputSegment(k, seg) = k1
      BY <2>4 DEF InputSegment, k1, kb, ka
    <3> QED
      BY <1>6, <3>1 DEF Onward, Kept
  <2> QED
    BY <1>1, <2>1, <2>2, <2>3, <2>4 DEF SegType
<1> QED
  BY <1>5, <1>7, OnwardTwice

\* The loop.
LEMMA InputSegmentsKeeps ==
  ASSUME NEW k, NEW p, NEW toP, NEW toK, Good(k, p, toP, toK), NEW segs \in Seq(toK)
  PROVE  Onward(k, InputSegments(k, segs), p, toP, toK)
<1> DEFINE n == Len(segs)
<1>1. n \in Nat
  OBVIOUS
<1>2. PICK g : Inputs(k, segs, n, g) /\ InputSegments(k, segs) = g[n]
  BY <1>1, InputSegmentsIsInputs, Zenon
<1> DEFINE T == {i \in Nat : i \in 0..n => Onward(k, g[i], p, toP, toK)}
<1>3. 0 \in T
  <2>1. 0 \in 0..n
    BY <1>1
  <2>2. g[0] = k
    BY <1>2, <2>1, InputsAt
  <2>3. Onward(k, k, p, toP, toK)
    BY DEF Onward, Kept
  <2> QED
    BY <2>2, <2>3
<1>4. ASSUME NEW i \in Nat, i \in T PROVE i + 1 \in T
  <2>1. SUFFICES ASSUME i + 1 \in 0..n PROVE Onward(k, g[i + 1], p, toP, toK)
    OBVIOUS
  <2>2. i \in 0..n /\ i + 1 # 0 /\ i + 1 - 1 = i /\ i + 1 \in 1..n
    BY <1>1, <2>1
  <2> HIDE DEF n
  <2>3. g[i + 1] = InputSegment(g[i], segs[i + 1])
    BY <1>2, <2>1, <2>2, InputsAt
  <2>4. segs[i + 1] \in toK
    BY <2>2 DEF n
  <2>5. Onward(k, g[i], p, toP, toK)
    BY <1>4, <2>2
  <2>6. Onward(g[i], InputSegment(g[i], segs[i + 1]), p, toP, toK)
    BY <2>4, <2>5, InputSegmentKeeps DEF Onward
  <2>7. Onward(k, InputSegment(g[i], segs[i + 1]), p, toP, toK)
    BY <2>5, <2>6, OnwardTwice
  <2> QED
    BY <2>3, <2>7
<1> HIDE DEF T
<1>5. \A i \in Nat : i \in T
  BY <1>3, <1>4, SetInduction
<1>6. n \in 0..n
  BY <1>1
<1> QED
  BY <1>1, <1>2, <1>5, <1>6 DEF T

\* What recvFrom leaves of a datagram are segments of it.
LEMMA WholeSegmentsIs ==
  ASSUME NEW S \in SUBSET SegType, NEW d \in Seq(S)
  PROVE  SubSeq(d, 1, WholeSegments(d)) \in Seq(S)
<1> DEFINE W == {n \in 0..Len(d) : SizeOf(SubSeq(d, 1, n)) <= RecvRoom}
<1>1. Len(d) \in Nat /\ RecvRoom \in Nat
  BY Constants
<1>2. 0 \in W
  <2>1. SubSeq(d, 1, 0) = <<>>
    OBVIOUS
  <2>2. SizeOf(SubSeq(d, 1, 0)) = 0
    BY <2>1, SizeOfEmpty, Zenon
  <2> QED
    BY <1>1, <2>2
<1>3. W \in SUBSET (0..Len(d)) /\ IsFiniteSet(0..Len(d))
  BY <1>1, FS_Interval
<1> HIDE DEF W
<1>4. IsFiniteSet(W) /\ W \in SUBSET Nat /\ W # {}
  <2>1. IsFiniteSet(W)
    BY <1>3, FS_Subset
  <2> QED
    BY <1>1, <1>2, <1>3, <2>1
<1>5. Max(W) \in W
  BY <1>4, MaxOf
<1>6. WholeSegments(d) = Max(W)
  BY DEF WholeSegments, W
<1>7. WholeSegments(d) \in 0..Len(d)
  BY <1>3, <1>5, <1>6
<1> QED
  BY <1>7

\* ikcp_input.
LEMMA InputKeeps ==
  ASSUME NEW k, NEW p, NEW toP, NEW toK, Good(k, p, toP, toK), NEW d \in Seq(toK), NEW k2 \in Input(k, d)
  PROVE  Onward(k, k2, p, toP, toK)
<1> DEFINE segs == SubSeq(d, 1, WholeSegments(d))
<1> DEFINE k1 == InputSegments(k, segs)
<1> DEFINE acks == {segs[i].sn : i \in {j \in DOMAIN segs : segs[j].cmd = "ack"}}
<1> DEFINE ke == IF acks = {} THEN k1 ELSE ParseFastack(k1, Max(acks))
<1>1. toK \in SUBSET SegType
  BY DEF Good, Link
<1>2. segs \in Seq(toK)
  BY <1>1, WholeSegmentsIs
<1> HIDE DEF segs
<1>3. Onward(k, k1, p, toP, toK)
  BY <1>2, InputSegmentsKeeps
<1>4. Input(k, d) = IF CutInData(d) THEN {k1} ELSE IF k1.snd_una > k.snd_una THEN GrowCwnd(ke) ELSE {ke}
  BY DEF Input, segs
<1> HIDE DEF k1, acks
<1>5. Onward(k, ke, p, toP, toK)
  <2>1. Onward(k1, ParseFastack(k1, Max(acks)), p, toP, toK)
    BY <1>3, ParseFastackKeeps DEF Onward
  <2> QED
    BY <1>3, <2>1, OnwardTwice
<1> HIDE DEF ke
<1>6. CASE k2 \in {k1, ke}
  BY <1>3, <1>5, <1>6
<1>7. CASE k2 \in GrowCwnd(ke)
  <2>1. Onward(ke, k2, p, toP, toK)
    BY <1>5, <1>7, GrowCwndKeeps DEF Onward
  <2> QED
    BY <1>5, <2>1, OnwardTwice
<1> QED
  BY <1>4, <1>6, <1>7

------------------------------------------------------------------------------
(* ikcp_flush and ikcp_update.                                                *)

\* The window of a flush.
LEMMA WindowIs ==
  ASSUME NEW k, End(k), mode \in ModeType
  PROVE  Window(k) \in Nat /\ Window(k) <= mode.sndWnd
<1>1. k.rmt_wnd \in Nat /\ k.cwnd \in Nat /\ mode.sndWnd \in Nat
  BY EndTypes, Constants DEF ModeType, Nats
<1> QED
  BY <1>1 DEF Window, Least

\* How many segments go into snd_buf, and which.
Going(k) == Most(Least(Len(k.snd_queue), k.snd_una + Window(k) - k.snd_nxt), 0)
NewSegs(k, n) ==
  {[sn |-> k.snd_nxt + i - 1, data |-> k.snd_queue[i], fastack |-> 0, xmit |-> 0] : i \in 1..n}

\* No more segments go than wait and than the window has room for.
LEMMA GoingIs ==
  ASSUME NEW k, End(k), mode \in ModeType
  PROVE  /\ Going(k) \in Nat /\ Going(k) <= Len(k.snd_queue)
         /\ k.snd_nxt + Going(k) - k.snd_una <= mode.sndWnd
<1>1. k.snd_una \in Nat /\ k.snd_nxt \in Nat /\ Len(k.snd_queue) \in Nat /\ k.snd_nxt - k.snd_una <= mode.sndWnd
  BY EndTypes DEF End, SndInv
<1>2. Window(k) \in Nat /\ Window(k) <= mode.sndWnd /\ mode.sndWnd \in Nat
  BY WindowIs DEF ModeType, Nats
<1> DEFINE w == Window(k)
<1>3. Going(k) = Most(Least(Len(k.snd_queue), k.snd_una + w - k.snd_nxt), 0)
  BY DEF Going
<1> HIDE DEF w
<1>4. w \in Nat /\ w <= mode.sndWnd /\ mode.sndWnd \in Nat
  BY <1>2 DEF w
<1> QED
  BY <1>1, <1>3, <1>4 DEF Most, Least

\* What ikcp_flush changes when it moves segments from snd_queue to snd_buf.
LEMMA MoveToBufIs ==
  ASSUME NEW k, End(k), mode \in ModeType
  PROVE  LET k1 == MoveToBuf(k)
             n == Going(k)
         IN /\ k1 \in ControlBlock
            /\ k1.snd_una = k.snd_una /\ k1.snd_nxt = k.snd_nxt + n /\ k1.rcv_nxt = k.rcv_nxt
            /\ k1.rcv_buf = k.rcv_buf /\ k1.rcv_queue = k.rcv_queue /\ k1.acklist = k.acklist
            /\ k1.snd_buf = k.snd_buf \cup NewSegs(k, n)
            /\ k1.snd_queue = SubSeq(k.snd_queue, n + 1, Len(k.snd_queue))
            /\ k1.rmt_wnd = k.rmt_wnd /\ k1.cwnd = k.cwnd
<1> DEFINE k1 == MoveToBuf(k)
<1> DEFINE n == Going(k)
<1> DEFINE b == k.snd_buf \cup NewSegs(k, n)
<1> DEFINE q == SubSeq(k.snd_queue, n + 1, Len(k.snd_queue))
<1>1. n \in Nat /\ n <= Len(k.snd_queue) /\ k.snd_nxt \in Nat /\ k.snd_queue \in Seq(Chunk) /\ k \in ControlBlock
  BY GoingIs, EndTypes DEF End
<1>2. k1 = [k EXCEPT !.snd_buf = b, !.snd_queue = q, !.snd_nxt = k.snd_nxt + n]
  BY DEF MoveToBuf, Going, NewSegs
<1> HIDE DEF n
<1>3. b \in SUBSET SndSeg
  <2>1. mode.resend \in Nat /\ FastLimit \in Nat
    BY Constants DEF ModeType
  <2>2. ASSUME NEW i \in 1..n
        PROVE  [sn |-> k.snd_nxt + i - 1, data |-> k.snd_queue[i], fastack |-> 0, xmit |-> 0] \in SndSeg
    <3>1. k.snd_nxt + i - 1 \in Nat /\ k.snd_queue[i] \in Chunk
      BY <1>1
    <3> QED
      BY <2>1, <3>1 DEF SndSeg
  <2>3. NewSegs(k, n) \in SUBSET SndSeg
    BY <2>2 DEF NewSegs
  <2> QED
    BY <1>1, <2>3 DEF ControlBlock
<1>4. q \in Seq(Chunk) /\ k.snd_nxt + n \in Nat
  BY <1>1
<1> HIDE DEF b, q, k1
<1>5. k1 \in ControlBlock /\ k1.snd_buf = b /\ k1.snd_queue = q /\ k1.snd_nxt = k.snd_nxt + n
  BY <1>1, <1>2, <1>3, <1>4 DEF ControlBlock
<1>6. /\ k1.snd_una = k.snd_una /\ k1.rcv_nxt = k.rcv_nxt /\ k1.rcv_buf = k.rcv_buf /\ k1.rcv_queue = k.rcv_queue
      /\ k1.acklist = k.acklist /\ k1.rmt_wnd = k.rmt_wnd /\ k1.cwnd = k.cwnd
  BY <1>1, <1>2 DEF ControlBlock
<1> QED
  BY <1>5, <1>6 DEF k1, n, b, q

\* Two parts of a queue.
LEMMA QueueParts ==
  ASSUME NEW S, NEW q \in Seq(S), NEW n \in Nat, n <= Len(q)
  PROVE  /\ SubSeq(q, 1, n) \o SubSeq(q, n + 1, Len(q)) = SubSeq(q, 1, Len(q))
         /\ SubSeq(q, 1, Len(q)) = q
<1>1. 1 \in 1..Len(q) + 1 /\ n \in 0..Len(q) /\ Len(q) \in n..Len(q)
  OBVIOUS
<1> DEFINE e == Len(q)
<1>2. q \in Seq(S) /\ 1 \in 1..Len(q) + 1 /\ n \in 1 - 1..Len(q) /\ e \in n..Len(q)
  BY <1>1
<1> HIDE DEF e
<1>3. SubSeq(q, 1, n) \o SubSeq(q, n + 1, e) = SubSeq(q, 1, e)
  BY <1>2, ConcatAdjacentSubSeq
<1> QED
  BY <1>3, SubSeqFull DEF e

\* The segments that go into snd_buf follow those that have been sent.
LEMMA MoveToBufKeeps ==
  ASSUME NEW k, NEW p, NEW toP, NEW toK, Link(k, p, toP, toK)
  PROVE  Link(MoveToBuf(k), p, toP, toK) /\ Kept(k, MoveToBuf(k), p)
<1> DEFINE k1 == MoveToBuf(k)
<1> DEFINE n == Going(k)
<1> DEFINE sq == k.snd_queue
<1> DEFINE s == k.snd_nxt
<1>1. End(k) /\ End(p) /\ Agree(k, p) /\ Agree(p, k) /\ mode \in ModeType
  BY DEF Link, Direction
<1>2. /\ n \in Nat /\ n <= Len(sq) /\ s + n - k.snd_una <= mode.sndWnd
      /\ s \in Nat /\ k.snd_una \in Nat /\ k.snd_una <= s /\ p.rcv_nxt \in Nat
      /\ sq \in Seq(Bytes) /\ Len(sq) \in Nat
  BY <1>1, GoingIs, EndTypes DEF End, SndInv
<1>3. /\ k1 \in ControlBlock
      /\ k1.snd_una = k.snd_una /\ k1.snd_nxt = s + n /\ k1.rcv_nxt = k.rcv_nxt
      /\ k1.rcv_buf = k.rcv_buf /\ k1.rcv_queue = k.rcv_queue /\ k1.acklist = k.acklist
      /\ k1.snd_buf = k.snd_buf \cup NewSegs(k, n) /\ k1.snd_queue = SubSeq(sq, n + 1, Len(sq))
  BY <1>1, MoveToBufIs
<1> HIDE DEF k1, n
<1>4. /\ \A x \in NewSegs(k, n) : \E i \in 1..n : x.sn = s + i - 1 /\ x.data = sq[i] /\ x.fastack = 0 /\ x.xmit = 0
      /\ \A i \in 1..n : \E x \in NewSegs(k, n) : x.sn = s + i - 1 /\ x.data = sq[i]
      /\ \A x, y \in NewSegs(k, n) : x.sn = y.sn => x = y
  <2>1. ASSUME NEW x \in NewSegs(k, n), NEW y \in NewSegs(k, n), x.sn = y.sn PROVE x = y
    <3>1. PICK i \in 1..n : x = [sn |-> s + i - 1, data |-> sq[i], fastack |-> 0, xmit |-> 0]
      BY DEF NewSegs
    <3>2. PICK j \in 1..n : y = [sn |-> s + j - 1, data |-> sq[j], fastack |-> 0, xmit |-> 0]
      BY DEF NewSegs
    <3>3. s + i - 1 = s + j - 1
      BY <2>1, <3>1, <3>2
    <3>4. i = j
      BY <1>2, <3>3
    <3> QED
      BY <3>1, <3>2, <3>4
  <2>2. \A x \in NewSegs(k, n) : \E i \in 1..n : x.sn = s + i - 1 /\ x.data = sq[i] /\ x.fastack = 0 /\ x.xmit = 0
    BY DEF NewSegs
  <2>3. ASSUME NEW i \in 1..n PROVE \E x \in NewSegs(k, n) : x.sn = s + i - 1 /\ x.data = sq[i]
    <3> DEFINE x == [sn |-> s + i - 1, data |-> sq[i], fastack |-> 0, xmit |-> 0]
    <3>1. x \in NewSegs(k, n)
      BY DEF NewSegs
    <3>2. x.sn = s + i - 1 /\ x.data = sq[i]
      OBVIOUS
    <3> HIDE DEF x
    <3> QED
      BY <3>1, <3>2
  <2> QED
    BY <2>1, <2>2, <2>3
<1>5. \A x \in k.snd_buf : x.sn \in Nat /\ k.snd_una <= x.sn /\ x.sn < s
  BY <1>1, EndTypes DEF End, SndInv
<1>6. ASSUME NEW x \in NewSegs(k, n) PROVE x.sn \in Nat /\ s <= x.sn /\ x.sn < s + n
  <2>1. PICK i \in 1..n : x.sn = s + i - 1
    BY <1>4
  <2> QED
    BY <1>2, <2>1
<1>7. End(k1)
  <2>1. OneEach(k1.snd_buf)
    <3>1. SUFFICES ASSUME NEW x \in k1.snd_buf, NEW y \in k1.snd_buf, x.sn = y.sn PROVE x = y
      BY DEF OneEach
    <3>2. CASE x \in k.snd_buf /\ y \in k.snd_buf
      BY <1>1, <3>1, <3>2 DEF End, SndInv, OneEach
    <3>3. CASE x \in NewSegs(k, n) /\ y \in NewSegs(k, n)
      BY <1>4, <3>1, <3>3
    <3>4. CASE x \in k.snd_buf /\ y \in NewSegs(k, n)
      BY <1>2, <1>5, <1>6, <3>1, <3>4
    <3>5. CASE x \in NewSegs(k, n) /\ y \in k.snd_buf
      BY <1>2, <1>5, <1>6, <3>1, <3>5
    <3> QED
      BY <1>3, <3>2, <3>3, <3>4, <3>5
  <2>2. \A x \in k1.snd_buf : k1.snd_una <= x.sn /\ x.sn < k1.snd_nxt
    BY <1>2, <1>3, <1>5, <1>6
  <2>3. SndInv(k1)
    BY <1>2, <1>3, <2>1, <2>2 DEF SndInv
  <2>4. RcvInv(k1) /\ Acked(k1)
    BY <1>1, <1>3 DEF End, RcvInv, Acked, Got
  <2> QED
    BY <1>3, <2>3, <2>4 DEF End
<1>8. Agree(k1, p)
  <2>1. p.rcv_nxt <= k1.snd_nxt
    BY <1>1, <1>2, <1>3 DEF Agree
  <2>2. \A y \in p.rcv_buf : y.sn \in Nat /\ y.sn < s
    BY <1>1, EndTypes DEF Agree
  <2>3. \A y \in p.rcv_buf : y.sn < k1.snd_nxt
    BY <1>2, <1>3, <2>2
  <2>4. ASSUME NEW m \in Nat, m < k1.snd_nxt PROVE (\E x \in k1.snd_buf : x.sn = m) \/ Got(p, m)
    <3>1. CASE m < s
      BY <1>1, <1>3, <3>1 DEF Agree
    <3>2. CASE ~(m < s)
      <4>1. m - s + 1 \in 1..n /\ s + (m - s + 1) - 1 = m
        <5>1. m \in Nat /\ s \in Nat /\ n \in Nat /\ s <= m /\ m < s + n
          BY <1>2, <1>3, <2>4, <3>2
        <5> HIDE DEF s, n
        <5> QED
          BY <5>1
      <4> QED
        BY <1>3, <1>4, <4>1
    <3> QED
      BY <3>1, <3>2
  <2>5. ASSUME NEW x \in k1.snd_buf, NEW y \in p.rcv_buf, x.sn = y.sn PROVE x.data = y.data
    <3>1. CASE x \in k.snd_buf
      BY <1>1, <2>5, <3>1 DEF Agree
    <3>2. CASE x \in NewSegs(k, n)
      BY <1>2, <1>6, <2>2, <2>5, <3>2
    <3> QED
      BY <1>3, <3>1, <3>2
  <2> QED
    BY <2>1, <2>3, <2>4, <2>5 DEF Agree
<1>9. Agree(p, k1)
  BY <1>1, <1>3 DEF Agree, Got
<1>10. Link(k1, p, toP, toK)
  <2>1. \A m, d : Has(k.snd_buf, m, d) => Has(k1.snd_buf, m, d)
    BY <1>3 DEF Has
  <2>2. ASSUME NEW x \in toP PROVE PushOk(k1, p, x) /\ AckOk(k1, x)
    <3>1. PushOk(k, p, x) /\ AckOk(k, x) /\ x.sn \in Nat
      BY DEF Link, Direction, SegType
    <3>2. AckOk(k1, x)
      BY <1>3, <3>1 DEF AckOk, Got
    <3>3. x.sn < s => x.sn < k1.snd_nxt
      BY <1>2, <1>3, <3>1
    <3>4. PushOk(k1, p, x)
      BY <2>1, <3>1, <3>3 DEF PushOk
    <3> QED
      BY <3>2, <3>4
  <2>3. \A x \in toK : PushOk(p, k1, x) /\ AckOk(p, x)
    BY <1>3 DEF Link, Direction, PushOk, Got
  <2>4. toP \subseteq SegType /\ toK \subseteq SegType
    BY DEF Link
  <2> QED
    BY <1>1, <1>7, <1>8, <1>9, <2>2, <2>3, <2>4 DEF Link, Direction
<1> DEFINE H == SubSeq(sq, 1, n)
<1>11. /\ H \in Seq(Bytes) /\ Len(H) = n /\ \A i \in 1..n : H[i] = sq[i]
       /\ k1.snd_queue \in Seq(Bytes) /\ H \o k1.snd_queue = sq
  <2>1. H \in Seq(Bytes) /\ Len(H) = n /\ \A i \in 1..n : H[i] = sq[i]
    BY <1>2
  <2>2. k1.snd_queue \in Seq(Bytes)
    BY <1>1, <1>7, EndTypes
  <2>3. SubSeq(sq, 1, n) \o SubSeq(sq, n + 1, Len(sq)) = SubSeq(sq, 1, Len(sq))
    BY <1>2, QueueParts
  <2>4. SubSeq(sq, 1, Len(sq)) = sq
    BY <1>2, QueueParts
  <2> QED
    BY <1>3, <2>1, <2>2, <2>3, <2>4, Zenon
<1>12. Between(k1, p) = Between(k, p) \o H
  <2> DEFINE B == Between(k, p)
  <2> DEFINE B1 == Between(k1, p)
  <2> DEFINE r == p.rcv_nxt
  <2> DEFINE m == s - r
  <2>1. B \in Seq(Bytes) /\ Len(B) = m /\ m \in Nat /\ \A i \in 1..m : B[i] = Data(k, p, r + i - 1)
    BY <1>1, BetweenType
  <2>2. B1 \in Seq(Bytes) /\ Len(B1) = m + n /\ \A i \in 1..m + n : B1[i] = Data(k1, p, r + i - 1)
    <3>1. k1.snd_nxt - r = m + n
      BY <1>2, <1>3
    <3> QED
      BY <1>1, <1>7, <1>8, <3>1, BetweenType
  <2>3. OneEach(k1.snd_buf) /\ OneEach(p.rcv_buf)
    BY <1>1, <1>7 DEF End, SndInv, RcvInv
  <2>4. ASSUME NEW i \in 1..m + n, i <= m PROVE B1[i] = B[i]
    <3> DEFINE j == r + i - 1
    <3>1. j \in Nat /\ r <= j /\ j < s /\ i \in 1..m
      BY <1>2, <2>1, <2>4
    <3> HIDE DEF j
    <3>2. Has(p.rcv_buf, j, Data(k, p, j)) \/ Has(k.snd_buf, j, Data(k, p, j))
      BY <1>1, <3>1, DataHeld
    <3>3. Has(p.rcv_buf, j, Data(k, p, j)) \/ Has(k1.snd_buf, j, Data(k, p, j))
      BY <1>3, <3>2 DEF Has
    <3>4. Data(k1, p, j) = Data(k, p, j)
      BY <1>8, <2>3, <3>3, DataIs
    <3> QED
      BY <2>1, <2>2, <3>1, <3>4 DEF j
  <2>5. ASSUME NEW i \in 1..m + n, i > m PROVE B1[i] = H[i - m]
    <3> DEFINE j == r + i - 1
    <3>1. i - m \in 1..n /\ j = s + (i - m) - 1
      <4>1. s = m + r /\ m \in Nat /\ r \in Nat /\ s \in Nat
        BY <1>2, <2>1
      <4> HIDE DEF m, r, s
      <4> QED
        BY <1>2, <2>5, <4>1
    <3> HIDE DEF j
    <3>2. Has(k1.snd_buf, j, sq[i - m])
      BY <1>3, <1>4, <3>1 DEF Has
    <3>3. Data(k1, p, j) = sq[i - m]
      BY <1>8, <2>3, <3>2, DataIs
    <3> QED
      BY <1>11, <2>2, <3>1, <3>3 DEF j
  <2> HIDE DEF B, B1, m, H
  <2>6. B \o H \in Seq(Bytes) /\ Len(B \o H) = m + n /\ \A i \in 1..m + n : (B \o H)[i] = IF i <= m THEN B[i] ELSE H[i - m]
    BY <1>11, <2>1, QueueLen
  <2>7. \A i \in 1..m + n : B1[i] = (B \o H)[i]
    <3>1. SUFFICES ASSUME NEW i \in 1..m + n PROVE B1[i] = (B \o H)[i]
      OBVIOUS
    <3>2. CASE i <= m
      BY <2>4, <2>6, <3>2
    <3>3. CASE ~(i <= m)
      <4>1. i \in Int /\ m \in Int
        BY <1>2, <2>1
      <4>2. i > m
        BY <3>3, <4>1
      <4> QED
        BY <2>5, <2>6, <3>3, <4>2
    <3> QED
      BY <3>2, <3>3
  <2>8. B1 = B \o H
    BY <2>2, <2>6, <2>7, SeqEqual
  <2> QED
    BY <2>8 DEF B, B1
<1>13. Chain(k1, p) = Chain(k, p)
  <2> DEFINE B == Between(k, p)
  <2> DEFINE q1 == k1.snd_queue
  <2>1. B \in Seq(Bytes)
    BY <1>1, BetweenType
  <2>2. Chain(k1, p) = p.rcv_queue \o ((B \o H) \o q1)
    BY <1>12 DEF Chain
  <2>3. Chain(k, p) = p.rcv_queue \o (B \o sq)
    BY DEF Chain
  <2>4. H \in Seq(Bytes) /\ q1 \in Seq(Bytes) /\ H \o q1 = sq
    BY <1>11
  <2> HIDE DEF B, H, q1, sq
  <2>5. (B \o H) \o q1 = B \o (H \o q1)
    BY <2>1, <2>4, QueueConcat
  <2> QED
    BY <2>2, <2>3, <2>4, <2>5
<1>14. Chain(p, k1) = Chain(p, k)
  BY <1>3 DEF Chain, Between, Data
<1> QED
  BY <1>10, <1>13, <1>14 DEF Kept, k1

\* It leaves the receive side alone.
LEMMA MoveToBufMoved ==
  ASSUME NEW k, End(k), mode \in ModeType, Moved(k)
  PROVE  Moved(MoveToBuf(k))
  BY MoveToBufIs DEF Moved

\* What may be put on the way to p.
Ready(k, p) == {x \in SegType : SegSize(x) <= Mtu /\ PushOk(k, p, x) /\ AckOk(k, x)}

\* The fields of a segment that ikcp_flush fills in.
LEMMA SegIs ==
  ASSUME NEW k, End(k), mode \in ModeType, NEW cmd \in {"ack", "push", "wask", "wins"}, NEW n \in Nat, NEW data \in Bytes
  PROVE  /\ Seg(k, cmd, n, data) \in SegType
         /\ Seg(k, cmd, n, data).cmd = cmd /\ Seg(k, cmd, n, data).sn = n
         /\ Seg(k, cmd, n, data).data = data /\ Seg(k, cmd, n, data).una = k.rcv_nxt
<1>1. k.rcv_nxt \in Nat /\ Len(k.rcv_queue) \in Nat /\ RcvWnd \in Nat
  BY EndTypes, Constants
<1>2. WndUnused(k) \in 0..RcvWnd
  BY <1>1 DEF WndUnused, Most
<1> HIDE DEF WndUnused
<1> QED
  BY <1>1, <1>2 DEF Seg, SegType

\* A segment without data.
LEMMA ControlReady ==
  ASSUME NEW k, NEW p, End(k), mode \in ModeType, NEW cmd \in {"ack", "wask", "wins"}, NEW n \in Nat,
         cmd = "ack" => Got(k, n)
  PROVE  Seg(k, cmd, n, <<>>) \in Ready(k, p)
<1> DEFINE x == Seg(k, cmd, n, <<>>)
<1>1. <<>> \in Bytes /\ Len(<<>>) = 0
  BY CatBytes
<1>2. x \in SegType /\ x.cmd = cmd /\ x.sn = n /\ x.data = <<>> /\ x.una = k.rcv_nxt
  BY <1>1, SegIs
<1> HIDE DEF x
<1>3. SegSize(x) <= Mtu
  BY <1>1, <1>2, Constants DEF SegSize
<1>4. PushOk(k, p, x)
  BY <1>2 DEF PushOk
<1>5. AckOk(k, x)
  <2>1. k.rcv_nxt \in Nat
    BY EndTypes
  <2> QED
    BY <1>2, <2>1 DEF AckOk
<1> QED
  BY <1>2, <1>3, <1>4, <1>5 DEF Ready, x

\* A segment of snd_buf.
LEMMA DataReady ==
  ASSUME NEW k, NEW p, End(k), mode \in ModeType, NEW n \in Sns(k.snd_buf)
  PROVE  Seg(k, "push", n, At(k.snd_buf, n).data) \in Ready(k, p)
<1> DEFINE y == At(k.snd_buf, n)
<1> DEFINE x == Seg(k, "push", n, y.data)
<1>1. y \in k.snd_buf /\ y.sn = n
  BY AtIs
<1> HIDE DEF y
<1>2. n \in Nat /\ y.data \in Bytes /\ y.data \in Chunk /\ n < k.snd_nxt
  BY <1>1, EndTypes DEF End, SndInv
<1>3. x \in SegType /\ x.cmd = "push" /\ x.sn = n /\ x.data = y.data /\ x.una = k.rcv_nxt
  BY <1>2, SegIs
<1> HIDE DEF x
<1>4. SegSize(x) <= Mtu
  <2>1. Len(y.data) \in Nat /\ Len(y.data) <= Mss
    BY <1>2 DEF Chunk, Bytes
  <2> QED
    BY <1>3, <2>1, Constants DEF SegSize
<1>5. PushOk(k, p, x)
  BY <1>1, <1>2, <1>3 DEF PushOk, Has
<1>6. AckOk(k, x)
  <2>1. k.rcv_nxt \in Nat
    BY EndTypes
  <2> QED
    BY <1>3, <2>1 DEF AckOk
<1> QED
  BY <1>3, <1>4, <1>5, <1>6 DEF Ready, x, y

\* All that goes out of a flush.
LEMMA AllReady ==
  ASSUME NEW k, NEW p, End(k), mode \in ModeType, NEW probe, NEW order \in Seq(Sns(k.snd_buf))
  PROVE  Controls(k, probe) \o DataOf(k, order) \in Seq(Ready(k, p))
<1> DEFINE R == Ready(k, p)
<1> DEFINE acks == [i \in DOMAIN k.acklist |-> Seg(k, "ack", k.acklist[i], <<>>)]
<1> DEFINE ask == IF "ask" \in probe THEN <<Seg(k, "wask", 0, <<>>)>> ELSE <<>>
<1> DEFINE tell == IF "tell" \in probe THEN <<Seg(k, "wins", 0, <<>>)>> ELSE <<>>
<1> DEFINE datas == DataOf(k, order)
<1>1. acks \in Seq(R)
  <2>1. k.acklist \in Seq(Nat)
    BY EndTypes
  <2>2. ASSUME NEW i \in DOMAIN k.acklist PROVE Seg(k, "ack", k.acklist[i], <<>>) \in R
    <3>1. k.acklist[i] \in Nat /\ Got(k, k.acklist[i])
      BY <2>1 DEF End, Acked
    <3> QED
      BY <3>1, ControlReady
  <2> HIDE DEF R
  <2>3. acks \in [1..Len(k.acklist) -> R] /\ Len(k.acklist) \in Nat
    BY <2>1, <2>2
  <2> QED
    BY <2>3
<1>2. Seg(k, "wask", 0, <<>>) \in R /\ Seg(k, "wins", 0, <<>>) \in R
  BY ControlReady
<1>3. datas \in Seq(R)
  <2>1. ASSUME NEW i \in DOMAIN order PROVE Seg(k, "push", order[i], At(k.snd_buf, order[i]).data) \in R
    <3>1. order[i] \in Sns(k.snd_buf)
      OBVIOUS
    <3> QED
      BY <3>1, DataReady
  <2> HIDE DEF R
  <2>2. datas \in [1..Len(order) -> R] /\ Len(order) \in Nat
    BY <2>1 DEF DataOf
  <2> HIDE DEF datas
  <2> QED
    BY <2>2
<1> HIDE DEF R, acks, datas
<1>4. ask \in Seq(R) /\ tell \in Seq(R)
  BY <1>2
<1> HIDE DEF ask, tell
<1>5. (acks \o ask \o tell) \o datas \in Seq(R)
  BY <1>1, <1>3, <1>4
<1>6. Controls(k, probe) = acks \o ask \o tell
  BY DEF Controls, acks, ask, tell
<1> QED
  BY <1>5, <1>6 DEF datas, R

\* The congestion window after a flush.
LEMMA CutCwndIs ==
  ASSUME NEW k \in ControlBlock, k.snd_una <= k.snd_nxt, mode \in ModeType, NEW cwnd \in Nat, NEW change, NEW lost
  PROVE  LET k1 == CutCwnd(k, cwnd, change, lost)
         IN /\ k1 \in ControlBlock /\ k1.snd_buf = k.snd_buf /\ k1.acklist = k.acklist
            /\ k1.snd_una = k.snd_una /\ k1.snd_nxt = k.snd_nxt /\ k1.rcv_nxt = k.rcv_nxt /\ k1.rcv_buf = k.rcv_buf
            /\ k1.rcv_queue = k.rcv_queue /\ k1.snd_queue = k.snd_queue
<1> DEFINE half == Most((k.snd_nxt - k.snd_una) \div 2, 2)
<1> DEFINE k1 == IF change THEN [k EXCEPT !.ssthresh = half, !.cwnd = half + mode.resend] ELSE k
<1> DEFINE k2 == IF lost THEN [k1 EXCEPT !.ssthresh = Most(cwnd \div 2, 2), !.cwnd = 1] ELSE k1
<1>1. k.snd_una \in Nat /\ k.snd_nxt \in Nat /\ k.cwnd \in Nat /\ k.ssthresh \in Nat /\ mode.resend \in Nat
  BY DEF ControlBlock, ModeType
<1>2. half \in Nat /\ Most(cwnd \div 2, 2) \in Nat
  <2>1. \A n \in Int : Most(n, 2) \in Nat
    BY DEF Most
  <2>2. (k.snd_nxt - k.snd_una) \div 2 \in Int /\ cwnd \div 2 \in Int
    BY <1>1
  <2> QED
    BY <2>1, <2>2
<1> HIDE DEF half
<1>3. k1 \in ControlBlock /\ \E a, b \in Nat : k1 = [k EXCEPT !.ssthresh = a, !.cwnd = b]
  <2>1. CASE change
    <3>1. half + mode.resend \in Nat
      BY <1>1, <1>2
    <3>2. k1 = [k EXCEPT !.ssthresh = half, !.cwnd = half + mode.resend]
      BY <2>1
    <3> QED
      BY <1>2, <3>1, <3>2 DEF ControlBlock
  <2>2. CASE ~change
    <3>1. k1 = [k EXCEPT !.ssthresh = k.ssthresh, !.cwnd = k.cwnd]
      BY <2>2 DEF ControlBlock
    <3> QED
      BY <1>1, <2>2, <3>1
  <2> QED
    BY <2>1, <2>2
<1>4. PICK a \in Nat, b \in Nat : k1 = [k EXCEPT !.ssthresh = a, !.cwnd = b]
  BY <1>3
<1> HIDE DEF k1
<1> DEFINE c == Most(cwnd \div 2, 2)
<1> HIDE DEF c
<1>5. \E d, e \in Nat : k2 = [k EXCEPT !.ssthresh = d, !.cwnd = e]
  <2>1. CASE lost
    <3>1. k2 = [k EXCEPT !.ssthresh = c, !.cwnd = 1]
      BY <1>3, <1>4, <2>1 DEF ControlBlock, c
    <3>2. c \in Nat /\ 1 \in Nat
      BY <1>2 DEF c
    <3> QED
      BY <3>1, <3>2
  <2>2. CASE ~lost
    BY <1>4, <2>2
  <2> QED
    BY <2>1, <2>2
<1>6. PICK d \in Nat, e \in Nat : k2 = [k EXCEPT !.ssthresh = d, !.cwnd = e]
  BY <1>5
<1>7. CutCwnd(k, cwnd, change, lost) = IF mode.noCwnd THEN k ELSE [k2 EXCEPT !.cwnd = Most(k2.cwnd, 1)]
  BY DEF CutCwnd, k1, half
<1> HIDE DEF k2
<1>8. mode.noCwnd => \E v, w \in Nat : CutCwnd(k, cwnd, change, lost) = [k EXCEPT !.ssthresh = v, !.cwnd = w]
  <2>0. SUFFICES ASSUME mode.noCwnd PROVE \E v, w \in Nat : CutCwnd(k, cwnd, change, lost) = [k EXCEPT !.ssthresh = v, !.cwnd = w]
    OBVIOUS
  <2>1. CutCwnd(k, cwnd, change, lost) = [k EXCEPT !.ssthresh = k.ssthresh, !.cwnd = k.cwnd]
    BY <1>7, <2>0 DEF ControlBlock
  <2> QED
    BY <1>1, <2>1
<1>9. ~mode.noCwnd => \E v, w \in Nat : CutCwnd(k, cwnd, change, lost) = [k EXCEPT !.ssthresh = v, !.cwnd = w]
  <2>0. SUFFICES ASSUME ~mode.noCwnd PROVE \E v, w \in Nat : CutCwnd(k, cwnd, change, lost) = [k EXCEPT !.ssthresh = v, !.cwnd = w]
    OBVIOUS
  <2>1. k2.cwnd = e
    BY <1>6 DEF ControlBlock
  <2>2. Most(e, 1) \in Nat
    BY DEF Most
  <2>3. CutCwnd(k, cwnd, change, lost) = [k EXCEPT !.ssthresh = d, !.cwnd = Most(e, 1)]
    BY <1>6, <1>7, <2>0, <2>1 DEF ControlBlock
  <2> QED
    BY <2>2, <2>3
<1>10. PICK v \in Nat, w \in Nat : CutCwnd(k, cwnd, change, lost) = [k EXCEPT !.ssthresh = v, !.cwnd = w]
  BY <1>8, <1>9
<1> QED
  BY <1>10 DEF ControlBlock

\* The segments that some datagrams carry.
Carried(ds) == UNION {ToSet(ds[i]) : i \in DOMAIN ds}

\* They are segments of the kind that the datagrams are made of.
LEMMA CarriedIs ==
  ASSUME NEW S, NEW ds \in Seq(Seq(S))
  PROVE  Carried(ds) \in SUBSET S
<1>1. \A i \in DOMAIN ds : ds[i] \in Seq(S)
  OBVIOUS
<1>2. \A s \in Seq(S) : ToSet(s) \subseteq S
  BY DEF ToSet
<1> QED
  BY <1>1, <1>2 DEF Carried

\* What ikcp_flush sends and how it changes snd_buf for it.
LEMMA EmitKeeps ==
  ASSUME NEW k, NEW p, NEW toP, NEW toK, Link(k, p, toP, toK), Moved(k),
         NEW cwnd \in Nat, NEW probe, NEW late \in SUBSET Sns(k.snd_buf), NEW fast \in SUBSET Sns(k.snd_buf),
         NEW r, r = Emit(k, cwnd, probe, late, fast, Ascending(late \cup fast \cup Unsent(k)))
  PROVE  /\ r.out \in Datagrams(SegType)
         /\ Good(r.kcp, p, toP \cup Carried(r.out), toK) /\ Kept(k, r.kcp, p)
<1> DEFINE S == late \cup fast \cup Unsent(k)
<1> DEFINE order == Ascending(S)
<1> DEFINE f == [x \in k.snd_buf |-> IF x.sn \notin ToSet(order) THEN x
                                     ELSE [x EXCEPT !.xmit = Least(@ + 1, FastLimit + 1),
                                                    !.fastack = IF x.sn \in fast THEN 0 ELSE @]]
<1> DEFINE T == {f[x] : x \in k.snd_buf}
<1> DEFINE shut == k.rmt_wnd = 0
<1> DEFINE k0 == [k EXCEPT !.acklist = <<>>, !.probe = {}, !.probing = shut, !.snd_buf = T]
<1> DEFINE k1 == CutCwnd(k0, cwnd, fast # {}, late # {})
<1> DEFINE out == Pack(Controls(k, probe) \o DataOf(k, order))
<1>1. r = [kcp |-> k1, out |-> out]
  BY DEF Emit
<1>2. End(k) /\ End(p) /\ k \in ControlBlock /\ mode \in ModeType /\ FastLimit \in Nat
  BY Constants DEF Link, End
<1>3. S \in SUBSET Sns(k.snd_buf) /\ S \in SUBSET Nat /\ IsFiniteSet(S)
  <2>1. IsFiniteSet(Sns(k.snd_buf)) /\ Sns(k.snd_buf) \in SUBSET Nat
    BY <1>2, BufsFinite
  <2>2. Unsent(k) \subseteq Sns(k.snd_buf)
    BY DEF Unsent, Sns
  <2>3. S \in SUBSET Sns(k.snd_buf)
    BY <2>2
  <2> HIDE DEF S
  <2> QED
    BY <2>1, <2>3, FS_Subset
<1> HIDE DEF S
<1>4. order \in Seq(Nat) /\ ToSet(order) = S
  BY <1>3, AscendingLists
<1> HIDE DEF order
<1>5. order \in Seq(Sns(k.snd_buf))
  <2>1. Len(order) \in Nat /\ \A i \in 1..Len(order) : order[i] \in ToSet(order)
    BY <1>4 DEF ToSet
  <2>2. order \in [1..Len(order) -> Sns(k.snd_buf)]
    BY <1>3, <1>4, <2>1
  <2> QED
    BY <2>1, <2>2
<1>6. out \in Datagrams(Ready(k, p))
  <2>1. Controls(k, probe) \o DataOf(k, order) \in Seq(Ready(k, p))
    BY <1>2, <1>5, AllReady
  <2>2. Ready(k, p) \in SUBSET SegType /\ \A x \in Ready(k, p) : SegSize(x) <= Mtu
    BY DEF Ready
  <2> QED
    BY <2>1, <2>2, PackFits
<1> HIDE DEF out
<1>7. out \in Datagrams(SegType)
  <2>1. out \in Seq(Seq(Ready(k, p))) /\ \A i \in DOMAIN out : SizeOf(out[i]) <= Mtu
    BY <1>6 DEF Datagrams
  <2>2. Seq(Ready(k, p)) \subseteq Seq(SegType)
    BY SeqMonotonic DEF Ready
  <2>3. out \in Seq(Seq(SegType))
    BY <2>1, <2>2, SeqMonotonic
  <2> QED
    BY <2>1, <2>3 DEF Datagrams
<1>8. Link(k, p, toP \cup Carried(out), toK)
  <2>1. Carried(out) \in SUBSET Ready(k, p)
    BY <1>6, CarriedIs DEF Datagrams
  <2>2. Carried(out) \in SUBSET SegType /\ \A x \in Carried(out) : PushOk(k, p, x) /\ AckOk(k, x)
    BY <2>1 DEF Ready
  <2> QED
    BY <2>2, Emission
<1>9. ASSUME NEW x \in k.snd_buf
      PROVE  /\ f[x] \in SndSeg /\ f[x].sn = x.sn /\ f[x].data = x.data /\ f[x].xmit >= 1
  <2>1. x \in SndSeg /\ x.xmit \in Nat /\ x.fastack \in 0..mode.resend /\ mode.resend \in Nat
    BY <1>2 DEF ControlBlock, ModeType, SndSeg
  <2>2. CASE x.sn \notin ToSet(order)
    <3>1. f[x] = x
      BY <2>2
    <3>2. x.xmit # 0
      BY <1>4, <2>2 DEF S, Unsent, Sns
    <3> HIDE DEF f
    <3> QED
      BY <2>1, <3>1, <3>2
  <2>3. CASE x.sn \in ToSet(order)
    <3> DEFINE m == Least(x.xmit + 1, FastLimit + 1)
    <3> DEFINE a == IF x.sn \in fast THEN 0 ELSE x.fastack
    <3>1. f[x] = [x EXCEPT !.xmit = m, !.fastack = a]
      BY <2>3
    <3>2. m \in 0..FastLimit + 1 /\ m >= 1
      BY <1>2, <2>1 DEF Least
    <3>3. a \in 0..mode.resend
      BY <2>1
    <3> HIDE DEF f, m, a
    <3> QED
      BY <2>1, <3>1, <3>2, <3>3 DEF SndSeg
  <2> QED
    BY <2>2, <2>3
<1>10. k0 = [k EXCEPT !.acklist = <<>>, !.probe = {}, !.probing = shut, !.snd_buf = T]
  OBVIOUS
<1>11. r.kcp = k1 /\ r.out = out
  BY <1>1
<1>12. T \in SUBSET SndSeg /\ shut \in BOOLEAN /\ <<>> \in Seq(Nat)
  <2>1. \A x \in k.snd_buf : f[x] \in SndSeg
    BY <1>9
  <2>2. shut \in BOOLEAN
    BY Zenon
  <2> HIDE DEF f, shut
  <2>3. T \in SUBSET SndSeg
    BY <2>1
  <2>4. <<>> \in Seq(Nat)
    OBVIOUS
  <2> QED
    BY <2>2, <2>3, <2>4
<1> HIDE DEF f, T, shut, k0
<1>13. /\ k0 \in ControlBlock /\ k0.snd_buf = T /\ k0.acklist = <<>>
       /\ k0.snd_una = k.snd_una /\ k0.snd_nxt = k.snd_nxt /\ k0.rcv_nxt = k.rcv_nxt /\ k0.rcv_buf = k.rcv_buf
       /\ k0.rcv_queue = k.rcv_queue /\ k0.snd_queue = k.snd_queue
  BY <1>2, <1>10, <1>12 DEF ControlBlock
<1>14. k0.snd_una <= k0.snd_nxt
  BY <1>2, <1>13 DEF End, SndInv
<1> HIDE DEF k1
<1>15. /\ k1 \in ControlBlock /\ k1.snd_buf = T /\ k1.acklist = <<>>
       /\ k1.snd_una = k.snd_una /\ k1.snd_nxt = k.snd_nxt /\ k1.rcv_nxt = k.rcv_nxt /\ k1.rcv_buf = k.rcv_buf
       /\ k1.rcv_queue = k.rcv_queue /\ k1.snd_queue = k.snd_queue
  <2> DEFINE change == fast # {}
  <2> DEFINE lost == late # {}
  <2> HIDE DEF change, lost
  <2>1. k1 = CutCwnd(k0, cwnd, change, lost)
    BY DEF k1, change, lost
  <2>2. /\ k1 \in ControlBlock /\ k1.snd_buf = k0.snd_buf /\ k1.acklist = k0.acklist
        /\ k1.snd_una = k0.snd_una /\ k1.snd_nxt = k0.snd_nxt /\ k1.rcv_nxt = k0.rcv_nxt /\ k1.rcv_buf = k0.rcv_buf
        /\ k1.rcv_queue = k0.rcv_queue /\ k1.snd_queue = k0.snd_queue
    BY <1>2, <1>13, <1>14, <2>1, CutCwndIs
  <2> QED
    BY <1>13, <2>2
<1>16. Link(k1, p, toP \cup Carried(out), toK) /\ Kept(k, k1, p)
  BY <1>8, <1>9, <1>15, Rewriting DEF T
<1>17. Moved(k1)
  BY <1>15 DEF Moved
<1>18. Sent1(k1)
  BY <1>9, <1>15 DEF Sent1, T
<1> QED
  BY <1>7, <1>11, <1>16, <1>17, <1>18 DEF Good

\* A turn of one end that sends: the end is as it should be, and so is what it sends.
Turn(k, r, p, toP, toK) ==
  /\ r.out \in Datagrams(SegType)
  /\ Good(r.kcp, p, toP \cup Carried(r.out), toK) /\ Kept(k, r.kcp, p)

\* ikcp_flush.
LEMMA FlushKeeps ==
  ASSUME NEW k, NEW p, NEW toP, NEW toK, Good(k, p, toP, toK),
         NEW overdue, NEW probeDue, NEW r \in Flush(k, overdue, probeDue)
  PROVE  Turn(k, r, p, toP, toK)
<1> DEFINE k1 == MoveToBuf(k)
<1> DEFINE late == Overdue(k1, overdue)
<1> DEFINE fast == FastResent(k1) \ overdue
<1> DEFINE probe == k.probe \cup (IF probeDue /\ k.probing /\ k.rmt_wnd = 0 THEN {"ask"} ELSE {})
<1> DEFINE w == Window(k)
<1>1. End(k) /\ mode \in ModeType /\ Link(k, p, toP, toK) /\ Moved(k)
  BY DEF Good, Link
<1>2. Link(k1, p, toP, toK) /\ Kept(k, k1, p) /\ Moved(k1)
  BY <1>1, MoveToBufKeeps, MoveToBufMoved
<1>3. w \in Nat
  BY <1>1, WindowIs
<1>4. late \in SUBSET Sns(k1.snd_buf) /\ fast \in SUBSET Sns(k1.snd_buf)
  BY DEF Overdue, FastResent, Sns
<1>5. r = Emit(k1, w, probe, late, fast, Ascending(late \cup fast \cup Unsent(k1)))
  <2> DEFINE emit(kx, lx, fx, ox) == Emit(kx, w, probe, lx, fx, ox)
  <2>1. Flush(k, overdue, probeDue)
          = UNION {{emit(kx, lx, fx, ox) : ox \in {Ascending(lx \cup fx \cup Unsent(kx))}} :
                     kx \in {k1}, lx \in {late}, fx \in {fast}}
    BY DEF Flush
  <2> HIDE DEF emit, k1, late, fast
  <2>2. r = emit(k1, late, fast, Ascending(late \cup fast \cup Unsent(k1)))
    BY <2>1
  <2> QED
    BY <2>2 DEF emit
<1> HIDE DEF k1, late, fast, probe, w
<1>6. /\ r.out \in Datagrams(SegType)
      /\ Good(r.kcp, p, toP \cup Carried(r.out), toK) /\ Kept(k1, r.kcp, p)
  BY <1>2, <1>3, <1>4, <1>5, EmitKeeps
<1>7. Kept(k, r.kcp, p)
  BY <1>2, <1>6 DEF Kept
<1> QED
  BY <1>6, <1>7 DEF Turn

\* ikcp_update.
LEMMA IkcpUpdateKeeps ==
  ASSUME NEW k, NEW p, NEW toP, NEW toK, Good(k, p, toP, toK),
         NEW due, NEW overdue, NEW probeDue, NEW r \in IkcpUpdate(k, due, overdue, probeDue)
  PROVE  Turn(k, r, p, toP, toK)
<1>1. k \in ControlBlock
  BY DEF Good, Link, End
<1>2. CASE due \/ ~k.updated
  <2> DEFINE k1 == [k EXCEPT !.updated = TRUE]
  <2>1. r \in Flush(k1, overdue, probeDue)
    BY <1>2 DEF IkcpUpdate
  <2>2. /\ k1 \in ControlBlock /\ k1.snd_buf = k.snd_buf
        /\ k1.snd_una = k.snd_una /\ k1.snd_nxt = k.snd_nxt /\ k1.rcv_nxt = k.rcv_nxt /\ k1.rcv_buf = k.rcv_buf
        /\ k1.rcv_queue = k.rcv_queue /\ k1.snd_queue = k.snd_queue /\ k1.acklist = k.acklist
    BY <1>1 DEF ControlBlock
  <2> HIDE DEF k1
  <2>3. Onward(k, k1, p, toP, toK)
    BY <2>2, OtherChange
  <2>4. Turn(k1, r, p, toP, toK)
    BY <2>1, <2>3, FlushKeeps DEF Onward
  <2> QED
    BY <2>3, <2>4 DEF Turn, Onward, Kept
<1>3. CASE ~(due \/ ~k.updated)
  <2>1. r = [kcp |-> k, out |-> <<>>]
    BY <1>3 DEF IkcpUpdate
  <2>2. r.kcp = k /\ r.out = <<>>
    BY <2>1
  <2>3. <<>> \in Datagrams(SegType)
    BY DEF Datagrams
  <2>4. Carried(<<>>) = {}
    BY DEF Carried
  <2>5. toP \cup Carried(r.out) = toP
    BY <2>2, <2>4
  <2> QED
    BY <2>2, <2>3, <2>5 DEF Turn, Kept
<1> QED
  BY <1>2, <1>3

------------------------------------------------------------------------------
(* The two ends of the chain: ikcp_send and ikcp_recv.                        *)

\* The bytes of a chain.
LEMMA ChainBytes ==
  ASSUME NEW k, NEW p, NEW toP, NEW toK, Link(k, p, toP, toK)
  PROVE  /\ Chain(k, p) \in Seq(Bytes) /\ FlattenSeq(Chain(k, p)) \in Bytes
         /\ Between(k, p) \in Seq(Bytes) /\ FlattenSeq(Between(k, p)) \in Bytes
         /\ FlattenSeq(k.snd_queue) \in Bytes /\ FlattenSeq(p.rcv_queue) \in Bytes
         /\ FlattenSeq(Chain(k, p))
              = Cat(FlattenSeq(p.rcv_queue), Cat(FlattenSeq(Between(k, p)), FlattenSeq(k.snd_queue)))
<1>1. End(k) /\ End(p) /\ Agree(k, p) /\ mode \in ModeType
  BY DEF Link, Direction
<1>2. k.snd_queue \in Seq(Bytes) /\ p.rcv_queue \in Seq(Bytes) /\ Between(k, p) \in Seq(Bytes)
  BY <1>1, EndTypes, BetweenType
<1> DEFINE a == p.rcv_queue
<1> DEFINE b == Between(k, p)
<1> DEFINE c == k.snd_queue
<1>3. Chain(k, p) = a \o (b \o c)
  BY DEF Chain
<1> HIDE DEF a, b, c
<1>4. a \in Seq(Bytes) /\ b \in Seq(Bytes) /\ c \in Seq(Bytes)
  BY <1>2 DEF a, b, c
<1>5. b \o c \in Seq(Bytes)
  BY <1>4, QueueConcat
<1>6. a \o (b \o c) \in Seq(Bytes)
  BY <1>4, <1>5, QueueConcat
<1>7. FlattenSeq(a) \in Bytes /\ FlattenSeq(b) \in Bytes /\ FlattenSeq(c) \in Bytes
  BY <1>4, FlattenType
<1>8. FlattenSeq(b \o c) = Cat(FlattenSeq(b), FlattenSeq(c))
  BY <1>4, FlattenCat
<1>9. FlattenSeq(a \o (b \o c)) = Cat(FlattenSeq(a), FlattenSeq(b \o c))
  BY <1>4, <1>5, FlattenCat
<1>10. FlattenSeq(Chain(k, p)) \in Bytes /\ Chain(k, p) \in Seq(Bytes)
  BY <1>3, <1>6, FlattenType
<1> QED
  BY <1>3, <1>4, <1>7, <1>8, <1>9, <1>10 DEF a, b, c

\* What ikcp_send accepts comes after all that has been accepted before.
LEMMA SendKeeps ==
  ASSUME NEW k, NEW p, NEW toP, NEW toK, Good(k, p, toP, toK), NEW bytes \in Bytes, IkcpSend(k, bytes).ok
  PROVE  /\ Good(IkcpSend(k, bytes).kcp, p, toP, toK)
         /\ FlattenSeq(Chain(IkcpSend(k, bytes).kcp, p)) = Cat(FlattenSeq(Chain(k, p)), bytes)
         /\ Chain(p, IkcpSend(k, bytes).kcp) = Chain(p, k)
<1> DEFINE k1 == IkcpSend(k, bytes).kcp
<1>1. Link(k, p, toP, toK) /\ End(k) /\ End(p) /\ k \in ControlBlock /\ mode \in ModeType
  BY DEF Good, Link, End
<1>2. PICK q \in Seq(Chunk) : k1 = [k EXCEPT !.snd_queue = q] /\ FlattenSeq(q) = Cat(FlattenSeq(k.snd_queue), bytes)
  BY <1>1, IkcpSendAppends DEF ControlBlock
<1> HIDE DEF k1
<1>3. /\ k1 \in ControlBlock /\ k1.snd_buf = k.snd_buf /\ k1.snd_queue = q
      /\ k1.snd_una = k.snd_una /\ k1.snd_nxt = k.snd_nxt /\ k1.rcv_nxt = k.rcv_nxt /\ k1.rcv_buf = k.rcv_buf
      /\ k1.rcv_queue = k.rcv_queue /\ k1.acklist = k.acklist
  BY <1>1, <1>2 DEF ControlBlock
<1>4. \A n : Got(k1, n) <=> Got(k, n)
  BY <1>3 DEF Got
<1>5. End(k1)
  BY <1>1, <1>3, <1>4 DEF End, SndInv, RcvInv, Acked
<1>6. Link(k1, p, toP, toK)
  <2>1. Agree(k1, p) /\ Agree(p, k1)
    BY <1>1, <1>3, <1>4 DEF Link, Direction, Agree
  <2>2. \A x \in toP : PushOk(k1, p, x) /\ AckOk(k1, x)
    BY <1>1, <1>3, <1>4 DEF Link, Direction, PushOk, AckOk
  <2>3. \A x \in toK : PushOk(p, k1, x) /\ AckOk(p, x)
    BY <1>1, <1>3, <1>4 DEF Link, Direction, PushOk
  <2> QED
    BY <1>1, <1>5, <2>1, <2>2, <2>3 DEF Link, Direction
<1>7. Moved(k1) /\ Sent1(k1)
  BY <1>3 DEF Good, Moved, Sent1
<1>8. Between(k1, p) = Between(k, p)
  BY <1>3 DEF Between, Data
<1>9. Chain(p, k1) = Chain(p, k)
  BY <1>3 DEF Chain, Between, Data
<1>10. FlattenSeq(Chain(k1, p)) = Cat(FlattenSeq(Chain(k, p)), bytes)
  <2> DEFINE a == FlattenSeq(p.rcv_queue)
  <2> DEFINE b == FlattenSeq(Between(k, p))
  <2> DEFINE c == FlattenSeq(k.snd_queue)
  <2>1. a \in Bytes /\ b \in Bytes /\ c \in Bytes /\ FlattenSeq(Chain(k, p)) = Cat(a, Cat(b, c))
    BY <1>1, ChainBytes
  <2>2. FlattenSeq(Chain(k1, p)) = Cat(a, Cat(b, Cat(c, bytes)))
    <3>1. FlattenSeq(Chain(k1, p))
            = Cat(FlattenSeq(p.rcv_queue), Cat(FlattenSeq(Between(k1, p)), FlattenSeq(k1.snd_queue)))
      BY <1>6, ChainBytes
    <3> QED
      BY <1>2, <1>3, <1>8, <3>1
  <2> HIDE DEF a, b, c
  <2>3. Cat(b, c) \in Bytes
    BY <2>1, CatBytes
  <2>4. Cat(Cat(a, Cat(b, c)), bytes) = Cat(a, Cat(Cat(b, c), bytes))
    BY <2>1, <2>3, CatBytes
  <2>5. Cat(Cat(b, c), bytes) = Cat(b, Cat(c, bytes))
    BY <2>1, CatBytes
  <2> QED
    BY <2>1, <2>2, <2>4, <2>5
<1> QED
  BY <1>6, <1>7, <1>9, <1>10 DEF Good, k1

\* A queue is its head and its tail.
LEMMA HeadFirst ==
  ASSUME NEW q \in Seq(Bytes), q # <<>>
  PROVE  /\ Head(q) \in Bytes /\ Tail(q) \in Seq(Bytes) /\ Len(Tail(q)) = Len(q) - 1
         /\ q = <<Head(q)>> \o Tail(q)
<1>1. Head(q) \in Bytes /\ Tail(q) \in Seq(Bytes) /\ Len(Tail(q)) = Len(q) - 1 /\ Len(q) > 0
  OBVIOUS
<1> DEFINE a == <<Head(q)>>
<1> DEFINE t == Tail(q)
<1>2. a \in Seq(Bytes) /\ Len(a) = 1 /\ a[1] = q[1]
  BY <1>1
<1>3. \A i \in 1..Len(t) : t[i] = q[i + 1]
  BY <1>1
<1>4. t \in Seq(Bytes) /\ Len(t) \in Nat /\ Len(q) = 1 + Len(t)
  BY <1>1
<1> HIDE DEF a, t
<1>5. a \o t \in Seq(Bytes) /\ Len(a \o t) = Len(a) + Len(t)
  BY <1>2, <1>4, QueueLen
<1>6. ASSUME NEW i \in 1..Len(q) PROVE (a \o t)[i] = q[i]
  <2>1. i \in 1..Len(a) + Len(t)
    BY <1>2, <1>4
  <2>2. (a \o t)[i] = IF i <= Len(a) THEN a[i] ELSE t[i - Len(a)]
    BY <1>2, <1>4, <2>1, QueueLen
  <2>3. CASE i = 1
    BY <1>2, <2>2, <2>3
  <2>4. CASE i # 1
    <3>1. i - 1 \in 1..Len(t) /\ ~(i <= Len(a)) /\ i - 1 + 1 = i
      BY <1>2, <1>4, <2>4
    <3> QED
      BY <1>2, <1>3, <2>2, <3>1
  <2> QED
    BY <2>3, <2>4
<1>7. a \o t = q
  BY <1>2, <1>4, <1>5, <1>6, SeqEqual
<1> QED
  BY <1>1, <1>7 DEF a, t

\* ikcp_recv takes the first segment of the chain.
LEMMA RecvKeeps ==
  ASSUME NEW k, NEW p, NEW toP, NEW toK, Good(k, p, toP, toK), k.rcv_queue # <<>>
  PROVE  /\ Good(Recv(k), p, toP, toK)
         /\ Head(k.rcv_queue) \in Bytes
         /\ FlattenSeq(Chain(p, k)) = Cat(Head(k.rcv_queue), FlattenSeq(Chain(p, Recv(k))))
         /\ Chain(Recv(k), p) = Chain(k, p)
<1> DEFINE q == k.rcv_queue
<1> DEFINE t == Tail(q)
<1> DEFINE k0 == [k EXCEPT !.rcv_queue = t]
<1> DEFINE k1 == MoveAvailable(k0)
<1>1. Link(k, p, toP, toK) /\ End(k) /\ End(p) /\ k \in ControlBlock /\ mode \in ModeType
  BY DEF Good, Link, End
<1>2. q \in Seq(Bytes) /\ Head(q) \in Bytes /\ t \in Seq(Bytes) /\ Len(t) = Len(q) - 1 /\ q = <<Head(q)>> \o t
  BY <1>1, EndTypes, HeadFirst
<1>3. /\ k0 \in ControlBlock /\ k0.snd_buf = k.snd_buf /\ k0.snd_queue = k.snd_queue
      /\ k0.snd_una = k.snd_una /\ k0.snd_nxt = k.snd_nxt /\ k0.rcv_nxt = k.rcv_nxt /\ k0.rcv_buf = k.rcv_buf
      /\ k0.rcv_queue = t /\ k0.acklist = k.acklist
  <2> HIDE DEF t
  <2> QED
    BY <1>1, <1>2 DEF ControlBlock
<1> HIDE DEF k0
<1>4. \A n : Got(k0, n) <=> Got(k, n)
  BY <1>3 DEF Got
<1>5. End(k0)
  <2>1. Len(k0.rcv_queue) <= RcvWnd
    BY <1>1, <1>2, <1>3, Constants DEF End, RcvInv
  <2> QED
    BY <1>1, <1>3, <1>4, <2>1 DEF End, SndInv, RcvInv, Acked
<1>6. Link(k0, p, toP, toK)
  <2>1. Agree(k0, p) /\ Agree(p, k0)
    BY <1>1, <1>3, <1>4 DEF Link, Direction, Agree
  <2>2. \A x \in toP : PushOk(k0, p, x) /\ AckOk(k0, x)
    BY <1>1, <1>3, <1>4 DEF Link, Direction, PushOk, AckOk
  <2>3. \A x \in toK : PushOk(p, k0, x) /\ AckOk(p, x)
    BY <1>1, <1>3, <1>4 DEF Link, Direction, PushOk
  <2> QED
    BY <1>1, <1>5, <2>1, <2>2, <2>3 DEF Link, Direction
<1>7. /\ Link(k1, p, toP, toK) /\ Kept(k0, k1, p) /\ Moved(k1) /\ k1.snd_buf = k0.snd_buf
  BY <1>6, MoveAvailableKeeps
<1>8. Good(k1, p, toP, toK)
  BY <1>3, <1>7 DEF Good, Sent1
<1>9. Recv(k) = IF Len(q) >= RcvWnd /\ Len(k1.rcv_queue) < RcvWnd THEN [k1 EXCEPT !.probe = @ \cup {"tell"}] ELSE k1
  BY DEF Recv, k0
<1> HIDE DEF k1
<1>10. Onward(k1, Recv(k), p, toP, toK)
  <2> DEFINE b == k1.probe \cup {"tell"}
  <2> DEFINE k2 == [k1 EXCEPT !.probe = b]
  <2>1. k1 \in ControlBlock
    BY <1>7 DEF Link, End
  <2>2. b \in SUBSET {"ask", "tell"}
    BY <2>1 DEF ControlBlock
  <2>3. Recv(k) = k1 \/ Recv(k) = k2
    BY <1>9
  <2> HIDE DEF b
  <2>4. /\ k2 \in ControlBlock /\ k2.snd_buf = k1.snd_buf
        /\ k2.snd_una = k1.snd_una /\ k2.snd_nxt = k1.snd_nxt /\ k2.rcv_nxt = k1.rcv_nxt /\ k2.rcv_buf = k1.rcv_buf
        /\ k2.rcv_queue = k1.rcv_queue /\ k2.snd_queue = k1.snd_queue /\ k2.acklist = k1.acklist
    BY <2>1, <2>2 DEF ControlBlock
  <2> HIDE DEF k2
  <2>5. Onward(k1, k2, p, toP, toK)
    BY <1>8, <2>4, OtherChange
  <2>6. Onward(k1, k1, p, toP, toK)
    BY <1>8 DEF Onward, Kept
  <2> QED
    BY <2>3, <2>5, <2>6
<1>11. Chain(p, Recv(k)) = Chain(p, k0) /\ Chain(Recv(k), p) = Chain(k0, p)
  BY <1>7, <1>10 DEF Onward, Kept
<1>12. Chain(k0, p) = Chain(k, p) /\ Between(p, k0) = Between(p, k)
  BY <1>3 DEF Chain, Between, Data
<1>13. FlattenSeq(Chain(p, k)) = Cat(Head(q), FlattenSeq(Chain(p, k0)))
  <2> DEFINE h == Head(q)
  <2> DEFINE a == FlattenSeq(t)
  <2> DEFINE r == Cat(FlattenSeq(Between(p, k)), FlattenSeq(p.snd_queue))
  <2>1. Link(p, k, toK, toP) /\ Link(p, k0, toK, toP)
    BY <1>1, <1>6, LinkSymmetric
  <2>2. FlattenSeq(Chain(p, k)) = Cat(FlattenSeq(q), r) /\ r \in Bytes
    BY <2>1, ChainBytes, CatBytes
  <2>3. FlattenSeq(Chain(p, k0)) = Cat(a, r)
    BY <1>3, <1>12, <2>1, ChainBytes
  <2>4. FlattenSeq(q) = Cat(h, a) /\ a \in Bytes /\ h \in Bytes
    <3>1. <<h>> \in Seq(Bytes)
      BY <1>2, QueueConcat
    <3>2. FlattenSeq(<<h>>) = h
      BY <1>2, FlattenOne
    <3>3. FlattenSeq(<<h>> \o t) = Cat(FlattenSeq(<<h>>), FlattenSeq(t))
      BY <1>2, <3>1, FlattenCat
    <3> QED
      BY <1>2, <3>2, <3>3, FlattenType
  <2> HIDE DEF h, a, r, q
  <2>5. Cat(Cat(h, a), r) = Cat(h, Cat(a, r))
    BY <2>2, <2>4, CatBytes
  <2> QED
    BY <2>2, <2>3, <2>4, <2>5 DEF h
<1> QED
  BY <1>2, <1>10, <1>11, <1>12, <1>13 DEF Onward

------------------------------------------------------------------------------
(* The steps of the two ends.                                                 *)

\* The rest of the state.
Outside ==
  /\ mode \in Modes
  /\ kcp \in [Ends -> ControlBlock]
  /\ net \in [Ends -> Datagrams(SegType)] /\ \A e \in Ends : Len(net[e]) <= NetCap[e]
  /\ output \in [Ends -> Bytes] /\ taken \in [Ends -> Bytes]
  /\ input \in [Ends -> 0..InputRoom] /\ given \in [Ends -> Nat] /\ calls \in [Ends -> 0..MaxSends]
  /\ aborted \in [Ends -> BOOLEAN]
  /\ faults \in 0..MaxFaults

GoodEnd(e) == Good(kcp[e], kcp[Peer(e)], Carried(net[Peer(e)]), Carried(net[e]))

\* No message is longer than this.
Longest == IF Lens = {} THEN 0 ELSE Max(Lens)

KcpIInv ==
  /\ Outside
  /\ \A e \in Ends : GoodEnd(e) /\ given[e] <= calls[e] * Longest

\* The ends.
LEMMA PeersAre ==
  /\ Ends = {1, 2} /\ Peer(1) = 2 /\ Peer(2) = 1
  /\ \A e \in Ends : Peer(e) \in Ends /\ Peer(e) # e /\ Peer(Peer(e)) = e
  BY DEF Ends, Peer

\* The mode is for good.
LEMMA ModeStays ==
  ASSUME mode' = mode, NEW e \in Ends,
         NEW k, NEW p, NEW toP, NEW toK, Good(k, p, toP, toK),
         kcp'[e] = k, kcp'[Peer(e)] = p, Carried(net'[Peer(e)]) = toP, Carried(net'[e]) = toK
  PROVE  GoodEnd(e)'
<1>1. ControlBlock' = ControlBlock
  BY DEF ControlBlock, SndSeg
<1>2. End(k) /\ End(p) /\ mode \in ModeType /\ toP \subseteq SegType /\ toK \subseteq SegType
      /\ Direction(k, p, toP, toK) /\ Direction(p, k, toK, toP) /\ Moved(k) /\ Sent1(k)
  BY DEF Good, Link
<1>3. End(kcp[e])' /\ End(kcp[Peer(e)])'
  BY <1>1, <1>2 DEF End, SndInv, RcvInv, Acked, Peer
<1>4. Direction(kcp[e], kcp[Peer(e)], Carried(net[Peer(e)]), Carried(net[e]))'
      /\ Direction(kcp[Peer(e)], kcp[e], Carried(net[e]), Carried(net[Peer(e)]))'
  BY <1>2 DEF Peer
<1>5. Moved(kcp[e])' /\ Sent1(kcp[e])'
  BY <1>2
<1> QED
  BY <1>2, <1>3, <1>4, <1>5 DEF GoodEnd, Good, Link

\* One end changes, and what is on the way.
LEMMA OneEndChanges ==
  ASSUME mode' = mode, NEW e \in Ends, NEW k1, NEW toP, NEW toK,
         GoodEnd(Peer(e)), Good(k1, kcp[Peer(e)], toP, toK),
         kcp \in [Ends -> ControlBlock], kcp' = [kcp EXCEPT ![e] = k1],
         Carried(net'[Peer(e)]) \subseteq toP, Carried(net'[e]) \subseteq toK
  PROVE  kcp' \in [Ends -> ControlBlock'] /\ \A d \in Ends : GoodEnd(d)'
<1> DEFINE p == kcp[Peer(e)]
<1> DEFINE toP1 == Carried(net'[Peer(e)])
<1> DEFINE toK1 == Carried(net'[e])
<1>1. Peer(e) \in Ends /\ Peer(e) # e /\ Peer(Peer(e)) = e /\ \A d \in Ends : d = e \/ d = Peer(e)
  BY DEF Ends, Peer
<1>2. kcp'[e] = k1 /\ kcp'[Peer(e)] = p
  BY <1>1
<1>3. Good(k1, p, toP1, toK1)
  BY FewerOnTheWay DEF Good
<1>4. Good(p, k1, toK1, toP1)
  BY <1>3, LinkSymmetric DEF GoodEnd, Good
<1>5. GoodEnd(e)'
  <2> HIDE DEF p
  <2>1. PICK kk, pp, tp, tk : kk = k1 /\ pp = p /\ tp = toP1 /\ tk = toK1
    OBVIOUS
  <2>2. Good(kk, pp, tp, tk) /\ kcp'[e] = kk /\ kcp'[Peer(e)] = pp
    BY <1>2, <1>3, <2>1
  <2> QED
    BY <2>1, <2>2, ModeStays
<1>6. GoodEnd(Peer(e))'
  <2> HIDE DEF p
  <2>1. PICK f \in Ends : f = Peer(e)
    BY <1>1
  <2>2. PICK kk, pp, tp, tk : kk = k1 /\ pp = p /\ tp = toP1 /\ tk = toK1
    OBVIOUS
  <2>3. Good(pp, kk, tk, tp) /\ kcp'[f] = pp /\ kcp'[Peer(f)] = kk
    BY <1>1, <1>2, <1>4, <2>1, <2>2
  <2>4. Carried(net'[Peer(f)]) = tk /\ Carried(net'[f]) = tp
    BY <1>1, <2>1, <2>2
  <2>5. GoodEnd(f)'
    BY <2>3, <2>4, ModeStays
  <2> QED
    BY <2>1, <2>5
<1>7. kcp' \in [Ends -> ControlBlock']
  <2>1. k1 \in ControlBlock
    BY DEF Good, Link, End
  <2>2. ControlBlock' = ControlBlock
    BY DEF ControlBlock, SndSeg
  <2> QED
    BY <2>1, <2>2
<1> QED
  BY <1>1, <1>5, <1>6, <1>7

\* What datagrams carry.
LEMMA CarriedConcat ==
  ASSUME NEW a \in Datagrams(SegType), NEW b \in Datagrams(SegType)
  PROVE  Carried(a \o b) \in SUBSET (Carried(a) \cup Carried(b))
<1>1. a \in Seq(Seq(SegType)) /\ b \in Seq(Seq(SegType))
  BY DEF Datagrams
<1>2. ASSUME NEW i \in DOMAIN (a \o b)
      PROVE  (\E j \in DOMAIN a : (a \o b)[i] = a[j]) \/ \E j \in DOMAIN b : (a \o b)[i] = b[j]
  <2>1. i \in 1..Len(a) + Len(b) /\ Len(a) \in Nat /\ Len(b) \in Nat
    BY <1>1
  <2>2. CASE i <= Len(a)
    <3>1. i \in DOMAIN a /\ (a \o b)[i] = a[i]
      BY <1>1, <2>1, <2>2
    <3> QED
      BY <3>1
  <2>3. CASE i > Len(a)
    <3>1. i - Len(a) \in DOMAIN b /\ (a \o b)[i] = b[i - Len(a)]
      BY <1>1, <2>1, <2>3
    <3> QED
      BY <3>1
  <2> QED
    BY <2>1, <2>2, <2>3
<1> QED
  BY <1>2 DEF Carried

\* Datagrams that are among others.
LEMMA CarriedAmong ==
  ASSUME NEW a \in Datagrams(SegType), NEW q, Len(q) \in Nat, q \in Seq({a[i] : i \in DOMAIN a})
  PROVE  q \in Datagrams(SegType) /\ Carried(q) \in SUBSET Carried(a)
<1>1. a \in Seq(Seq(SegType)) /\ \A i \in DOMAIN a : SizeOf(a[i]) <= Mtu
  BY DEF Datagrams
<1>2. \A j \in DOMAIN q : \E i \in DOMAIN a : q[j] = a[i]
  OBVIOUS
<1>3. {a[i] : i \in DOMAIN a} \subseteq Seq(SegType)
  BY <1>1
<1>4. q \in Seq(Seq(SegType))
  BY <1>3, SeqMonotonic
<1>5. \A j \in DOMAIN q : SizeOf(q[j]) <= Mtu
  BY <1>1, <1>2
<1> QED
  BY <1>2, <1>4, <1>5 DEF Carried, Datagrams

\* The first datagram, and the others.
LEMMA CarriedHead ==
  ASSUME NEW a \in Datagrams(SegType), a # <<>>
  PROVE  /\ Head(a) \in Seq(Carried(a))
         /\ Tail(a) \in Datagrams(SegType) /\ Carried(Tail(a)) \in SUBSET Carried(a)
         /\ Len(Tail(a)) = Len(a) - 1 /\ Len(a) \in Nat
<1> DEFINE A == {a[i] : i \in DOMAIN a}
<1>1. a \in Seq(Seq(SegType))
  BY DEF Datagrams
<1>2. Len(a) \in Nat /\ Len(a) >= 1 /\ Head(a) = a[1] /\ 1 \in DOMAIN a
  BY <1>1
<1>3. Tail(a) \in Seq(A) /\ Len(Tail(a)) = Len(a) - 1
  <2>1. a \in Seq(A)
    <3>1. a \in [1..Len(a) -> A]
      BY <1>1
    <3> QED
      BY <1>2, <3>1
  <2> HIDE DEF A
  <2> QED
    BY <1>2, <2>1
<1>4. Tail(a) \in Datagrams(SegType) /\ Carried(Tail(a)) \in SUBSET Carried(a)
  <2> DEFINE q == Tail(a)
  <2>1. q \in Seq({a[i] : i \in DOMAIN a}) /\ Len(q) \in Nat
    BY <1>2, <1>3
  <2> HIDE DEF q
  <2>2. q \in Datagrams(SegType) /\ Carried(q) \in SUBSET Carried(a)
    BY <2>1, CarriedAmong, Zenon
  <2> QED
    BY <2>2 DEF q
<1>5. Head(a) \in Seq(Carried(a))
  <2> DEFINE h == a[1]
  <2>1. h \in Seq(SegType) /\ Len(h) \in Nat
    BY <1>1, <1>2
  <2>2. ToSet(h) \subseteq Carried(a)
    BY <1>2 DEF Carried
  <2>3. h \in Seq(ToSet(h))
    <3>1. h \in [1..Len(h) -> ToSet(h)]
      BY <2>1 DEF ToSet
    <3> QED
      BY <2>1, <3>1
  <2> HIDE DEF h
  <2>4. h \in Seq(Carried(a))
    BY <2>2, <2>3, SeqMonotonic
  <2> QED
    BY <1>2, <2>4 DEF h
<1> QED
  BY <1>2, <1>3, <1>4, <1>5

\* All that s has accepted, from what the user of its peer has got to its own queue,
\* and what a step does to it: nothing, or a message of bytes that s has not been given
\* before comes to its end.
WholeStream(s) == Cat(taken[Peer(s)], FlattenSeq(Chain(kcp[s], kcp[Peer(s)])))
AsStream ==
  \A s \in Ends :
    /\ given[s] <= given'[s]
    /\ \/ WholeStream(s)' = WholeStream(s)
       \/ \E m \in Messages \cap Bytes : /\ WholeStream(s)' = Cat(WholeStream(s), m)
                                        /\ \A k \in DOMAIN m : given[s] < m[k] /\ m[k] <= given'[s]
    /\ \E h \in Bytes : taken'[s] = Cat(taken[s], h)

\* A datagram or some go out.
LEMMA SentKeeps ==
  ASSUME Outside, NEW e \in Ends, NEW out \in Datagrams(SegType), Sent(e, out), Len(net'[Peer(e)]) <= NetCap[Peer(e)]
  PROVE  /\ net' \in [Ends -> Datagrams(SegType)] /\ \A d \in Ends : Len(net'[d]) <= NetCap[d]
         /\ Carried(net'[Peer(e)]) \subseteq Carried(net[Peer(e)]) \cup Carried(out)
         /\ Carried(net'[e]) \subseteq Carried(net[e])
<1>1. Peer(e) \in Ends /\ Peer(e) # e /\ \A d \in Ends : d = e \/ d = Peer(e)
  BY DEF Ends, Peer
<1> DEFINE p == Peer(e)
<1>2. net \in [Ends -> Datagrams(SegType)] /\ \A d \in Ends : Len(net[d]) <= NetCap[d]
  BY DEF Outside
<1> DEFINE q == net[p] \o out
<1>3. net' = [net EXCEPT ![p] = q]
  BY DEF Sent
<1>4. q \in Datagrams(SegType) /\ Carried(q) \subseteq Carried(net[p]) \cup Carried(out)
  BY <1>1, <1>2, DatagramsConcat, CarriedConcat
<1> HIDE DEF q, p
<1>5. net'[p] = q /\ net'[e] = net[e] /\ net' \in [Ends -> Datagrams(SegType)]
  BY <1>1, <1>2, <1>3, <1>4 DEF p
<1> QED
  BY <1>1, <1>2, <1>4, <1>5 DEF p

\* The chains stay as they are.
LEMMA ChainsStay ==
  ASSUME NEW e \in Ends, NEW k1, NEW S, kcp \in [Ends -> S], kcp' = [kcp EXCEPT ![e] = k1],
         taken' = taken, taken \in [Ends -> Bytes],
         \A d \in Ends : given[d] <= given'[d],
         Kept(kcp[e], k1, kcp[Peer(e)])
  PROVE  AsStream
<1>1. Peer(e) \in Ends /\ Peer(e) # e /\ Peer(Peer(e)) = e /\ \A d \in Ends : d = e \/ d = Peer(e)
  BY DEF Ends, Peer
<1>2. kcp'[e] = k1 /\ kcp'[Peer(e)] = kcp[Peer(e)]
  BY <1>1
<1>3. ASSUME NEW s \in Ends PROVE WholeStream(s)' = WholeStream(s)
  <2>1. CASE s = e
    <3>1. Chain(kcp'[s], kcp'[Peer(s)]) = Chain(kcp[s], kcp[Peer(s)])
      BY <1>2, <2>1 DEF Kept
    <3> QED
      BY <3>1 DEF WholeStream, Peer
  <2>2. CASE s = Peer(e)
    <3>1. Chain(kcp'[s], kcp'[Peer(s)]) = Chain(kcp[s], kcp[Peer(s)])
      BY <1>1, <1>2, <2>2 DEF Kept
    <3> QED
      BY <3>1 DEF WholeStream, Peer
  <2> QED
    BY <1>1, <2>1, <2>2
<1>4. \A s \in Ends : <<>> \in Bytes /\ taken'[s] = Cat(taken[s], <<>>)
  BY CatBytes
<1> QED
  BY <1>3, <1>4 DEF AsStream

\* The update timer.
LEMMA TimerStep ==
  ASSUME KcpIInv, NEW e \in Ends, TimerExpires(e)
  PROVE  KcpIInv' /\ AsStream
<1>1. PICK overdue, probeDue, due : KcpUpdateManual(e, overdue, probeDue, due)
  BY DEF TimerExpires
<1>2. PICK u \in IkcpUpdate(kcp[e], due, overdue, probeDue) :
        /\ kcp' = [kcp EXCEPT ![e] = u.kcp] /\ Sent(e, u.out) /\ Len(net'[Peer(e)]) <= NetCap[Peer(e)]
  BY <1>1 DEF KcpUpdateManual
<1>3. UNCHANGED <<mode, output, input, faults, calls, given, taken, aborted>>
  BY <1>1 DEF KcpUpdateManual
<1>4. Peer(e) \in Ends /\ Outside /\ GoodEnd(e) /\ GoodEnd(Peer(e)) /\ kcp \in [Ends -> ControlBlock]
      /\ taken \in [Ends -> Bytes] /\ \A d \in Ends : given[d] <= given[d]
  BY PeersAre DEF KcpIInv, Outside
<1> DEFINE toP == Carried(net[Peer(e)])
<1> DEFINE toK == Carried(net[e])
<1>5. Turn(kcp[e], u, kcp[Peer(e)], toP, toK)
  BY <1>2, <1>4, IkcpUpdateKeeps DEF GoodEnd
<1>6. /\ net' \in [Ends -> Datagrams(SegType)] /\ \A d \in Ends : Len(net'[d]) <= NetCap[d]
      /\ Carried(net'[Peer(e)]) \subseteq toP \cup Carried(u.out)
      /\ Carried(net'[e]) \subseteq toK
  BY <1>2, <1>4, <1>5, SentKeeps DEF Turn
<1>7. kcp' \in [Ends -> ControlBlock'] /\ \A d \in Ends : GoodEnd(d)'
  <2>1. mode' = mode
    BY <1>3
  <2>2. Good(u.kcp, kcp[Peer(e)], toP \cup Carried(u.out), toK)
    BY <1>5 DEF Turn
  <2> QED
    BY <1>2, <1>4, <1>6, <2>1, <2>2, OneEndChanges
<1>8. Outside'
  BY <1>2, <1>3, <1>4, <1>6, <1>7 DEF Outside
<1>9. AsStream
  BY <1>2, <1>3, <1>4, <1>5, ChainsStay DEF Turn
<1> QED
  BY <1>3, <1>7, <1>8, <1>9 DEF KcpIInv, Longest

\* The network.
LEMMA FaultStep ==
  ASSUME KcpIInv, NEW e \in Ends, Lose(e) \/ Double(e) \/ Overtake(e)
  PROVE  KcpIInv' /\ AsStream
<1> DEFINE a == net[e]
<1>1. Outside /\ GoodEnd(e) /\ GoodEnd(Peer(e)) /\ Peer(e) \in Ends /\ Peer(e) # e /\ kcp \in [Ends -> ControlBlock]
  BY PeersAre DEF KcpIInv, Outside
<1>2. a \in Datagrams(SegType) /\ a \in Seq(Seq(SegType)) /\ Len(a) \in Nat
  BY <1>1 DEF Outside, Datagrams
<1>3. PICK q : Fault(e, q) /\ q \in Seq({a[i] : i \in DOMAIN a}) /\ Len(q) \in Nat
  <2> DEFINE A == {a[i] : i \in DOMAIN a}
  <2>1. a \in Seq(A)
    <3>1. a \in [1..Len(a) -> A]
      BY <1>2
    <3>2. Len(a) \in Nat
      BY <1>2
    <3> HIDE DEF A, a
    <3> QED
      BY <3>1, <3>2
  <2>2. a # <<>> => a[1] \in A /\ Head(a) = a[1]
    BY <1>2
  <2>3. Len(a) >= 2 => a[2] \in A
    BY <1>2
  <2>4. a # <<>>
    BY <1>2 DEF Lose, Double, Overtake, Fault
  <2>8. SUFFICES \E q : Fault(e, q) /\ q \in Seq(A)
    <3> HIDE DEF A
    <3>1. \A q \in Seq(A) : Len(q) \in Nat
      OBVIOUS
    <3> QED
      BY <3>1 DEF A
  <2> HIDE DEF A, a
  <2>5. CASE Lose(e)
    <3>1. PICK q : q = Tail(a)
      OBVIOUS
    <3>2. Fault(e, q) /\ q \in Seq(A)
      BY <2>1, <2>4, <2>5, <3>1 DEF Lose, a
    <3> QED
      BY <3>2
  <2>6. CASE Double(e)
    <3>1. PICK q : q = <<Head(a)>> \o a
      OBVIOUS
    <3>4. Fault(e, q)
      BY <2>6, <3>1 DEF Double, a
    <3>2. <<Head(a)>> \in Seq(A)
      BY <2>2, <2>4
    <3>3. q \in Seq(A)
      BY <2>1, <3>1, <3>2
    <3> QED
      BY <3>3, <3>4
  <2>7. CASE Overtake(e)
    <3>1. PICK q : q = <<a[2], a[1]>> \o SubSeq(a, 3, Len(a))
      OBVIOUS
    <3>5. Fault(e, q) /\ Len(a) >= 2
      BY <2>7, <3>1 DEF Overtake, a
    <3>2. <<a[2], a[1]>> \in Seq(A)
      BY <2>2, <2>3, <2>4, <3>5
    <3>3. SubSeq(a, 3, Len(a)) \in Seq(A)
      BY <2>1, <3>5
    <3>4. q \in Seq(A)
      BY <3>1, <3>2, <3>3
    <3> QED
      BY <3>4, <3>5
  <2> QED
    BY <2>5, <2>6, <2>7
<1>4. q \in Datagrams(SegType) /\ Carried(q) \in SUBSET Carried(a)
  <2> HIDE DEF a
  <2> QED
    BY <1>2, <1>3, CarriedAmong, Zenon
<1>5. /\ faults < MaxFaults /\ Len(q) <= NetCap[e] /\ net' = [net EXCEPT ![e] = q] /\ faults' = faults + 1
      /\ UNCHANGED <<mode, kcp, output, input, calls, given, taken, aborted>>
  BY <1>3 DEF Fault
<1>6. net'[e] = q /\ net'[Peer(e)] = net[Peer(e)] /\ net' \in [Ends -> Datagrams(SegType)]
      /\ \A d \in Ends : Len(net'[d]) <= NetCap[d]
  BY <1>1, <1>4, <1>5 DEF Outside
<1>7. kcp' = [kcp EXCEPT ![e] = kcp[e]] /\ mode' = mode /\ taken' = taken /\ taken \in [Ends -> Bytes]
  <2>1. kcp' = kcp /\ mode' = mode /\ taken' = taken
    BY <1>5
  <2>2. taken \in [Ends -> Bytes] /\ kcp \in [Ends -> ControlBlock]
    BY <1>1 DEF Outside, GoodEnd
  <2> QED
    BY <2>1, <2>2
<1>8. kcp' \in [Ends -> ControlBlock'] /\ \A d \in Ends : GoodEnd(d)'
  <2>1. Good(kcp[e], kcp[Peer(e)], Carried(net[Peer(e)]), Carried(a))
    BY <1>1 DEF GoodEnd
  <2>2. Carried(net'[Peer(e)]) \subseteq Carried(net[Peer(e)]) /\ Carried(net'[e]) \subseteq Carried(a)
    BY <1>4, <1>6
  <2> QED
    BY <1>1, <1>7, <2>1, <2>2, OneEndChanges
<1>9. Outside'
  BY <1>1, <1>5, <1>6, <1>8, Constants DEF Outside
<1>10. AsStream
  <2>1. Kept(kcp[e], kcp[e], kcp[Peer(e)])
    BY DEF Kept
  <2>2. \A d \in Ends : given[d] <= given'[d]
    BY <1>5 DEF KcpIInv, Outside
  <2> QED
    BY <1>1, <1>7, <2>1, <2>2, ChainsStay
<1> QED
  BY <1>5, <1>8, <1>9, <1>10 DEF KcpIInv, Longest

\* A message of any length that send() may get.
LEMMA MessageIs ==
  ASSUME KcpIInv, NEW e \in Ends, calls[e] < MaxSends, NEW len \in Lens
  PROVE  /\ [i \in 1..len |-> given[e] + i] \in Bytes
         /\ [i \in 1..len |-> given[e] + i] \in Messages
         /\ given[e] + len <= (calls[e] + 1) * Longest
         /\ given[e] \in Nat /\ calls[e] \in Nat /\ len \in Nat
         /\ \A k \in DOMAIN [i \in 1..len |-> given[e] + i] :
              LET byte == [i \in 1..len |-> given[e] + i][k]
              IN given[e] < byte /\ byte <= given[e] + len
<1> DEFINE g == given[e]
<1> DEFINE c == calls[e]
<1> DEFINE L == Longest
<1>1. g \in Nat /\ c \in Nat /\ c < MaxSends /\ g <= c * L /\ MaxSends \in Nat /\ len \in Nat
  BY Constants DEF KcpIInv, Outside
<1>2. L = Max(Lens) /\ L \in Nat /\ len <= L
  <2>1. Lens # {} /\ Lens \in SUBSET Nat /\ IsFiniteSet(Lens)
    BY Constants
  <2>2. Max(Lens) \in Lens /\ \A y \in Lens : Max(Lens) >= y
    BY <2>1, MaxOf
  <2>3. L = Max(Lens)
    BY <2>1 DEF Longest
  <2> HIDE DEF L
  <2> QED
    BY <2>1, <2>2, <2>3
<1>3. [i \in 1..len |-> g + i] \in Bytes
  <2>1. [i \in 1..len |-> g + i] \in [1..len -> Nats]
    BY <1>1 DEF Nats
  <2> QED
    BY <1>1, <2>1 DEF Bytes
<1> HIDE DEF g, c, L
<1>4. c * L <= MaxSends * L /\ (c + 1) * L = c * L + L
  <2>1. PICK d \in Nat : MaxSends = c + d
    <3>1. MaxSends - c \in Nat /\ MaxSends = c + (MaxSends - c)
      BY <1>1
    <3> QED
      BY <3>1
  <2>2. (c + d) * L = c * L + d * L
    BY <1>1, <1>2
  <2>3. d * L \in Nat /\ c * L \in Nat
    BY <1>1, <1>2
  <2>4. (c + 1) * L = c * L + L
    BY <1>1, <1>2
  <2> QED
    BY <2>1, <2>2, <2>3, <2>4
<1>5. g \in 0..MaxSends * Max(Lens)
  BY <1>1, <1>2, <1>4
<1>6. [i \in 1..len |-> g + i] \in Messages
  BY <1>5 DEF Messages
<1>7. g + len <= (c + 1) * L
  <2>1. c * L \in Nat
    BY <1>1, <1>2
  <2> QED
    BY <1>1, <1>2, <1>4, <2>1
<1>8. \A k \in DOMAIN [i \in 1..len |-> g + i] :
        g < [i \in 1..len |-> g + i][k] /\ [i \in 1..len |-> g + i][k] <= g + len
  BY <1>1
<1> QED
  BY <1>1, <1>3, <1>6, <1>7, <1>8 DEF g, c, L

\* send() of a user: the message waits, is refused, or comes to the end of the chain.
LEMMA SendStep ==
  ASSUME KcpIInv, NEW e \in Ends, Send(e)
  PROVE  KcpIInv' /\ AsStream
<1>1. PICK len \in Lens : SendInLoop(e, len)
  BY DEF Send
<1> DEFINE bytes == [i \in 1..len |-> given[e] + i]
<1> DEFINE r == IkcpSend(kcp[e], bytes)
<1> DEFINE hold == Len(output[e]) + WaitSnd(kcp[e]) + len >= Threshold
<1> DEFINE p == kcp[Peer(e)]
<1> DEFINE toP == Carried(net[Peer(e)])
<1> DEFINE toK == Carried(net[e])
<1>2. /\ calls[e] < MaxSends
      /\ calls' = [calls EXCEPT ![e] = @ + 1]
      /\ given' = [given EXCEPT ![e] = @ + len]
      /\ output' = IF hold THEN [output EXCEPT ![e] = @ \o bytes] ELSE output
      /\ aborted' = [aborted EXCEPT ![e] = ~hold /\ ~r.ok]
      /\ IF hold \/ ~r.ok THEN UNCHANGED <<kcp, net>>
         ELSE \E overdue \in SUBSET Sns(kcp[e].snd_buf) : \E probeDue \in ProbeDue(kcp[e]) :
                \E f \in IkcpUpdate(r.kcp, TRUE, overdue, probeDue) :
                   /\ kcp' = [kcp EXCEPT ![e] = f.kcp]
                   /\ Sent(e, f.out)
                   /\ Len(net'[Peer(e)]) <= NetCap[Peer(e)]
      /\ UNCHANGED <<mode, input, faults, taken>>
  BY <1>1 DEF SendInLoop
<1>3. /\ Outside /\ GoodEnd(e) /\ GoodEnd(Peer(e)) /\ Peer(e) \in Ends /\ Peer(e) # e
      /\ kcp \in [Ends -> ControlBlock] /\ taken \in [Ends -> Bytes] /\ Peer(Peer(e)) = e
      /\ \A d \in Ends : d = e \/ d = Peer(e)
      /\ \A d \in Ends : given[d] <= calls[d] * Longest
  BY PeersAre DEF KcpIInv, Outside, Ends, Peer
<1>4. /\ bytes \in Bytes /\ bytes \in Messages
      /\ given[e] + len <= (calls[e] + 1) * Longest
      /\ given[e] \in Nat /\ calls[e] \in Nat /\ len \in Nat
      /\ \A k \in DOMAIN bytes : given[e] < bytes[k] /\ bytes[k] <= given[e] + len
  BY <1>2, MessageIs
<1> HIDE DEF bytes
<1>5. /\ calls' \in [Ends -> 0..MaxSends] /\ given' \in [Ends -> Nat]
      /\ output' \in [Ends -> Bytes] /\ aborted' \in [Ends -> BOOLEAN]
      /\ \A d \in Ends : given'[d] <= calls'[d] * Longest
      /\ given'[e] = given[e] + len /\ \A d \in Ends : given[d] <= given'[d]
  <2>1. calls \in [Ends -> 0..MaxSends] /\ given \in [Ends -> Nat] /\ output \in [Ends -> Bytes] /\ aborted \in [Ends -> BOOLEAN]
    BY <1>3 DEF Outside
  <2>2. calls[e] + 1 \in 0..MaxSends /\ given[e] + len \in Nat
    BY <1>2, <1>4, Constants
  <2>3. output[e] \o bytes \in Bytes
    BY <1>4, <2>1, BytesConcat
  <2>4. calls' \in [Ends -> 0..MaxSends] /\ given' \in [Ends -> Nat]
    BY <1>2, <2>1, <2>2
  <2>5. output' \in [Ends -> Bytes]
    <3> DEFINE o == output[e] \o bytes
    <3>1. output' = [output EXCEPT ![e] = o] \/ output' = output
      BY <1>2
    <3>2. o \in Bytes
      BY <2>3
    <3> HIDE DEF o
    <3> QED
      BY <2>1, <3>1, <3>2
  <2>6. aborted' \in [Ends -> BOOLEAN]
    <3>1. (~hold /\ ~r.ok) \in BOOLEAN
      BY Zenon
    <3> DEFINE a == ~hold /\ ~r.ok
    <3>2. aborted' = [aborted EXCEPT ![e] = a] /\ a \in BOOLEAN
      BY <1>2, <3>1
    <3> HIDE DEF a
    <3> QED
      BY <2>1, <3>2
  <2>7. \A d \in Ends : given'[d] <= calls'[d] * Longest
    <3>1. given'[e] = given[e] + len /\ calls'[e] = calls[e] + 1
      BY <1>2, <2>1
    <3>2. given'[Peer(e)] = given[Peer(e)] /\ calls'[Peer(e)] = calls[Peer(e)]
      BY <1>2, <1>3, <2>1
    <3> QED
      BY <1>3, <1>4, <3>1, <3>2
  <2>8. given'[e] = given[e] + len /\ \A d \in Ends : given[d] <= given'[d]
    BY <1>2, <1>3, <1>4, <2>1
  <2> QED
    BY <2>4, <2>5, <2>6, <2>7, <2>8
<1>6. CASE hold \/ ~r.ok
  <2>1. kcp' = kcp /\ net' = net /\ UNCHANGED <<mode, input, faults, taken>>
    BY <1>2, <1>6
  <2>2. kcp' = [kcp EXCEPT ![e] = kcp[e]]
    BY <1>3, <2>1
  <2>3. kcp' \in [Ends -> ControlBlock'] /\ \A d \in Ends : GoodEnd(d)'
    <3>1. Good(kcp[e], kcp[Peer(e)], toP, toK)
      BY <1>3 DEF GoodEnd
    <3>2. Carried(net'[Peer(e)]) \subseteq toP /\ Carried(net'[e]) \subseteq toK /\ mode' = mode
      BY <2>1
    <3> QED
      BY <1>3, <2>2, <3>1, <3>2, OneEndChanges
  <2>4. AsStream
    <3>1. Kept(kcp[e], kcp[e], kcp[Peer(e)]) /\ taken' = taken
      BY <2>1 DEF Kept
    <3> QED
      BY <1>3, <1>5, <2>2, <3>1, ChainsStay
  <2>5. Outside'
    BY <1>3, <1>5, <2>1, <2>3 DEF Outside
  <2> QED
    BY <1>5, <2>3, <2>4, <2>5 DEF KcpIInv, Longest
<1>7. CASE ~hold /\ r.ok
  <2>1. PICK overdue, probeDue, f :
          /\ f \in IkcpUpdate(r.kcp, TRUE, overdue, probeDue)
          /\ kcp' = [kcp EXCEPT ![e] = f.kcp] /\ Sent(e, f.out) /\ Len(net'[Peer(e)]) <= NetCap[Peer(e)]
    <3> HIDE DEF hold
    <3> QED
      BY <1>2, <1>7, Zenon
  <2>2. Good(kcp[e], p, toP, toK)
    BY <1>3 DEF GoodEnd
  <2>3. /\ Good(r.kcp, p, toP, toK)
        /\ FlattenSeq(Chain(r.kcp, p)) = Cat(FlattenSeq(Chain(kcp[e], p)), bytes)
        /\ Chain(p, r.kcp) = Chain(p, kcp[e])
    BY <1>4, <1>7, <2>2, SendKeeps
  <2> HIDE DEF r, p, toP, toK, hold
  <2>4. Turn(r.kcp, f, p, toP, toK)
    BY <2>1, <2>3, IkcpUpdateKeeps
  <2>5. /\ net' \in [Ends -> Datagrams(SegType)] /\ \A d \in Ends : Len(net'[d]) <= NetCap[d]
        /\ Carried(net'[Peer(e)]) \subseteq toP \cup Carried(f.out)
        /\ Carried(net'[e]) \subseteq toK
    BY <1>3, <2>1, <2>4, SentKeeps DEF Turn, toP, toK
  <2>6. kcp' \in [Ends -> ControlBlock'] /\ \A d \in Ends : GoodEnd(d)'
    <3>1. mode' = mode
      BY <1>2
    <3>2. Good(f.kcp, p, toP \cup Carried(f.out), toK)
      BY <2>4 DEF Turn
    <3> QED
      BY <1>3, <2>1, <2>5, <3>1, <3>2, OneEndChanges DEF p
  <2>7. Outside'
    BY <1>2, <1>3, <1>5, <2>5, <2>6 DEF Outside
  <2>8. AsStream
    <3>1. kcp'[e] = f.kcp /\ kcp'[Peer(e)] = p /\ taken' = taken
      BY <1>2, <1>3, <2>1 DEF p
    <3>2. WholeStream(e)' = Cat(WholeStream(e), bytes)
      <4> DEFINE t == taken[Peer(e)]
      <4> DEFINE s == FlattenSeq(Chain(kcp[e], p))
      <4>1. t \in Bytes /\ s \in Bytes /\ WholeStream(e) = Cat(t, s)
        BY <1>3, <2>2, ChainBytes DEF Good, WholeStream, p
      <4>2. FlattenSeq(Chain(kcp'[e], kcp'[Peer(e)])) = Cat(s, bytes)
        BY <2>3, <2>4, <3>1 DEF Turn, Kept
      <4>3. WholeStream(e)' = Cat(t, Cat(s, bytes))
        BY <3>1, <4>2 DEF WholeStream, Peer
      <4> HIDE DEF t, s
      <4>4. Cat(t, Cat(s, bytes)) = Cat(Cat(t, s), bytes)
        BY <1>4, <4>1, CatBytes
      <4> QED
        BY <4>1, <4>3, <4>4
    <3>3. WholeStream(Peer(e))' = WholeStream(Peer(e))
      <4>1. Chain(p, f.kcp) = Chain(p, kcp[e])
        BY <2>3, <2>4 DEF Turn, Kept
      <4> QED
        BY <1>3, <3>1, <4>1 DEF WholeStream, Peer, p
    <3>4. \A s \in Ends : <<>> \in Bytes /\ taken'[s] = Cat(taken[s], <<>>)
      BY <1>3, <3>1, CatBytes
    <3>5. ASSUME NEW s \in Ends
          PROVE  \/ WholeStream(s)' = WholeStream(s)
                 \/ \E m \in Messages \cap Bytes :
                      /\ WholeStream(s)' = Cat(WholeStream(s), m)
                      /\ \A k \in DOMAIN m : given[s] < m[k] /\ m[k] <= given'[s]
      <4>1. CASE s = e
        BY <1>4, <1>5, <3>2, <4>1
      <4>2. CASE s = Peer(e)
        BY <3>3, <4>2
      <4> QED
        BY <1>3, <4>1, <4>2
    <3> QED
      BY <1>5, <3>4, <3>5 DEF AsStream
  <2> QED
    BY <1>5, <2>6, <2>7, <2>8 DEF KcpIInv, Longest
<1> QED
  BY <1>6, <1>7

\* A datagram comes in, and the user may get the first segment of the chain.
LEMMA DeliverStep ==
  ASSUME KcpIInv, NEW e \in Ends, Deliver(e)
  PROVE  KcpIInv' /\ AsStream
<1> DEFINE p == kcp[Peer(e)]
<1> DEFINE d == Head(net[e])
<1> DEFINE toP == Carried(net[Peer(e)])
<1> DEFINE toK == Carried(net[e])
<1>1. /\ net[e] # <<>> /\ HandleKcpMessage(e, d) /\ Len(net'[Peer(e)]) <= NetCap[Peer(e)]
      /\ UNCHANGED <<mode, output, faults, calls, given, aborted>>
  BY DEF Deliver
<1>2. /\ Outside /\ GoodEnd(e) /\ GoodEnd(Peer(e)) /\ Peer(e) \in Ends /\ Peer(e) # e
      /\ kcp \in [Ends -> ControlBlock] /\ taken \in [Ends -> Bytes] /\ Peer(Peer(e)) = e
      /\ \A s \in Ends : s = e \/ s = Peer(e)
      /\ net \in [Ends -> Datagrams(SegType)] /\ \A s \in Ends : Len(net[s]) <= NetCap[s]
  BY PeersAre DEF KcpIInv, Outside, Ends, Peer
<1> DEFINE Rest(u) ==
      IF CanRecv(e, u.kcp)
      THEN LET bytes == Head(u.kcp.rcv_queue)
           IN /\ kcp' = [kcp EXCEPT ![e] = Recv(u.kcp)]
              /\ taken' = [taken EXCEPT ![e] = @ \o bytes]
              /\ \E all \in BOOLEAN : input' = [input EXCEPT ![e] = IF all THEN 0 ELSE @ + Len(bytes)]
              /\ net' = [net EXCEPT ![e] = Tail(@), ![Peer(e)] = @ \o u.out]
      ELSE /\ kcp' = [kcp EXCEPT ![e] = u.kcp]
           /\ net' = [net EXCEPT ![e] = Tail(@), ![Peer(e)] = @ \o u.out]
           /\ UNCHANGED <<taken, input>>
<1>3. PICK k1, due, probeDue, overdue, u :
        k1 \in Input(kcp[e], d) /\ u \in IkcpUpdate(k1, due, overdue, probeDue) /\ Rest(u)
  <2>1. \E k1 \in Input(kcp[e], d) : \E due \in BOOLEAN, probeDue \in ProbeDue(k1) :
          \E overdue \in SUBSET Sns(k1.snd_buf) : \E u \in IkcpUpdate(k1, due, overdue, probeDue) : Rest(u)
    BY <1>1 DEF HandleKcpMessage
  <2> HIDE DEF Rest, d
  <2> QED
    BY <2>1, Zenon
<1>4. /\ d \in Seq(toK) /\ Tail(net[e]) \in Datagrams(SegType) /\ Carried(Tail(net[e])) \subseteq toK
      /\ Len(Tail(net[e])) = Len(net[e]) - 1 /\ Len(net[e]) \in Nat
  BY <1>1, <1>2, CarriedHead
<1>5. Onward(kcp[e], k1, p, toP, toK)
  BY <1>2, <1>3, <1>4, InputKeeps DEF GoodEnd
<1>6. Turn(k1, u, p, toP, toK)
  BY <1>3, <1>5, IkcpUpdateKeeps DEF Onward
<1> DEFINE toP1 == toP \cup Carried(u.out)
<1>7. Good(u.kcp, p, toP1, toK) /\ Kept(kcp[e], u.kcp, p) /\ u.out \in Datagrams(SegType)
  BY <1>5, <1>6 DEF Turn, Onward, Kept
<1>8. net' = [net EXCEPT ![e] = Tail(net[e]), ![Peer(e)] = net[Peer(e)] \o u.out]
  BY <1>2, <1>3
<1>9. /\ net' \in [Ends -> Datagrams(SegType)] /\ \A s \in Ends : Len(net'[s]) <= NetCap[s]
      /\ Carried(net'[Peer(e)]) \subseteq toP1 /\ Carried(net'[e]) \subseteq toK
  <2> DEFINE a == Tail(net[e])
  <2> DEFINE b == net[Peer(e)] \o u.out
  <2>1. b \in Datagrams(SegType) /\ Carried(b) \subseteq toP1
    BY <1>2, <1>7, DatagramsConcat, CarriedConcat
  <2>2. net' = [net EXCEPT ![e] = a, ![Peer(e)] = b] /\ a \in Datagrams(SegType) /\ Carried(a) \subseteq toK
    BY <1>4, <1>8
  <2>3. Len(a) <= NetCap[e]
    BY <1>2, <1>4, Constants
  <2> HIDE DEF a, b
  <2>4. net'[e] = a /\ net'[Peer(e)] = b /\ net' \in [Ends -> Datagrams(SegType)]
    BY <1>2, <2>1, <2>2
  <2> QED
    BY <1>1, <1>2, <2>1, <2>2, <2>3, <2>4
<1>10. mode' = mode
  BY <1>1
<1>11. CASE CanRecv(e, u.kcp)
  <2> DEFINE h == Head(u.kcp.rcv_queue)
  <2> DEFINE k2 == Recv(u.kcp)
  <2>1. /\ kcp' = [kcp EXCEPT ![e] = k2] /\ taken' = [taken EXCEPT ![e] = @ \o h]
        /\ \E all \in BOOLEAN : input' = [input EXCEPT ![e] = IF all THEN 0 ELSE @ + Len(h)]
    BY <1>3, <1>11
  <2>2. u.kcp.rcv_queue # <<>> /\ Len(h) <= InputRoom - input[e]
    BY <1>11 DEF CanRecv
  <2>3. /\ Good(k2, p, toP1, toK) /\ h \in Bytes
        /\ FlattenSeq(Chain(p, u.kcp)) = Cat(h, FlattenSeq(Chain(p, k2)))
        /\ Chain(k2, p) = Chain(u.kcp, p)
    BY <1>7, <2>2, RecvKeeps
  <2> HIDE DEF h, k2, toP1, toK
  <2>4. kcp' \in [Ends -> ControlBlock'] /\ \A s \in Ends : GoodEnd(s)'
    BY <1>2, <1>9, <1>10, <2>1, <2>3, OneEndChanges
  <2>5. taken' \in [Ends -> Bytes] /\ taken'[Peer(e)] = taken[Peer(e)] /\ taken'[e] = Cat(taken[e], h)
    <3>1. taken[e] \o h \in Bytes
      BY <1>2, <2>3, BytesConcat
    <3> QED
      BY <1>2, <2>1, <3>1 DEF Cat
  <2>6. input' \in [Ends -> 0..InputRoom]
    <3>1. input \in [Ends -> 0..InputRoom] /\ InputRoom \in Nat /\ Len(h) \in Nat
      BY <1>2, <2>3, Constants DEF Outside, Bytes
    <3>2. input[e] + Len(h) \in 0..InputRoom
      BY <2>2, <3>1
    <3> QED
      BY <2>1, <3>1, <3>2
  <2>7. Outside'
    BY <1>1, <1>2, <1>9, <2>4, <2>5, <2>6 DEF Outside
  <2>8. AsStream
    <3>1. kcp'[e] = k2 /\ kcp'[Peer(e)] = p
      BY <1>2, <2>1
    <3>2. WholeStream(e)' = WholeStream(e)
      <4>1. Chain(kcp'[e], kcp'[Peer(e)]) = Chain(kcp[e], p)
        BY <1>7, <2>3, <3>1 DEF Kept
      <4> QED
        BY <2>5, <4>1 DEF WholeStream, Peer
    <3>3. WholeStream(Peer(e))' = WholeStream(Peer(e))
      <4> DEFINE t == taken[e]
      <4> DEFINE s == FlattenSeq(Chain(p, k2))
      <4>1. Link(p, k2, toK, toP1)
        BY <2>3, LinkSymmetric DEF Good
      <4>2. t \in Bytes /\ s \in Bytes
        BY <1>2, <4>1, ChainBytes
      <4>3. FlattenSeq(Chain(p, kcp[e])) = Cat(h, s)
        BY <1>7, <2>3 DEF Kept
      <4>4. WholeStream(Peer(e)) = Cat(t, Cat(h, s))
        BY <1>2, <4>3 DEF WholeStream
      <4>5. WholeStream(Peer(e))' = Cat(Cat(t, h), s)
        <5>1. WholeStream(Peer(e))' = Cat(taken'[e], FlattenSeq(Chain(kcp'[Peer(e)], kcp'[e])))
          BY <1>2 DEF WholeStream, Peer
        <5> QED
          BY <2>5, <3>1, <5>1
      <4> HIDE DEF t, s
      <4>6. Cat(Cat(t, h), s) = Cat(t, Cat(h, s))
        BY <2>3, <4>2, CatBytes
      <4> QED
        BY <4>4, <4>5, <4>6
    <3>4. ASSUME NEW s \in Ends PROVE \E x \in Bytes : taken'[s] = Cat(taken[s], x)
      <4>1. CASE s = e
        BY <2>3, <2>5, <4>1
      <4>2. CASE s = Peer(e)
        <5>1. taken'[s] = taken[s] /\ taken[s] \in Bytes
          BY <1>2, <2>5, <4>2
        <5> QED
          BY <5>1, CatBytes
      <4> QED
        BY <1>2, <4>1, <4>2
    <3>5. \A s \in Ends : given[s] <= given'[s]
      BY <1>1, <1>2 DEF Outside
    <3> QED
      BY <1>2, <3>2, <3>3, <3>4, <3>5 DEF AsStream
  <2> QED
    BY <1>1, <2>4, <2>7, <2>8 DEF KcpIInv, Longest
<1>12. CASE ~CanRecv(e, u.kcp)
  <2>1. kcp' = [kcp EXCEPT ![e] = u.kcp] /\ taken' = taken /\ input' = input
    BY <1>3, <1>12
  <2> HIDE DEF toP1, toK
  <2>2. kcp' \in [Ends -> ControlBlock'] /\ \A s \in Ends : GoodEnd(s)'
    BY <1>2, <1>7, <1>9, <1>10, <2>1, OneEndChanges
  <2>3. Outside'
    BY <1>1, <1>2, <1>9, <2>1, <2>2 DEF Outside
  <2>4. AsStream
    <3>1. \A s \in Ends : given[s] <= given'[s]
      BY <1>1, <1>2 DEF Outside
    <3> QED
      BY <1>2, <1>7, <2>1, <3>1, ChainsStay
  <2> QED
    BY <1>1, <2>2, <2>3, <2>4 DEF KcpIInv, Longest
<1> QED
  BY <1>11, <1>12

------------------------------------------------------------------------------
(* The theorems.                                                              *)

\* A new control block.
LEMMA NewIsGood ==
  ASSUME mode \in ModeType
  PROVE  New \in ControlBlock /\ Good(New, New, {}, {})
<1>1. New \in ControlBlock
  BY Constants DEF New, ControlBlock
<1>2. /\ New.snd_una = 0 /\ New.snd_nxt = 0 /\ New.rcv_nxt = 0 /\ New.acklist = <<>>
      /\ New.snd_buf = {} /\ New.rcv_buf = {} /\ New.rcv_queue = <<>>
  BY DEF New
<1>3. mode.sndWnd \in Nat /\ RcvWnd \in Nat
  BY Constants DEF ModeType, Nats
<1> HIDE DEF New
<1>4. End(New)
  BY <1>1, <1>2, <1>3 DEF End, SndInv, RcvInv, Acked, OneEach
<1>5. Agree(New, New)
  BY <1>2 DEF Agree
<1>6. Moved(New) /\ Sent1(New)
  BY <1>2 DEF Moved, Sent1
<1> QED
  BY <1>1, <1>4, <1>5, <1>6 DEF Good, Link, Direction

\* The invariant holds at the start.
LEMMA KcpStarts ==
  ASSUME KcpInit
  PROVE  KcpIInv
<1>1. mode \in Modes /\ mode \in ModeType
  BY Constants DEF KcpInit
<1>2. New \in ControlBlock /\ Good(New, New, {}, {})
  BY <1>1, NewIsGood
<1>3. Carried(<<>>) = {} /\ <<>> \in Datagrams(SegType) /\ <<>> \in Bytes /\ Len(<<>>) = 0
  BY CatBytes DEF Carried, Datagrams
<1>4. \A e \in Ends : GoodEnd(e)
  BY <1>2, <1>3, PeersAre DEF KcpInit, GoodEnd
<1>5. Outside
  BY <1>1, <1>2, <1>3, Constants DEF KcpInit, Outside
<1>6. Longest \in Nat
  <2>1. Lens \in SUBSET Nat /\ IsFiniteSet(Lens)
    BY Constants
  <2>2. Lens # {} => Max(Lens) \in Lens
    BY <2>1, MaxOf
  <2> QED
    BY <2>1, <2>2 DEF Longest
<1>7. \A e \in Ends : given[e] <= calls[e] * Longest
  BY <1>6 DEF KcpInit
<1> QED
  BY <1>4, <1>5, <1>7 DEF KcpIInv

\* Every step keeps it, and changes what has been accepted as a stream may.
LEMMA KcpSteps ==
  ASSUME KcpIInv, [KcpNext]_kcpVars
  PROVE  KcpIInv' /\ AsStream
<1>1. CASE KcpNext
  BY <1>1, SendStep, TimerStep, DeliverStep, FaultStep DEF KcpNext
<1>2. CASE UNCHANGED kcpVars
  <2>1. UNCHANGED <<mode, kcp, output, input, net, faults, calls, given, taken, aborted>>
    BY <1>2 DEF kcpVars
  <2>2. kcp \in [Ends -> ControlBlock] /\ taken \in [Ends -> Bytes] /\ Outside
    BY DEF KcpIInv, Outside
  <2>3. \A e \in Ends : GoodEnd(e)'
    <3>1. ASSUME NEW e \in Ends PROVE GoodEnd(e)'
      <4>1. PICK k, p, toP, toK : /\ k = kcp[e] /\ p = kcp[Peer(e)]
                                  /\ toP = Carried(net[Peer(e)]) /\ toK = Carried(net[e])
        OBVIOUS
      <4>2. Good(k, p, toP, toK)
        BY <4>1 DEF KcpIInv, GoodEnd
      <4> QED
        BY <2>1, <4>1, <4>2, ModeStays
    <3> QED
      BY <3>1
  <2>4. ControlBlock' = ControlBlock
    BY <2>1 DEF ControlBlock, SndSeg
  <2>5. Outside'
    BY <2>1, <2>2, <2>4 DEF Outside
  <2>6. AsStream
    <3>1. kcp' = [kcp EXCEPT ![1] = kcp[1]] /\ taken' = taken /\ 1 \in Ends
      BY <2>1, <2>2, PeersAre
    <3>2. Kept(kcp[1], kcp[1], kcp[Peer(1)])
      BY DEF Kept
    <3>3. \A d \in Ends : given[d] <= given'[d]
      BY <2>1, <2>2 DEF Outside
    <3> QED
      BY <2>2, <3>1, <3>2, <3>3, ChainsStay
  <2> QED
    BY <2>1, <2>3, <2>5, <2>6 DEF KcpIInv, Longest
<1> QED
  BY <1>1, <1>2

\* The inductive invariant.
THEOREM KcpInvariant == KcpSpec => []KcpIInv
<1>1. KcpInit => KcpIInv
  BY KcpStarts
<1>2. KcpIInv /\ [KcpNext]_kcpVars => KcpIInv'
  BY KcpSteps
<1> QED
  BY <1>1, <1>2, PTL DEF KcpSpec

\* What the invariant says of types.
LEMMA KcpTypes ==
  ASSUME KcpIInv
  PROVE  KcpTypeOK
<1>1. mode \in Modes /\ mode \in ModeType /\ faults \in 0..MaxFaults
  BY Constants DEF KcpIInv, Outside
<1>2. ASSUME NEW e \in Ends
      PROVE  /\ {kcp[e].snd_una, kcp[e].snd_nxt, kcp[e].rcv_nxt, kcp[e].cwnd, kcp[e].ssthresh} \subseteq Nat
             /\ kcp[e].rmt_wnd \in 0..RcvWnd
             /\ kcp[e].probe \subseteq {"ask", "tell"}
             /\ kcp[e].acklist \in Seq(Nat)
             /\ kcp[e].snd_queue \in Seq(Bytes) /\ kcp[e].rcv_queue \in Seq(Bytes)
             /\ kcp[e].snd_buf \subseteq [sn : Nat, data : Bytes, fastack : 0..mode.resend, xmit : 1..FastLimit + 1]
             /\ kcp[e].rcv_buf \subseteq [sn : Nat, data : Bytes]
             /\ Cardinality(Sns(kcp[e].snd_buf)) = Cardinality(kcp[e].snd_buf)
             /\ Cardinality(Sns(kcp[e].rcv_buf)) = Cardinality(kcp[e].rcv_buf)
             /\ net[e] \in Seq(Seq(SegType)) /\ Len(net[e]) <= NetCap[e]
             /\ \A i \in DOMAIN net[e] : SizeOf(net[e][i]) <= Mtu
             /\ output[e] \in Bytes /\ taken[e] \in Bytes
             /\ input[e] \in 0..InputRoom /\ given[e] \in Nat /\ calls[e] \in 0..MaxSends
  <2> DEFINE k == kcp[e]
  <2>1. End(k) /\ Sent1(k) /\ Outside
    BY DEF KcpIInv, GoodEnd, Good, Link
  <2>2. k \in ControlBlock
    BY <2>1 DEF End
  <2>3. net[e] \in Datagrams(SegType) /\ Len(net[e]) <= NetCap[e]
    BY <2>1 DEF Outside
  <2>4. output[e] \in Bytes /\ taken[e] \in Bytes /\ input[e] \in 0..InputRoom /\ given[e] \in Nat /\ calls[e] \in 0..MaxSends
    BY <2>1 DEF Outside
  <2> HIDE DEF k
  <2>5. k.snd_buf \subseteq [sn : Nat, data : Bytes, fastack : 0..mode.resend, xmit : 1..FastLimit + 1]
    <3>1. ASSUME NEW x \in k.snd_buf
          PROVE  x \in [sn : Nat, data : Bytes, fastack : 0..mode.resend, xmit : 1..FastLimit + 1]
      <4>1. x \in SndSeg /\ x.xmit >= 1 /\ x.data \in Bytes
        BY <1>1, <2>1, <2>2, EndTypes DEF ControlBlock, Sent1
      <4>2. x.xmit \in 1..FastLimit + 1
        BY <4>1, Constants DEF SndSeg
      <4> QED
        BY <4>1, <4>2 DEF SndSeg
    <3> QED
      BY <3>1
  <2>6. /\ Cardinality(Sns(k.snd_buf)) = Cardinality(k.snd_buf)
        /\ Cardinality(Sns(k.rcv_buf)) = Cardinality(k.rcv_buf)
    BY <1>1, <2>1, BufsFinite
  <2>7. /\ k.snd_una \in Nat /\ k.snd_nxt \in Nat /\ k.rcv_nxt \in Nat /\ k.cwnd \in Nat /\ k.ssthresh \in Nat
        /\ k.rmt_wnd \in 0..RcvWnd /\ k.acklist \in Seq(Nat)
        /\ k.snd_queue \in Seq(Bytes) /\ k.rcv_queue \in Seq(Bytes)
    BY <1>1, <2>1, EndTypes
  <2>8. k.rcv_buf \subseteq [sn : Nat, data : Bytes] /\ k.probe \subseteq {"ask", "tell"}
    BY <2>2 DEF ControlBlock, RcvSeg
  <2> QED
    BY <2>3, <2>4, <2>5, <2>6, <2>7, <2>8 DEF k, Datagrams
<1> QED
  BY <1>1, <1>2, Zenon DEF KcpTypeOK

\* Whatever the network does, the control blocks and the datagrams keep their types;
\* no sequence number is in a buffer twice and no datagram is longer than the MTU.
THEOREM KcpTypeCorrect == KcpSpec => []KcpTypeOK
  BY KcpInvariant, KcpTypes, PTL

\* What the invariant says of the windows.
LEMMA KcpWindows ==
  ASSUME KcpIInv
  PROVE  WindowsHold
<1>1. ASSUME NEW s \in Ends,
             NEW a, a = kcp[s], NEW b, b = kcp[Peer(s)]
      PROVE  /\ Sns(a.snd_buf) \subseteq a.snd_una .. a.snd_nxt - 1
             /\ a.snd_nxt - a.snd_una <= mode.sndWnd
             /\ 0 .. a.snd_una - 1 \subseteq (0 .. b.rcv_nxt - 1) \cup Sns(b.rcv_buf)
             /\ b.rcv_nxt <= a.snd_nxt
             /\ Sns(b.rcv_buf) \subseteq b.rcv_nxt .. Least(a.snd_nxt, b.rcv_nxt + RcvWnd) - 1
             /\ Len(b.rcv_queue) <= RcvWnd
             /\ b.rcv_nxt \in Sns(b.rcv_buf) => Len(b.rcv_queue) = RcvWnd
  <2>1. End(a) /\ End(b) /\ Agree(a, b) /\ mode \in ModeType
    BY <1>1 DEF KcpIInv, GoodEnd, Good, Link, Direction
  <2>2. Moved(b)
    BY <1>1, PeersAre DEF KcpIInv, GoodEnd, Good
  <2>3. a.snd_una \in Nat /\ a.snd_nxt \in Nat /\ b.rcv_nxt \in Nat /\ RcvWnd \in Nat
    BY <2>1, EndTypes, Constants
  <2>4. \A x \in a.snd_buf : x.sn \in Nat /\ a.snd_una <= x.sn /\ x.sn < a.snd_nxt
    BY <2>1, EndTypes DEF End, SndInv
  <2>5. \A y \in b.rcv_buf : y.sn \in Nat /\ b.rcv_nxt <= y.sn /\ y.sn < b.rcv_nxt + RcvWnd /\ y.sn < a.snd_nxt
    BY <2>1, EndTypes DEF End, RcvInv, Agree
  <2>6. Sns(a.snd_buf) \subseteq a.snd_una .. a.snd_nxt - 1
    BY <2>3, <2>4 DEF Sns
  <2>7. Sns(b.rcv_buf) \subseteq b.rcv_nxt .. Least(a.snd_nxt, b.rcv_nxt + RcvWnd) - 1
    BY <2>3, <2>5 DEF Sns, Least
  <2>8. ASSUME NEW n \in 0 .. a.snd_una - 1 PROVE n \in (0 .. b.rcv_nxt - 1) \cup Sns(b.rcv_buf)
    <3>1. n \in Nat /\ n < a.snd_una /\ n < a.snd_nxt
      BY <2>1, <2>3 DEF End, SndInv
    <3>2. ~\E x \in a.snd_buf : x.sn = n
      BY <2>3, <2>4, <3>1
    <3>3. Got(b, n)
      BY <2>1, <3>1, <3>2 DEF Agree
    <3> QED
      BY <2>3, <3>1, <3>3 DEF Got, Sns
  <2>9. b.rcv_nxt \in Sns(b.rcv_buf) => Len(b.rcv_queue) = RcvWnd
    BY <2>2 DEF Moved, Sns
  <2> QED
    BY <2>1, <2>6, <2>7, <2>8, <2>9 DEF End, SndInv, RcvInv, Agree
<1> QED
  BY <1>1, Zenon DEF WindowsHold

\* The windows of ikcp_flush and ikcp_parse_data hold whatever the network does.
THEOREM WindowsAlwaysHold == KcpSpec => []WindowsHold
  BY KcpInvariant, KcpWindows, PTL

\* Bytes are the beginning of themselves and what follows them.
LEMMA PrefixOfCat ==
  ASSUME NEW a \in Bytes, NEW b \in Bytes
  PROVE  IsPrefix(a, Cat(a, b))
<1>1. /\ Len(a) \in Nat /\ Len(b) \in Nat /\ DOMAIN a = 1..Len(a)
      /\ Len(Cat(a, b)) = Len(a) + Len(b)
      /\ \A i \in 1..Len(a) : Cat(a, b)[i] = a[i]
  BY DEF Cat, Bytes
<1>2. SubSeq(a, 1, Len(a)) = SubSeq(Cat(a, b), 1, Len(a))
  BY <1>1
<1> QED
  BY <1>1, <1>2 DEF IsPrefix

\* What an end has accepted, as the refinement puts it.
LEMMA AcceptedIsWhole ==
  ASSUME KcpIInv, NEW s \in Ends
  PROVE  Accepted(s) = WholeStream(s) /\ WholeStream(s) \in Bytes /\ taken[Peer(s)] \in Bytes
         /\ IsPrefix(taken[Peer(s)], WholeStream(s))
<1> DEFINE t == taken[Peer(s)]
<1> DEFINE a == FlattenSeq(kcp[Peer(s)].rcv_queue)
<1> DEFINE b == FlattenSeq(Between(kcp[s], kcp[Peer(s)]))
<1> DEFINE c == FlattenSeq(kcp[s].snd_queue)
<1>1. /\ a \in Bytes /\ b \in Bytes /\ c \in Bytes
      /\ FlattenSeq(Chain(kcp[s], kcp[Peer(s)])) = Cat(a, Cat(b, c))
  BY ChainBytes DEF KcpIInv, GoodEnd, Good
<1>2. t \in Bytes
  BY PeersAre DEF KcpIInv, Outside
<1>3. WholeStream(s) = Cat(t, Cat(a, Cat(b, c)))
  BY <1>1 DEF WholeStream
<1>4. InFlight(s) = b
  BY DEF InFlight, Between, Data
<1>5. Accepted(s) = Cat(Cat(Cat(t, a), b), c)
  BY <1>4 DEF Accepted, Cat
<1> HIDE DEF t, a, b, c
<1>6. Cat(b, c) \in Bytes /\ Cat(t, a) \in Bytes
  BY <1>1, <1>2, CatBytes
<1>7. Cat(a, Cat(b, c)) \in Bytes
  BY <1>1, <1>6, CatBytes
<1>8. Cat(Cat(Cat(t, a), b), c) = Cat(Cat(t, a), Cat(b, c))
  BY <1>1, <1>6, CatBytes
<1>9. Cat(Cat(t, a), Cat(b, c)) = Cat(t, Cat(a, Cat(b, c)))
  BY <1>1, <1>2, <1>6, CatBytes
<1>10. WholeStream(s) \in Bytes /\ IsPrefix(t, WholeStream(s))
  BY <1>2, <1>3, <1>7, CatBytes, PrefixOfCat
<1> QED
  BY <1>2, <1>3, <1>5, <1>8, <1>9, <1>10 DEF t

\* What has been taken is the beginning of what has been accepted.
TakenOfWhole ==
  /\ Accepted(1) = WholeStream(1) /\ WholeStream(1) \in Bytes
  /\ IsPrefix(taken[Peer(1)], WholeStream(1))

\* The bytes accepted are numbered up to what the end has been given.
BytesNumbered == \A i \in DOMAIN WholeStream(1) : WholeStream(1)[i] <= given[1]

LEMMA StaysNumbered ==
  ASSUME TakenOfWhole, BytesNumbered, AsStream, given \in [Ends -> Nat], given' \in [Ends -> Nat]
  PROVE  BytesNumbered'
<1> DEFINE w == WholeStream(1)
<1>1. 1 \in Ends /\ given[1] \in Nat /\ given'[1] \in Nat /\ given[1] <= given'[1]
  BY PeersAre DEF AsStream
<1>2. w \in Bytes /\ \A i \in DOMAIN w : w[i] <= given[1] /\ w[i] \in Nat
  BY DEF TakenOfWhole, BytesNumbered, Bytes, Nats
<1>3. CASE w' = w
  <2> HIDE DEF w
  <2>1. \A i \in DOMAIN w' : w'[i] <= given'[1]
    BY <1>1, <1>2, <1>3
  <2> QED
    BY <2>1 DEF w, BytesNumbered
<1>4. ASSUME NEW m \in Bytes, w' = Cat(w, m), \A k \in DOMAIN m : m[k] <= given'[1]
      PROVE  BytesNumbered'
  <2>1. \A i \in DOMAIN Cat(w, m) :
          \/ i \in DOMAIN w /\ Cat(w, m)[i] = w[i]
          \/ \E k \in DOMAIN m : Cat(w, m)[i] = m[k]
    <3> HIDE DEF w
    <3>1. ASSUME NEW x \in Bytes, NEW i \in DOMAIN Cat(x, m)
          PROVE  \/ i \in DOMAIN x /\ Cat(x, m)[i] = x[i]
                 \/ \E k \in DOMAIN m : Cat(x, m)[i] = m[k]
      BY <3>1 DEF Cat, Bytes
    <3> QED
      BY <1>2, <3>1
  <2> HIDE DEF w
  <2>2. \A i \in DOMAIN w' : w'[i] <= given'[1]
    BY <1>1, <1>2, <1>4, <2>1
  <2> QED
    BY <2>2 DEF w, BytesNumbered
<1> QED
  BY <1>1, <1>3, <1>4 DEF AsStream

\* Whatever the network does, what one end's ikcp_send accepted comes to the message
\* callback of the other one in order and once: a connection implements ByteStream.
THEOREM KcpImplementsByteStream == KcpSpec => ImplementsByteStream
<1>1. KcpInit => Stream!Init /\ BytesNumbered
  <2>1. SUFFICES ASSUME KcpInit PROVE Stream!Init /\ BytesNumbered
    OBVIOUS
  <2>2. Peer(1) = 2 /\ 1 \in Ends /\ 2 \in Ends
    BY PeersAre
  <2>3. taken[2] = <<>> /\ kcp[1] = New /\ kcp[2] = New
    BY <2>1, <2>2 DEF KcpInit
  <2>4. InFlight(1) = <<>>
    <3>1. kcp[1].snd_nxt = 0 /\ kcp[2].rcv_nxt = 0
      BY <2>3 DEF New
    <3>2. InFlight(1) = FlattenSeq(Between(kcp[1], kcp[2]))
      BY <2>2 DEF InFlight, Between, Data
    <3>3. Between(kcp[1], kcp[2]) = <<>>
      BY <3>1 DEF Between
    <3> QED
      BY <3>2, <3>3, FlattenEmpty
  <2>5. FlattenSeq(kcp[2].rcv_queue) = <<>> /\ FlattenSeq(kcp[1].snd_queue) = <<>>
    BY <2>3, FlattenEmpty DEF New
  <2>6. Accepted(1) = <<>>
    BY <2>2, <2>3, <2>4, <2>5, BytesConcat DEF Accepted
  <2>7. taken[Peer(1)] = <<>>
    BY <2>2, <2>3
  <2>8. WholeStream(1) = <<>>
    BY <2>1, <2>2, <2>6, KcpStarts, AcceptedIsWhole
  <2> QED
    BY <2>6, <2>7, <2>8 DEF Stream!Init, BytesNumbered
<1>2. KcpIInv => TakenOfWhole
  BY AcceptedIsWhole, PeersAre DEF TakenOfWhole
<1>3. KcpIInv' => TakenOfWhole'
  BY <1>2, PTL
<1>4. KcpIInv /\ KcpIInv' /\ BytesNumbered /\ [KcpNext]_kcpVars => BytesNumbered'
  <2>1. KcpIInv => given \in [Ends -> Nat]
    BY DEF KcpIInv, Outside
  <2>2. KcpIInv' => given' \in [Ends -> Nat]
    BY DEF KcpIInv, Outside
  <2> QED
    BY <1>2, <2>1, <2>2, KcpSteps, StaysNumbered
<1>5. KcpIInv /\ KcpIInv' /\ BytesNumbered /\ [KcpNext]_kcpVars => [Stream!Next]_(Stream!vars)
  <2>1. SUFFICES ASSUME KcpIInv, KcpIInv', BytesNumbered, [KcpNext]_kcpVars PROVE Stream!Next
    OBVIOUS
  <2>2. Peer(1) = 2 /\ 1 \in Ends /\ 2 \in Ends
    BY PeersAre
  <2>3. AsStream
    BY <2>1, KcpSteps
  <2>4. Accepted(1) = WholeStream(1) /\ taken[2] \in Bytes
    BY <2>1, <2>2, AcceptedIsWhole
  <2>5. Accepted(1)' = WholeStream(1)' /\ IsPrefix(taken[Peer(1)], WholeStream(1))'
    BY <1>3, <2>1 DEF TakenOfWhole
  <2>6. Accepted(1)' = Accepted(1) \/ \E m \in Messages : Stream!Accept(m)
    <3>1. ASSUME NEW m \in Messages \cap Bytes, WholeStream(1)' = Cat(WholeStream(1), m),
                 \A k \in DOMAIN m : given[1] < m[k]
          PROVE  Stream!Accept(m)
      <4>1. /\ given[1] \in Nat /\ \A k \in DOMAIN m : m[k] \in Nat
            /\ \A i \in DOMAIN WholeStream(1) : WholeStream(1)[i] \in Nat
        <5>1. \A b \in Bytes : \A i \in DOMAIN b : b[i] \in Nat
          BY DEF Bytes, Nats
        <5>2. WholeStream(1) \in Bytes /\ given[1] \in Nat
          BY <1>2, <2>1, <2>2 DEF KcpIInv, Outside, TakenOfWhole
        <5> QED
          BY <3>1, <5>1, <5>2
      <4>2. \A i \in DOMAIN WholeStream(1), k \in DOMAIN m : WholeStream(1)[i] # m[k]
        BY <2>1, <3>1, <4>1 DEF BytesNumbered
      <4> QED
        BY <2>4, <2>5, <3>1, <4>2 DEF Stream!Accept, Cat
    <3> QED
      BY <2>2, <2>3, <2>4, <2>5, <3>1 DEF AsStream
  <2>7. IsPrefix(taken[Peer(1)], taken[Peer(1)]')
    BY <2>2, <2>3, <2>4, PrefixOfCat DEF AsStream
  <2> QED
    BY <2>2, <2>5, <2>6, <2>7 DEF Stream!Next, Stream!IsPrefix, IsPrefix
<1> QED
  BY <1>1, <1>4, <1>5, KcpInvariant, PTL DEF KcpSpec, ImplementsByteStream, Stream!Spec

------------------------------------------------------------------------------
(* The queues of functors.                                                    *)

In(q, op, c) == Functor(op, c) \in ToSet(q)
InBase(c) == c \in ToSet(baseQueue)

\* No element of X is in q twice.
OnceIn(q, X) == \A i, j \in DOMAIN q : q[i] = q[j] /\ q[i] \in X => i = j
TcpFunctors == {Functor(op, c) : op \in OpsOfTcp, c \in Convs}

\* A functor is known by its operation and its connection.
LEMMA FunctorEq ==
  ASSUME NEW o1, NEW c1, NEW o2, NEW c2
  PROVE  Functor(o1, c1) = Functor(o2, c2) <=> o1 = o2 /\ c1 = c2
  BY DEF Functor

\* push_back adds its argument, and once if it was not there.
LEMMA AppendSet ==
  ASSUME NEW S, NEW q \in Seq(S), NEW x \in S
  PROVE  /\ Append(q, x) \in Seq(S)
         /\ ToSet(Append(q, x)) = ToSet(q) \cup {x}
         /\ \A X : OnceIn(q, X) /\ (x \in X => x \notin ToSet(q)) => OnceIn(Append(q, x), X)
<1>1. /\ DOMAIN q = 1..Len(q)
      /\ DOMAIN Append(q, x) = 1..(Len(q) + 1)
      /\ Len(q) \in Nat
      /\ \A i \in 1..Len(q) : Append(q, x)[i] = q[i]
      /\ Append(q, x)[Len(q) + 1] = x
  BY AppendProperties, LenProperties
<1>2. ToSet(Append(q, x)) = ToSet(q) \cup {x}
  <2>1. ToSet(Append(q, x)) \subseteq ToSet(q) \cup {x}
    BY <1>1 DEF ToSet
  <2>2. ToSet(q) \cup {x} \subseteq ToSet(Append(q, x))
    BY <1>1 DEF ToSet
  <2> QED
    BY <2>1, <2>2
<1>3. ASSUME NEW X, OnceIn(q, X), x \in X => x \notin ToSet(q)
      PROVE  OnceIn(Append(q, x), X)
  <2> DEFINE r == Append(q, x)
  <2> HIDE DEF r
  <2>1. SUFFICES ASSUME NEW i \in 1..Len(q) + 1, NEW j \in 1..Len(q) + 1, r[i] = r[j], r[i] \in X
                 PROVE  i = j
    BY <1>1 DEF OnceIn, r
  <2>2. \A k \in 1..Len(q) : r[k] = q[k] /\ r[k] \in ToSet(q)
    BY <1>1 DEF r, ToSet
  <2>3. r[Len(q) + 1] = x
    BY <1>1 DEF r
  <2>4. CASE i \in 1..Len(q) /\ j \in 1..Len(q)
    BY <1>1, <1>3, <2>1, <2>2, <2>4 DEF OnceIn
  <2>5. CASE ~(i \in 1..Len(q)) \/ ~(j \in 1..Len(q))
    <3>1. i = Len(q) + 1 \/ j = Len(q) + 1
      BY <1>1, <2>5
    <3>2. x \in X
      BY <2>1, <2>3, <3>1
    <3> QED
      BY <1>1, <1>3, <2>1, <2>2, <2>3, <3>1, <3>2
  <2> QED
    BY <2>4, <2>5
<1> QED
  BY <1>1, <1>2, <1>3, AppendProperties

\* Taking the first element off leaves the others, and no second copy of what is
\* there once.
LEMMA TailSet ==
  ASSUME NEW S, NEW q \in Seq(S), q # <<>>
  PROVE  /\ Head(q) \in S /\ Tail(q) \in Seq(S)
         /\ ToSet(q) = {Head(q)} \cup ToSet(Tail(q))
         /\ \A X : OnceIn(q, X) =>
              OnceIn(Tail(q), X) /\ (Head(q) \in X => Head(q) \notin ToSet(Tail(q)))
<1>1. /\ DOMAIN q = 1..Len(q)
      /\ DOMAIN Tail(q) = 1..(Len(q) - 1)
      /\ Len(q) \in Nat \ {0}
      /\ Head(q) = q[1] /\ Head(q) \in S /\ Tail(q) \in Seq(S)
      /\ \A i \in 1..(Len(q) - 1) : Tail(q)[i] = q[i + 1]
  BY HeadTailProperties, LenProperties, EmptySeq
<1>2. ToSet(q) \subseteq {Head(q)} \cup ToSet(Tail(q))
  <2> SUFFICES ASSUME NEW i \in 1..Len(q), i # 1
               PROVE  q[i] \in ToSet(Tail(q))
    BY <1>1 DEF ToSet
  <2>1. i - 1 \in 1..(Len(q) - 1) /\ q[i] = Tail(q)[i - 1]
    BY <1>1
  <2> QED
    BY <2>1, <1>1 DEF ToSet
<1>3. {Head(q)} \cup ToSet(Tail(q)) \subseteq ToSet(q)
  BY <1>1 DEF ToSet
<1>4. ASSUME NEW X, OnceIn(q, X)
      PROVE  OnceIn(Tail(q), X) /\ (Head(q) \in X => Head(q) \notin ToSet(Tail(q)))
  <2>1. OnceIn(Tail(q), X)
    <3>1. SUFFICES ASSUME NEW i \in 1..(Len(q) - 1), NEW j \in 1..(Len(q) - 1),
                          Tail(q)[i] = Tail(q)[j], Tail(q)[i] \in X
                   PROVE  i = j
      BY <1>1 DEF OnceIn
    <3>2. i + 1 \in DOMAIN q /\ j + 1 \in DOMAIN q /\ q[i + 1] = q[j + 1] /\ q[i + 1] \in X
      BY <1>1, <3>1
    <3>3. i + 1 = j + 1
      BY <1>4, <3>2 DEF OnceIn
    <3> QED
      BY <3>3
  <2>2. ASSUME Head(q) \in X, Head(q) \in ToSet(Tail(q)) PROVE FALSE
    <3>1. PICK i \in 1..(Len(q) - 1) : Tail(q)[i] = Head(q)
      BY <1>1, <2>2 DEF ToSet
    <3>2. i + 1 \in DOMAIN q /\ 1 \in DOMAIN q /\ q[i + 1] = q[1] /\ q[1] \in X
      BY <1>1, <2>2, <3>1
    <3>3. i + 1 = 1
      BY <1>4, <3>2 DEF OnceIn
    <3> QED
      BY <3>3
  <2> QED
    BY <2>1, <2>2
<1> QED
  BY <1>1, <1>2, <1>3, <1>4

\* Who waits in the queue of the I/O loop.
LEMMA QueuedIs ==
  ASSUME NEW S, queue \in Seq([op : S, conv : Created]), NEW ops, NEW c
  PROVE  Queued(ops, c) <=> \E o \in ops : In(queue, o, c)
<1>1. \A i \in DOMAIN queue : queue[i] = Functor(queue[i].op, queue[i].conv)
  <2>1. \A x \in [op : S, conv : Created] : x = Functor(x.op, x.conv)
    BY DEF Functor
  <2> DEFINE T == [op : S, conv : Created]
  <2>2. queue \in Seq(T)
    OBVIOUS
  <2> HIDE DEF T
  <2>3. \A i \in DOMAIN queue : queue[i] \in T
    BY <2>2
  <2> QED
    BY <2>1, <2>3 DEF T
<1>2. ASSUME Queued(ops, c) PROVE \E o \in ops : In(queue, o, c)
  <2>1. PICK i \in DOMAIN queue : queue[i].conv = c /\ queue[i].op \in ops
    BY <1>2 DEF Queued
  <2> QED
    BY <1>1, <2>1 DEF In, ToSet
<1>3. ASSUME NEW o \in ops, In(queue, o, c) PROVE Queued(ops, c)
  <2>1. PICK i \in DOMAIN queue : queue[i] = Functor(o, c)
    BY <1>3 DEF In, ToSet
  <2>2. queue[i].conv = c /\ queue[i].op = o
    BY <2>1 DEF Functor
  <2> QED
    BY <2>1, <2>2 DEF Queued
<1> QED
  BY <1>2, <1>3

LEMMA AppendIn ==
  ASSUME NEW S, NEW q \in Seq(S), NEW o, NEW c, Functor(o, c) \in S
  PROVE  LET r == Append(q, Functor(o, c))
         IN /\ r \in Seq(S)
            /\ \A o2, c2 : In(r, o2, c2) <=> In(q, o2, c2) \/ (o2 = o /\ c2 = c)
            /\ \A X : OnceIn(q, X) /\ (Functor(o, c) \in X => ~In(q, o, c)) => OnceIn(r, X)
  BY AppendSet, FunctorEq DEF In

LEMMA TailIn ==
  ASSUME NEW S, NEW q \in Seq(S), q # <<>>, NEW o, NEW c, Head(q) = Functor(o, c)
  PROVE  LET r == Tail(q)
         IN /\ r \in Seq(S)
            /\ \A o2, c2 : In(q, o2, c2) <=> In(r, o2, c2) \/ (o2 = o /\ c2 = c)
            /\ \A X : OnceIn(q, X) => OnceIn(r, X) /\ (Functor(o, c) \in X => ~In(r, o, c))
  BY TailSet, FunctorEq DEF In

------------------------------------------------------------------------------
(* The inductive invariant.                                                   *)

TcpStates == {"connecting", "connected", "disconnected", "removed"}
KcpStates == {"none", "connecting", "connected", "delay", "disconnecting", "disconnected"}
Functors == [op : Ops, conv : Created]

ServerTypes ==
  /\ oneLoop \in BOOLEAN
  /\ numAccepted \in 0..MaxConns
  /\ addrOf \in [Convs -> Addrs]
  /\ connections \subseteq Created /\ tcpConnections \subseteq Created
  /\ kcpConnections \subseteq Created /\ crypts \subseteq Created
  /\ addrConns \in [Addrs -> Created \cup {NoConv}]
  /\ current \in Created \cup {NoConv}
  /\ tcpState \in [Convs -> TcpStates]
  /\ kcpState \in [Convs -> KcpStates]
  /\ userAt \in [Convs -> {"idle", "forceClose", "delay", "send"}]
  /\ ups \in [Convs -> 0..1] /\ downs \in [Convs -> 0..2]
  /\ updating \subseteq Created /\ firstUpdate \subseteq Created /\ delayed \subseteq Created
  /\ baseQueue \in Seq(Created)
  /\ queue \in Seq(Functors)
  /\ numCalls \in 0..MaxCalls
  /\ overwritten \subseteq asked /\ asked \subseteq Created /\ left \subseteq Created

\* The life of a TCP connection: each of the functors that move it on waits once, in
\* the base loop's queue or in the I/O loop's, and never two of them.
TcpLife(c) ==
  /\ c \notin Created => kcpState[c] = "none"
  /\ tcpState[c] = "connecting" <=> (c \notin Created \/ In(queue, "established", c))
  /\ In(queue, "established", c) => c \notin tcpConnections /\ kcpState[c] = "none"
  /\ c \in tcpConnections <=>
       (tcpState[c] = "connected" \/ In(queue, "removeTcp", c) \/ InBase(c))
  /\ (In(queue, "removeTcp", c) \/ InBase(c) \/ In(queue, "tcpDestroyed", c))
       <=> tcpState[c] = "disconnected"
  /\ ~(In(queue, "removeTcp", c) /\ InBase(c))
  /\ ~(In(queue, "tcpDestroyed", c) /\ (In(queue, "removeTcp", c) \/ InBase(c)))
  /\ In(queue, "established", c) \/ InBase(c) \/ tcpState[c] = "connected" => c \in connections

\* The life of a KCP connection: in its table from the handshake to its first close,
\* and its secret in the other one to the end of TCP or this close.
KcpLife(c) ==
  /\ c \in kcpConnections <=> kcpState[c] # "none" /\ downs[c] = 0
  /\ c \in crypts <=> c \in tcpConnections /\ downs[c] = 0
  /\ kcpState[c] = "none" => downs[c] = 0
  /\ kcpState[c] \in {"none", "connecting"} =>
       ups[c] = 0 /\ c \notin updating \cup firstUpdate
  /\ kcpState[c] = "disconnected" => downs[c] > 0
  /\ downs[c] > 0 => kcpState[c] \in {"delay", "disconnecting", "disconnected"}
  /\ downs[c] = 2 => kcpState[c] = "disconnected"
  /\ c \in tcpConnections /\ downs[c] > 0 => tcpState[c] = "disconnected"
  /\ c \in kcpConnections /\ c \notin tcpConnections =>
       kcpState[c] \in {"delay", "disconnecting"}
  /\ In(queue, "kcpDestroyed", c) => downs[c] > 0

\* What users have to do with it.
UserLife(c) ==
  /\ c \notin overwritten => downs[c] = 0 \/ (downs[c] = 1 /\ kcpState[c] = "disconnected")
  /\ c \in overwritten => downs[c] > 0 /\ userAt[c] = "idle"
  /\ userAt[c] # "idle" => c \in asked /\ kcpState[c] \notin {"none", "connecting"}
  /\ kcpState[c] = "delay" /\ downs[c] = 0 => c \in delayed
  /\ kcpState[c] = "disconnecting" /\ downs[c] = 0 => In(queue, "forceClose", c)
  /\ kcpState[c] \in {"delay", "disconnecting"} => c \in asked
  /\ c \in delayed => c \in asked /\ kcpState[c] # "none"
  /\ In(queue, "send", c) => c \in asked /\ kcpState[c] \notin {"none", "connecting"}
  /\ c \in firstUpdate \cup updating /\ kcpState[c] # "connected" => c \in left \cup asked

\* Addresses lead to clients that are in the tables of both connections.
AddrsLead ==
  /\ \A a \in Addrs : addrConns[a] # NoConv =>
       addrOf[addrConns[a]] = a /\ addrConns[a] \in tcpConnections \cap kcpConnections
  /\ \A c \in Created : c \in tcpConnections \cap kcpConnections /\ Unique(c) =>
       addrConns[addrOf[c]] = c
  /\ current # NoConv => kcpState[current] # "none"

QueuesOnce == OnceIn(queue, TcpFunctors) /\ OnceIn(baseQueue, Convs)

Lives == \A c \in Convs : TcpLife(c) /\ KcpLife(c) /\ UserLife(c)

ServerIInv == ServerTypes /\ QueuesOnce /\ Lives /\ AddrsLead /\ NoFault

\* Connections are numbers of connections.
LEMMA CreatedAre ==
  ASSUME ServerTypes
  PROVE  Created \subseteq Convs /\ NoConv \notin Created /\ NoConv \notin Convs
  BY KcpServerAssumption DEF ServerTypes, Created, Convs

------------------------------------------------------------------------------
(* The TCP connection.                                                        *)

\* handleClose of an open connection: one functor more, in one of the queues.
LEMMA CloseTcpIs ==
  ASSUME ServerTypes, NEW c \in Created, tcpState[c] = "connected", TcpLife(c),
         OnceIn(baseQueue, Convs), NEW q \in Seq(Functors), OnceIn(q, TcpFunctors),
         ~In(q, "removeTcp", c), CloseTcp(c, q)
  PROVE  /\ tcpState' = [tcpState EXCEPT ![c] = "disconnected"]
         /\ queue' \in Seq(Functors) /\ baseQueue' \in Seq(Created) /\ connections' \subseteq Created
         /\ QueuesOnce'
         /\ \/ /\ \A d : InBase(d)' <=> InBase(d) \/ d = c
               /\ queue' = q /\ connections' = connections
            \/ /\ \A d : InBase(d)' <=> InBase(d)
               /\ \A o, d : In(queue', o, d) <=> In(q, o, d) \/ (o = "removeTcp" /\ d = c)
               /\ connections' = connections \ {c}
<1>1. Created \subseteq Convs /\ baseQueue \in Seq(Created) /\ ~InBase(c) /\ connections \subseteq Created
  BY CreatedAre DEF ServerTypes, TcpLife
<1>2. Functor("removeTcp", c) \in Functors
  BY DEF Functor, Functors, Ops, OpsOfTcp
<1>3. CASE oneLoop
  <2>1. /\ queue' = Append(q, Functor("removeTcp", c)) /\ connections' = connections \ {c}
        /\ baseQueue' = baseQueue
    BY <1>3 DEF CloseTcp, RemoveConnectionInLoop
  <2>2. /\ queue' \in Seq(Functors) /\ OnceIn(queue', TcpFunctors)
        /\ \A o, d : In(queue', o, d) <=> In(q, o, d) \/ (o = "removeTcp" /\ d = c)
    BY <1>2, <2>1, AppendIn
  <2> QED
    BY <1>1, <2>1, <2>2 DEF CloseTcp, QueuesOnce, InBase
<1>4. CASE ~oneLoop
  <2>1. baseQueue' = Append(baseQueue, c) /\ queue' = q /\ connections' = connections
    BY <1>4 DEF CloseTcp
  <2>2. /\ baseQueue' \in Seq(Created) /\ ToSet(baseQueue') = ToSet(baseQueue) \cup {c}
        /\ OnceIn(baseQueue', Convs)
    BY <1>1, <2>1, AppendSet DEF InBase
  <2> QED
    BY <1>1, <2>1, <2>2 DEF CloseTcp, QueuesOnce, InBase
<1> QED
  BY <1>3, <1>4

\* The TCP connection of a client ends.
LEMMA TcpEndsStep ==
  ASSUME ServerIInv, NEW c \in Convs, TcpEnds(c)
  PROVE  ServerIInv'
<1>1. /\ ServerTypes /\ QueuesOnce /\ Lives /\ AddrsLead
      /\ c \in Created /\ tcpState[c] = "connected" /\ CloseTcp(c, queue)
      /\ UNCHANGED <<client, tcpConnections, kcpConnections, crypts, addrConns, current, kcpState,
                     timers, users, callbacks>>
      /\ fault' = FaultIf(oneLoop /\ c \notin connections, "erase", c)
  BY DEF ServerIInv, TcpEnds
<1>2. \A d \in Convs : TcpLife(d) /\ KcpLife(d) /\ UserLife(d)
  BY <1>1 DEF Lives
<1>3. queue \in Seq(Functors) /\ ~In(queue, "removeTcp", c) /\ ~InBase(c)
  BY <1>1, <1>2 DEF ServerTypes, TcpLife
<1>4. /\ tcpState' = [tcpState EXCEPT ![c] = "disconnected"]
      /\ queue' \in Seq(Functors) /\ baseQueue' \in Seq(Created) /\ connections' \subseteq Created
      /\ QueuesOnce'
      /\ \/ /\ \A d : InBase(d)' <=> InBase(d) \/ d = c
            /\ queue' = queue /\ connections' = connections
         \/ /\ \A d : InBase(d)' <=> InBase(d)
            /\ \A o, d : In(queue', o, d) <=> In(queue, o, d) \/ (o = "removeTcp" /\ d = c)
            /\ connections' = connections \ {c}
  BY <1>1, <1>2, <1>3, CloseTcpIs DEF QueuesOnce
<1>5. Created' = Created /\ Functors' = Functors
  BY <1>1 DEF client, Created, Functors
<1>6. ServerTypes'
  BY <1>1, <1>4, <1>5 DEF ServerTypes, client, timers, users, callbacks, TcpStates
<1>7. ASSUME NEW d \in Convs PROVE (TcpLife(d) /\ KcpLife(d) /\ UserLife(d))'
  <2>1. TcpLife(d) /\ KcpLife(d) /\ UserLife(d) /\ TcpLife(c)
    BY <1>2
  <2>2. tcpState'[d] = IF d = c THEN "disconnected" ELSE tcpState[d]
    BY <1>1, <1>4 DEF ServerTypes
  <2>3. TcpLife(d)'
    BY <1>1, <1>3, <1>4, <1>5, <2>1, <2>2 DEF TcpLife
  <2>4. KcpLife(d)'
    BY <1>1, <1>4, <2>1, <2>2 DEF KcpLife, timers, callbacks
  <2>5. UserLife(d)'
    BY <1>1, <1>4, <2>1, <2>2 DEF UserLife, timers, callbacks, users
  <2> QED
    BY <2>3, <2>4, <2>5
<1>8. AddrsLead'
  BY <1>1, <1>5 DEF AddrsLead, Unique, client
<1>9. NoFault'
  <2>1. c \in connections
    BY <1>1, <1>2 DEF TcpLife
  <2> QED
    BY <1>1, <2>1 DEF NoFault, FaultIf
<1> QED
  BY <1>4, <1>6, <1>7, <1>8, <1>9 DEF ServerIInv, Lives
\* removeConnectionInLoop is run.
LEMMA BaseStep ==
  ASSUME ServerIInv, BaseRunsFunctor
  PROVE  ServerIInv'
<1> DEFINE c == Head(baseQueue)
<1>1. /\ ServerTypes /\ QueuesOnce /\ Lives /\ AddrsLead
      /\ baseQueue # <<>> /\ baseQueue' = Tail(baseQueue) /\ connections' = connections \ {c}
      /\ queue' = Append(queue, Functor("removeTcp", c))
      /\ UNCHANGED <<client, tcpConnections, kcpConnections, crypts, addrConns, current, tcpState,
                     kcpState, timers, users, callbacks>>
      /\ fault' = FaultIf(c \notin connections, "erase", c)
  BY DEF ServerIInv, BaseRunsFunctor, RemoveConnectionInLoop
<1>2. \A d \in Convs : TcpLife(d) /\ KcpLife(d) /\ UserLife(d)
  BY <1>1 DEF Lives
<1>3. /\ c \in Created /\ baseQueue' \in Seq(Created)
      /\ ToSet(baseQueue) = {c} \cup ToSet(baseQueue')
      /\ OnceIn(baseQueue', Convs) /\ (c \in Convs => c \notin ToSet(baseQueue'))
  <2>1. baseQueue \in Seq(Created) /\ OnceIn(baseQueue, Convs)
    BY <1>1 DEF ServerTypes, QueuesOnce
  <2> QED
    BY <1>1, <2>1, TailSet
<1> HIDE DEF c
<1>4. c \in Convs /\ InBase(c) /\ \A d \in Convs : InBase(d)' <=> InBase(d) /\ d # c
  BY <1>1, <1>3, CreatedAre DEF InBase
<1>5. ~In(queue, "removeTcp", c) /\ c \in connections
  BY <1>2, <1>4 DEF TcpLife
<1>6. /\ queue' \in Seq(Functors) /\ OnceIn(queue', TcpFunctors)
      /\ \A o, d : In(queue', o, d) <=> In(queue, o, d) \/ (o = "removeTcp" /\ d = c)
  <2>1. queue \in Seq(Functors) /\ OnceIn(queue, TcpFunctors)
    BY <1>1 DEF ServerTypes, QueuesOnce
  <2>2. Functor("removeTcp", c) \in Functors
    BY <1>3 DEF Functor, Functors, Ops, OpsOfTcp
  <2> QED
    BY <1>1, <1>5, <2>1, <2>2, AppendIn
<1>7. Created' = Created /\ Functors' = Functors
  BY <1>1 DEF client, Created, Functors
<1>8. ServerTypes'
  BY <1>1, <1>3, <1>6, <1>7 DEF ServerTypes, client, timers, users, callbacks
<1>9. ASSUME NEW d \in Convs PROVE (TcpLife(d) /\ KcpLife(d) /\ UserLife(d))'
  <2>1. TcpLife(d) /\ KcpLife(d) /\ UserLife(d)
    BY <1>2
  <2>2. TcpLife(d)'
    BY <1>1, <1>4, <1>5, <1>6, <1>7, <2>1 DEF TcpLife
  <2>3. KcpLife(d)'
    BY <1>1, <1>6, <2>1 DEF KcpLife, timers, callbacks
  <2>4. UserLife(d)'
    BY <1>1, <1>6, <2>1 DEF UserLife, timers, callbacks, users
  <2> QED
    BY <2>2, <2>3, <2>4
<1>10. AddrsLead'
  BY <1>1, <1>7 DEF AddrsLead, Unique, client
<1>11. NoFault'
  BY <1>1, <1>5 DEF NoFault, FaultIf
<1>12. QueuesOnce'
  BY <1>3, <1>6 DEF QueuesOnce
<1> QED
  BY <1>8, <1>9, <1>10, <1>11, <1>12 DEF ServerIInv, Lives

\* A client connects.
LEMMA NewConnectionStep ==
  ASSUME ServerIInv, NewConnection
  PROVE  ServerIInv'
<1>0. PICK c : c = numAccepted + 1
  OBVIOUS
<1>1. /\ ServerTypes /\ QueuesOnce /\ Lives /\ AddrsLead
      /\ numAccepted < MaxConns /\ numAccepted' = c /\ connections' = connections \cup {c}
      /\ UNCHANGED <<oneLoop, addrOf, current, users, kcpConnections, addrConns, kcpState,
                     timers, callbacks, baseQueue>>
  BY <1>0 DEF ServerIInv, NewConnection, Established
<1>2. \/ /\ queue' = queue /\ tcpState' = [tcpState EXCEPT ![c] = "connected"]
         /\ tcpConnections' = tcpConnections \cup {c} /\ crypts' = crypts \cup {c}
         /\ fault' = FaultIf(c \in tcpConnections \/ c \in kcpConnections, "new", c)
      \/ /\ queue' = Append(queue, Functor("established", c)) /\ fault' = {}
         /\ UNCHANGED <<tcpState, tcpConnections, crypts>>
  BY <1>0 DEF NewConnection, Established
<1>3. /\ c \in Convs /\ c \notin Created /\ Created' = Created \cup {c} /\ Created \subseteq Created'
      /\ c \in Created'
  BY <1>0, <1>1, KcpServerAssumption DEF ServerTypes, Created, Convs
<1>4. \A d \in Convs : TcpLife(d) /\ KcpLife(d) /\ UserLife(d)
  BY <1>1 DEF Lives
<1>5. \A o : ~In(queue, o, c)
  <2>1. \A x \in ToSet(queue) : x \in Functors
    BY <1>1 DEF ServerTypes, ToSet
  <2>2. \A o : Functor(o, c) \notin Functors
    BY <1>3 DEF Functor, Functors
  <2> QED
    BY <2>1, <2>2 DEF In
<1>6. ~InBase(c)
  BY <1>1, <1>3 DEF ServerTypes, InBase, ToSet
<1>7. PICK S : /\ S = Functors' /\ queue \in Seq(S) /\ baseQueue \in Seq(Created')
               /\ Functor("established", c) \in S
  <2>0. Functor("established", c) \in Functors'
    BY <1>3 DEF Functor, Functors, Ops, OpsOfTcp
  <2>1. Functors \subseteq Functors'
    BY <1>3 DEF Functors
  <2> QED
    BY <1>1, <1>3, <2>0, <2>1 DEF ServerTypes
<1>8. queue' \in Seq(S) /\ QueuesOnce' /\ \A d : InBase(d)' <=> InBase(d)
  <2>1. OnceIn(queue, TcpFunctors) /\ OnceIn(baseQueue', Convs)
    BY <1>1 DEF QueuesOnce
  <2>2. CASE queue' = queue
    BY <1>1, <1>7, <2>1, <2>2 DEF QueuesOnce, InBase
  <2>3. CASE queue' = Append(queue, Functor("established", c))
    <3>1. queue' \in Seq(S) /\ OnceIn(queue', TcpFunctors)
      BY <1>5, <1>7, <2>1, <2>3, AppendIn
    <3> QED
      BY <1>1, <2>1, <3>1 DEF QueuesOnce, InBase
  <2> QED
    BY <1>2, <2>2, <2>3
<1>9. \/ queue' = queue
      \/ \A o, d : In(queue', o, d) <=> In(queue, o, d) \/ (o = "established" /\ d = c)
  <2>1. CASE queue' = Append(queue, Functor("established", c))
    BY <1>7, <2>1, AppendIn
  <2> QED
    BY <1>2, <2>1
<1>10. ServerTypes'
  <2>0. oneLoop' \in BOOLEAN /\ numAccepted' \in 0..MaxConns /\ addrOf' \in [Convs -> Addrs]
    BY <1>0, <1>1, KcpServerAssumption DEF ServerTypes
  <2>1. /\ connections' \subseteq Created' /\ tcpConnections' \subseteq Created'
        /\ kcpConnections' \subseteq Created' /\ crypts' \subseteq Created'
        /\ tcpState' \in [Convs -> TcpStates]
    BY <1>1, <1>2, <1>3 DEF ServerTypes, TcpStates
  <2>2. addrConns' \in [Addrs -> Created' \cup {NoConv}] /\ current' \in Created' \cup {NoConv}
    BY <1>1, <1>3 DEF ServerTypes
  <2>3. baseQueue' \in Seq(Created') /\ queue' \in Seq(Functors')
    BY <1>1, <1>7, <1>8
  <2> QED
    BY <1>1, <1>3, <2>0, <2>1, <2>2, <2>3 DEF ServerTypes, timers, users, callbacks
<1>11. c \notin tcpConnections /\ c \notin kcpConnections /\ c \notin crypts
  BY <1>1, <1>3 DEF ServerTypes
<1>12. ASSUME NEW d \in Convs PROVE (TcpLife(d) /\ KcpLife(d) /\ UserLife(d))'
  <2>1. TcpLife(d) /\ KcpLife(d) /\ UserLife(d)
    BY <1>4
  <2>2. tcpState'[d] = tcpState[d] \/ (d = c /\ tcpState'[d] = "connected")
    BY <1>1, <1>2 DEF ServerTypes
  <2>3. CASE d = c
    <3>1. kcpState[c] = "none" /\ kcpState'[c] = "none" /\ tcpState[c] = "connecting"
      BY <1>1, <1>3, <2>1, <2>3 DEF TcpLife
    <3>2. \/ /\ queue' = queue /\ tcpState'[c] = "connected"
             /\ c \in tcpConnections' /\ c \in crypts'
          \/ /\ \A o : In(queue', o, c) <=> (o = "established")
             /\ tcpState'[c] = "connecting" /\ c \notin tcpConnections' /\ c \notin crypts'
      <4>1. CASE queue' = queue /\ tcpState' = [tcpState EXCEPT ![c] = "connected"]
                 /\ tcpConnections' = tcpConnections \cup {c} /\ crypts' = crypts \cup {c}
        BY <1>1, <1>3, <4>1 DEF ServerTypes
      <4>2. CASE queue' = Append(queue, Functor("established", c))
                 /\ UNCHANGED <<tcpState, tcpConnections, crypts>>
        <5>1. \A o : In(queue', o, c) <=> (o = "established")
          BY <1>5, <1>7, <4>2, AppendIn
        <5> QED
          BY <1>11, <3>1, <4>2, <5>1
      <4> QED
        BY <1>2, <4>1, <4>2
    <3>3. TcpLife(c)'
      BY <1>1, <1>3, <1>5, <1>6, <1>8, <3>1, <3>2 DEF TcpLife
    <3>4. KcpLife(c)'
      BY <1>1, <1>5, <2>1, <2>3, <3>1, <3>2 DEF KcpLife, timers, callbacks
    <3>5. UserLife(c)'
      BY <1>1, <1>5, <2>1, <2>3, <3>1, <3>2 DEF UserLife, timers, callbacks, users
    <3> QED
      BY <2>3, <3>3, <3>4, <3>5
  <2>4. CASE d # c
    <3>1. /\ tcpState'[d] = tcpState[d] /\ (d \in tcpConnections' <=> d \in tcpConnections)
          /\ (d \in crypts' <=> d \in crypts) /\ (d \in connections' <=> d \in connections)
          /\ \A o : In(queue', o, d) <=> In(queue, o, d)
      BY <1>1, <1>2, <1>9, <2>2, <2>4
    <3>2. d \in Created' <=> d \in Created
      BY <1>3, <2>4
    <3>3. TcpLife(d)'
      BY <1>1, <1>8, <2>1, <3>1, <3>2 DEF TcpLife
    <3>4. KcpLife(d)'
      BY <1>1, <2>1, <3>1 DEF KcpLife, timers, callbacks
    <3>5. UserLife(d)'
      BY <1>1, <2>1, <3>1 DEF UserLife, timers, callbacks, users
    <3> QED
      BY <3>3, <3>4, <3>5
  <2> QED
    BY <2>3, <2>4
<1>13. AddrsLead'
  <2>1. tcpConnections \subseteq tcpConnections'
    BY <1>2
  <2>2. \A a \in Addrs : addrConns[a] # NoConv =>
          addrOf[addrConns[a]] = a /\ addrConns[a] \in tcpConnections' \cap kcpConnections
    BY <1>1, <2>1 DEF AddrsLead
  <2>3. ASSUME NEW d \in Created', d \in tcpConnections' \cap kcpConnections, Unique(d)'
        PROVE  addrConns[addrOf[d]] = d
    <3>1. d # c /\ d \in Created /\ d \in tcpConnections
      BY <1>2, <1>3, <1>11, <2>3
    <3>2. Unique(d)
      BY <1>1, <1>3, <2>3 DEF Unique
    <3> QED
      BY <1>1, <2>3, <3>1, <3>2 DEF AddrsLead
  <2> QED
    BY <1>1, <2>2, <2>3 DEF AddrsLead
<1>14. NoFault'
  BY <1>2, <1>11 DEF NoFault, FaultIf
<1> QED
  BY <1>8, <1>10, <1>12, <1>13, <1>14 DEF ServerIInv, Lives

------------------------------------------------------------------------------
(* Datagrams and timers.                                                      *)

\* The functors of KcpConnection are not among those that move TCP on.
LEMMA ForKcp ==
  ASSUME NEW o \in OpsOfKcp \cup {"send"}, NEW c \in Created
  PROVE  Functor(o, c) \in Functors /\ Functor(o, c) \notin TcpFunctors
<1>1. o \in Ops /\ o \notin OpsOfTcp
  BY DEF Ops, OpsOfKcp, OpsOfTcp
<1>2. Functor(o, c) \in Functors
  BY <1>1 DEF Functor, Functors
<1> QED
  BY <1>1, <1>2, FunctorEq DEF TcpFunctors

\* A client shakes hands.
LEMMA HandshakeStep ==
  ASSUME ServerIInv, NEW c \in Convs, Handshake(c)
  PROVE  ServerIInv'
<1>1. /\ ServerTypes /\ QueuesOnce /\ Lives /\ AddrsLead
      /\ c \in Created /\ c \in tcpConnections /\ c \in crypts /\ c \notin kcpConnections
      /\ tcpState[c] = "connected"
      /\ kcpState' = [kcpState EXCEPT ![c] = "connecting"]
      /\ kcpConnections' = kcpConnections \cup {c}
      /\ addrConns' = [addrConns EXCEPT ![addrOf[c]] = c]
      /\ fault' = {}
      /\ UNCHANGED <<client, connections, tcpConnections, crypts, current, tcpState, timers, baseQueue,
                     queue, users, callbacks>>
  BY DEF ServerIInv, Handshake, HandshakeAccepted
<1>2. \A d \in Convs : TcpLife(d) /\ KcpLife(d) /\ UserLife(d)
  BY <1>1 DEF Lives
<1>3. Created' = Created /\ Functors' = Functors
  BY <1>1 DEF client, Created, Functors
<1>4. ServerTypes'
  BY <1>1, <1>3 DEF ServerTypes, client, timers, users, callbacks, KcpStates
<1>5. kcpState[c] = "none" /\ downs[c] = 0 /\ ups[c] = 0
  BY <1>1, <1>2 DEF KcpLife
<1>6. ASSUME NEW d \in Convs PROVE (TcpLife(d) /\ KcpLife(d) /\ UserLife(d))'
  <2>1. TcpLife(d) /\ KcpLife(d) /\ UserLife(d)
    BY <1>2
  <2>2. kcpState'[d] = IF d = c THEN "connecting" ELSE kcpState[d]
    BY <1>1 DEF ServerTypes
  <2>3. TcpLife(d)'
    BY <1>1, <1>3, <2>1, <2>2 DEF TcpLife, InBase
  <2>4. KcpLife(d)'
    BY <1>1, <1>5, <2>1, <2>2 DEF KcpLife, timers, callbacks
  <2>5. UserLife(d)'
    BY <1>1, <1>5, <2>1, <2>2 DEF UserLife, timers, callbacks, users
  <2> QED
    BY <2>3, <2>4, <2>5
<1>7. AddrsLead'
  <2>1. addrOf[c] \in Addrs /\ \A a \in Addrs : addrConns'[a] = IF a = addrOf[c] THEN c ELSE addrConns[a]
    BY <1>1 DEF ServerTypes
  <2>2. \A a \in Addrs : addrConns'[a] # NoConv =>
          addrOf[addrConns'[a]] = a /\ addrConns'[a] \in tcpConnections \cap kcpConnections'
    BY <1>1, <2>1 DEF AddrsLead
  <2>3. ASSUME NEW d \in Created, d \in tcpConnections \cap kcpConnections', Unique(d)
        PROVE  addrConns'[addrOf[d]] = d
    <3>1. addrOf[d] \in Addrs
      BY <1>1, CreatedAre DEF ServerTypes
    <3>2. d # c => addrOf[d] # addrOf[c]
      BY <1>1, <2>3 DEF Unique
    <3> QED
      BY <1>1, <2>1, <2>3, <3>1, <3>2 DEF AddrsLead
  <2>4. current # NoConv => kcpState'[current] # "none"
    BY <1>1, CreatedAre DEF AddrsLead, ServerTypes
  <2>5. \A d \in Created : Unique(d)' <=> Unique(d)
    BY <1>1, <1>3 DEF Unique, client
  <2> QED
    BY <1>1, <1>3, <2>2, <2>3, <2>4, <2>5 DEF AddrsLead, client
<1> QED
  BY <1>1, <1>4, <1>6, <1>7 DEF ServerIInv, Lives, QueuesOnce, NoFault

\* What kcpUpdateManual may come upon: a connection that is neither open nor known to
\* have been closed under its first timer has been closed by a user.
LEMMA UpdateIs ==
  ASSUME ServerIInv, NEW c \in Convs, Update(c), c \in firstUpdate \cup updating \/ c \in asked,
         UNCHANGED <<left, asked, kcpState, kcpConnections>>
  PROVE  /\ updating' = updating \cup {c} \/ updating' = updating
         /\ \A f \in fault' : f[1] \in {"update", "freed"} /\ f[2] = c /\ c \in left \cup asked
<1>1. kcpState[c] # "connected" => c \in left \cup asked
  BY DEF ServerIInv, Lives, UserLife
<1>2. kcpState[c] = "connected" => Alive(c)
  <2>1. KcpLife(c) /\ downs[c] \in Nat
    BY DEF ServerIInv, Lives, ServerTypes
  <2>2. kcpState[c] = "connected" => c \in kcpConnections
    BY <2>1 DEF KcpLife
  <2> QED
    BY <2>2 DEF Alive
<1>3. CASE Alive(c)
  BY <1>1, <1>3 DEF Update, FaultIf
<1>4. CASE ~Alive(c)
  BY <1>1, <1>2, <1>4 DEF Update
<1> QED
  BY <1>3, <1>4

\* An update timer expires.
LEMMA UpdateTimerStep ==
  ASSUME ServerIInv, NEW c \in Convs, UpdateTimer(c)
  PROVE  ServerIInv'
<1>1. /\ ServerTypes /\ QueuesOnce /\ Lives /\ AddrsLead
      /\ c \in firstUpdate \cup updating /\ firstUpdate' \subseteq firstUpdate /\ Update(c)
      /\ UNCHANGED <<client, tables, current, tcpState, kcpState, delayed, baseQueue, queue, users,
                     callbacks>>
  BY DEF ServerIInv, UpdateTimer
<1>2. /\ updating' = updating \cup {c} \/ updating' = updating
      /\ \A f \in fault' : f[1] \in {"update", "freed"} /\ f[2] = c /\ c \in left \cup asked
  BY <1>1, UpdateIs DEF tables, users, callbacks
<1>3. Created' = Created /\ Functors' = Functors
  BY <1>1 DEF client, Created, Functors
<1>4. ServerTypes'
  BY <1>1, <1>2, <1>3 DEF ServerTypes, client, tables, users, callbacks
<1>5. ASSUME NEW d \in Convs PROVE (TcpLife(d) /\ KcpLife(d) /\ UserLife(d))'
  <2>1. TcpLife(d) /\ KcpLife(d) /\ UserLife(d)
    BY <1>1 DEF Lives
  <2>2. d \in firstUpdate' \cup updating' => d \in firstUpdate \cup updating
    BY <1>1, <1>2
  <2>3. TcpLife(d)'
    BY <1>1, <1>3, <2>1 DEF TcpLife, InBase, tables
  <2>4. KcpLife(d)'
    BY <1>1, <2>1, <2>2 DEF KcpLife, tables, callbacks
  <2>5. UserLife(d)'
    BY <1>1, <2>1, <2>2 DEF UserLife, tables, callbacks, users
  <2> QED
    BY <2>3, <2>4, <2>5
<1>6. AddrsLead'
  BY <1>1, <1>3 DEF AddrsLead, Unique, client, tables
<1>7. NoFault'
  BY <1>1, <1>2 DEF NoFault, callbacks, users
<1> QED
  BY <1>1, <1>4, <1>5, <1>6, <1>7 DEF ServerIInv, Lives, QueuesOnce

\* The delay of a close is over.
LEMMA DelayOverStep ==
  ASSUME ServerIInv, NEW c \in Convs, DelayOver(c)
  PROVE  ServerIInv'
<1>1. /\ ServerTypes /\ QueuesOnce /\ Lives /\ AddrsLead
      /\ c \in delayed /\ c \in Created /\ delayed' = delayed \ {c} /\ fault' = {}
      /\ UNCHANGED <<client, tables, current, tcpState, updating, firstUpdate, baseQueue, users,
                     callbacks>>
  BY DEF ServerIInv, DelayOver, ServerTypes
<1>2. \/ /\ kcpState[c] \in {"connected", "connecting", "delay"}
         /\ kcpState' = [kcpState EXCEPT ![c] = "disconnecting"]
         /\ queue' = Append(queue, Functor("forceClose", c))
      \/ ~Alive(c) /\ UNCHANGED <<kcpState, queue>>
      \/ kcpState[c] \notin {"connected", "connecting", "delay"} /\ UNCHANGED <<kcpState, queue>>
  BY DEF DelayOver
<1>3. Created' = Created /\ Functors' = Functors
  BY <1>1 DEF client, Created, Functors
<1>4. c \notin kcpConnections => ~(kcpState[c] = "delay" /\ downs[c] = 0)
  BY <1>1 DEF Lives, KcpLife
<1>5. ~Alive(c) => c \notin kcpConnections
  BY DEF Alive
<1>6. /\ queue' \in Seq(Functors) /\ OnceIn(queue', TcpFunctors)
      /\ \/ /\ kcpState[c] \in {"connected", "connecting", "delay"}
            /\ kcpState' = [kcpState EXCEPT ![c] = "disconnecting"]
            /\ \A o, d : In(queue', o, d) <=> In(queue, o, d) \/ (o = "forceClose" /\ d = c)
         \/ /\ kcpState[c] # "delay" \/ downs[c] # 0
            /\ kcpState' = kcpState /\ queue' = queue
  <2>1. queue \in Seq(Functors) /\ OnceIn(queue, TcpFunctors)
    BY <1>1 DEF ServerTypes, QueuesOnce
  <2>2. Functor("forceClose", c) \in Functors /\ Functor("forceClose", c) \notin TcpFunctors
    BY <1>1, ForKcp DEF OpsOfKcp
  <2>3. CASE queue' = Append(queue, Functor("forceClose", c))
             /\ kcpState[c] \in {"connected", "connecting", "delay"}
             /\ kcpState' = [kcpState EXCEPT ![c] = "disconnecting"]
    BY <2>1, <2>2, <2>3, AppendIn
  <2> QED
    BY <1>2, <1>4, <1>5, <2>1, <2>3
<1>7. ServerTypes'
  BY <1>1, <1>3, <1>6 DEF ServerTypes, client, tables, users, callbacks, KcpStates
<1>8. ASSUME NEW d \in Convs PROVE (TcpLife(d) /\ KcpLife(d) /\ UserLife(d))'
  <2>1. TcpLife(d) /\ KcpLife(d) /\ UserLife(d)
    BY <1>1 DEF Lives
  <2>2. CASE d = c
    <3>1. \/ /\ kcpState[c] \in {"connected", "connecting", "delay"} /\ kcpState'[c] = "disconnecting"
             /\ \A o : In(queue', o, c) <=> In(queue, o, c) \/ o = "forceClose"
          \/ /\ kcpState[c] # "delay" \/ downs[c] # 0
             /\ kcpState' = kcpState /\ queue' = queue
      BY <1>1, <1>6 DEF ServerTypes
    <3>2. TcpLife(c)'
      BY <1>1, <1>3, <2>1, <2>2, <3>1 DEF TcpLife, InBase, tables
    <3>3. c \in asked /\ kcpState[c] # "none"
      BY <1>1, <2>1, <2>2 DEF UserLife
    <3>4. KcpLife(c)'
      BY <1>1, <2>1, <2>2, <3>1, <3>3 DEF KcpLife, tables, callbacks
    <3>5. UserLife(c)'
      BY <1>1, <2>1, <2>2, <3>1, <3>3 DEF UserLife, KcpLife, tables, callbacks, users
    <3> QED
      BY <2>2, <3>2, <3>4, <3>5
  <2>3. CASE d # c
    <3>1. /\ kcpState'[d] = kcpState[d] /\ (d \in delayed' <=> d \in delayed)
          /\ \A o : In(queue', o, d) <=> In(queue, o, d)
      BY <1>1, <1>6, <2>3 DEF ServerTypes
    <3>2. TcpLife(d)'
      BY <1>1, <1>3, <2>1, <3>1 DEF TcpLife, InBase, tables
    <3>3. KcpLife(d)'
      BY <1>1, <2>1, <3>1 DEF KcpLife, tables, callbacks
    <3>4. UserLife(d)'
      BY <1>1, <2>1, <3>1 DEF UserLife, tables, callbacks, users
    <3> QED
      BY <3>2, <3>3, <3>4
  <2> QED
    BY <2>2, <2>3
<1>9. AddrsLead'
  <2>1. current # NoConv => kcpState'[current] # "none"
    BY <1>1, <1>6, CreatedAre DEF AddrsLead, ServerTypes
  <2> QED
    BY <1>1, <1>3, <2>1 DEF AddrsLead, Unique, client, tables
<1> QED
  BY <1>1, <1>6, <1>7, <1>8, <1>9 DEF ServerIInv, Lives, QueuesOnce, NoFault

\* A KCP packet arrives from a known address.
LEMMA DatagramStep ==
  ASSUME ServerIInv, NEW a \in Addrs, Datagram(a)
  PROVE  ServerIInv'
<1>0. PICK c : c = addrConns[a]
  OBVIOUS
<1>1. /\ ServerTypes /\ QueuesOnce /\ Lives /\ AddrsLead
      /\ c # NoConv /\ current' = c /\ updating' = updating \cup {c}
      /\ UNCHANGED <<client, tables, tcpState, baseQueue, userAt, overwritten, downs, left>>
  BY <1>0 DEF ServerIInv, Datagram
<1>2. /\ c \in Created /\ c \in Convs /\ c \in tcpConnections /\ c \in kcpConnections
  BY <1>0, <1>1, CreatedAre DEF ServerTypes, AddrsLead
<1>3. \A d \in Convs : TcpLife(d) /\ KcpLife(d) /\ UserLife(d)
  BY <1>1 DEF Lives
<1>4. /\ downs[c] = 0 /\ kcpState[c] \notin {"none", "disconnected"} /\ downs[c] \in Nat
      /\ kcpState[c] \in {"delay", "disconnecting"} => c \in asked
      /\ tcpState[c] # "connected" => tcpState[c] = "disconnected"
  <2>1. KcpLife(c) /\ UserLife(c) /\ TcpLife(c) /\ downs[c] \in Nat
    BY <1>1, <1>2, <1>3 DEF ServerTypes
  <2> QED
    BY <1>2, <2>1 DEF KcpLife, UserLife, TcpLife
<1>5. Created' = Created /\ Functors' = Functors
  BY <1>1 DEF client, Created, Functors
<1>6. PICK s : /\ s \in Closings
               /\ s # "connected" => c \in asked'
               /\ s = "delay" /\ kcpState[c] = "connecting" => c \in delayed'
               /\ kcpState' = [kcpState EXCEPT ![c] = s]
               /\ kcpState[c] # "connecting" => kcpState' = kcpState
               /\ \/ ups' = ups /\ kcpState[c] # "connecting"
                  \/ ups' = [ups EXCEPT ![c] = @ + 1] /\ kcpState[c] = "connecting"
               /\ firstUpdate' \subseteq firstUpdate \cup {c}
               /\ delayed' = delayed \/ (delayed' = delayed \cup {c} /\ c \in asked')
               /\ asked' = asked \/ asked' = asked \cup {c}
               /\ numCalls' \in 0..MaxCalls
               /\ queue' \in Seq(Functors) /\ OnceIn(queue', TcpFunctors)
               /\ \/ queue' = queue /\ (s # "disconnecting" \/ kcpState[c] # "connecting")
                  \/ \A o, d : In(queue', o, d) <=> In(queue, o, d) \/ (o = "forceClose" /\ d = c)
               /\ fault' = FaultIf(tcpState[c] # "connected", "tcpDown", c)
                        \cup FaultIf(s # "connected", "update", c)
  <2>0. /\ queue \in Seq(Functors) /\ OnceIn(queue, TcpFunctors) /\ numCalls \in 0..MaxCalls
        /\ kcpState \in [Convs -> KcpStates] /\ kcpState[c] \in KcpStates
    BY <1>1, <1>2 DEF ServerTypes, QueuesOnce
  <2>1. CASE kcpState[c] = "connecting"
    <3>1. ConnectEstablished(c)
      BY <1>0, <2>1 DEF Datagram
    <3>2. PICK s \in MayClose :
           /\ kcpState' = [kcpState EXCEPT ![c] = s]
           /\ queue' = IF s = "disconnecting" THEN Append(queue, Functor("forceClose", c)) ELSE queue
           /\ delayed' = IF s = "delay" THEN delayed \cup {c} ELSE delayed
           /\ asked' = IF s # "connected" THEN asked \cup {c} ELSE asked
           /\ numCalls' = IF s # "connected" THEN numCalls + 1 ELSE numCalls
           /\ fault' = FaultIf(tcpState[c] # "connected", "tcpDown", c)
                    \cup FaultIf(s # "connected", "update", c)
      BY <3>1 DEF ConnectEstablished
    <3>3. s \in Closings /\ numCalls' \in 0..MaxCalls
      BY <2>0, <3>2, KcpServerAssumption DEF MayClose, Closings
    <3>4. /\ queue' \in Seq(Functors) /\ OnceIn(queue', TcpFunctors)
          /\ \/ queue' = queue /\ s # "disconnecting"
             \/ \A o, d : In(queue', o, d) <=> In(queue, o, d) \/ (o = "forceClose" /\ d = c)
      <4>1. Functor("forceClose", c) \in Functors /\ Functor("forceClose", c) \notin TcpFunctors
        BY <1>2, ForKcp DEF OpsOfKcp
      <4>2. CASE s = "disconnecting"
        <5>1. queue' = Append(queue, Functor("forceClose", c))
          BY <3>2, <4>2
        <5> QED
          BY <2>0, <4>1, <5>1, AppendIn
      <4> QED
        BY <2>0, <3>2, <4>2
    <3>5. ups' = [ups EXCEPT ![c] = @ + 1] /\ firstUpdate' = firstUpdate \cup {c}
      BY <3>1 DEF ConnectEstablished
    <3>6. s # "connected" => c \in asked'
      BY <3>2
    <3> QED
      BY <2>1, <3>2, <3>3, <3>4, <3>5, <3>6
  <2>2. CASE kcpState[c] # "connecting"
    <3>1. /\ fault' = FaultIf(tcpState[c] # "connected", "tcpDown", c)
                   \cup FaultIf(kcpState[c] # "connected", "update", c)
          /\ UNCHANGED <<kcpState, ups, firstUpdate, queue, delayed, numCalls, asked>>
      BY <1>0, <2>2 DEF Datagram
    <3>2. kcpState[c] \in Closings /\ (kcpState[c] # "connected" => c \in asked)
      BY <1>4, <2>0, <2>2 DEF Closings, KcpStates
    <3>3. kcpState' = [kcpState EXCEPT ![c] = kcpState[c]]
      BY <2>0, <3>1
    <3>4. PICK s : s = kcpState[c]
      OBVIOUS
    <3>5. s \in Closings /\ (s # "connected" => c \in asked') /\ kcpState' = [kcpState EXCEPT ![c] = s]
      BY <3>1, <3>2, <3>3, <3>4
    <3>6. fault' = FaultIf(tcpState[c] # "connected", "tcpDown", c)
                \cup FaultIf(s # "connected", "update", c)
      BY <3>1, <3>4
    <3>7. /\ numCalls' \in 0..MaxCalls /\ queue' \in Seq(Functors) /\ OnceIn(queue', TcpFunctors)
          /\ queue' = queue /\ kcpState' = kcpState /\ ups' = ups
          /\ firstUpdate' \subseteq firstUpdate \cup {c} /\ delayed' = delayed /\ asked' = asked
      BY <2>0, <3>1
    <3> QED
      BY <2>2, <3>5, <3>6, <3>7
  <2> QED
    BY <2>1, <2>2
<1>7. ServerTypes'
  <2>1. ups' \in [Convs -> 0..1]
    <3>1. kcpState[c] = "connecting" => ups[c] = 0
      BY <1>2, <1>3 DEF KcpLife
    <3> QED
      BY <1>1, <1>6, <3>1 DEF ServerTypes
  <2>2. kcpState' \in [Convs -> KcpStates]
    BY <1>1, <1>6 DEF ServerTypes, KcpStates, Closings
  <2>3. /\ asked' \subseteq Created /\ firstUpdate' \subseteq Created /\ delayed' \subseteq Created
        /\ overwritten' \subseteq asked' /\ updating' \subseteq Created /\ current' \in Created
    BY <1>1, <1>2, <1>6 DEF ServerTypes
  <2> QED
    BY <1>1, <1>5, <1>6, <2>1, <2>2, <2>3 DEF ServerTypes, client, tables
<1>8. ASSUME NEW d \in Convs PROVE (TcpLife(d) /\ KcpLife(d) /\ UserLife(d))'
  <2>1. TcpLife(d) /\ KcpLife(d) /\ UserLife(d)
    BY <1>3
  <2>2. CASE d = c
    <3>1. /\ kcpState'[c] = s /\ s \in {"connected", "disconnecting", "delay"}
          /\ \/ queue' = queue /\ (s # "disconnecting" \/ kcpState' = kcpState)
             \/ \A o : In(queue', o, c) <=> In(queue, o, c) \/ o = "forceClose"
      BY <1>1, <1>2, <1>6 DEF ServerTypes, Closings
    <3>2. TcpLife(c)'
      BY <1>1, <1>2, <1>4, <1>5, <2>1, <2>2, <3>1 DEF TcpLife, InBase, tables
    <3>3. KcpLife(c)'
      <4>1. kcpState[c] = "connecting" \/ kcpState' = kcpState
        BY <1>6
      <4> QED
        BY <1>1, <1>2, <1>4, <2>1, <2>2, <3>1, <4>1 DEF KcpLife, tables
    <3>4. s = "delay" => c \in delayed'
      BY <1>4, <1>6, <2>1, <2>2, <3>1 DEF UserLife
    <3>5. s = "disconnecting" => In(queue', "forceClose", c)
      BY <1>4, <2>1, <2>2, <3>1 DEF UserLife
    <3>6. c \in delayed' => c \in asked'
      BY <1>6, <2>1, <2>2 DEF UserLife
    <3>7. UserLife(c)'
      BY <1>1, <1>4, <1>6, <2>1, <2>2, <3>1, <3>4, <3>5, <3>6 DEF UserLife
    <3> QED
      BY <2>2, <3>2, <3>3, <3>7
  <2>3. CASE d # c
    <3>1. /\ kcpState'[d] = kcpState[d] /\ (d \in delayed' <=> d \in delayed) /\ ups'[d] = ups[d]
          /\ \A o : In(queue', o, d) <=> In(queue, o, d)
          /\ (d \in asked' <=> d \in asked) /\ (d \in updating' <=> d \in updating)
          /\ d \in firstUpdate' => d \in firstUpdate
      BY <1>1, <1>6, <2>3 DEF ServerTypes
    <3>2. TcpLife(d)'
      BY <1>1, <1>5, <2>1, <3>1 DEF TcpLife, InBase, tables
    <3>3. KcpLife(d)'
      BY <1>1, <2>1, <3>1 DEF KcpLife, tables
    <3>4. UserLife(d)'
      BY <1>1, <2>1, <3>1 DEF UserLife, tables
    <3> QED
      BY <3>2, <3>3, <3>4
  <2> QED
    BY <2>2, <2>3
<1>9. AddrsLead'
  <2>1. kcpState'[c] # "none"
    BY <1>1, <1>2, <1>6 DEF ServerTypes, Closings
  <2> QED
    BY <1>1, <1>5, <2>1 DEF AddrsLead, Unique, client, tables
<1>10. NoFault'
  BY <1>1, <1>2, <1>4, <1>6 DEF NoFault, FaultIf, tables
<1> QED
  BY <1>1, <1>6, <1>7, <1>8, <1>9, <1>10 DEF ServerIInv, Lives, QueuesOnce

------------------------------------------------------------------------------
(* Threads of the user.                                                       *)

\* A user's thread tests m_state.
LEMMA TestStateStep ==
  ASSUME ServerIInv, NEW c \in Convs, TestState(c)
  PROVE  ServerIInv'
<1>1. /\ ServerTypes /\ QueuesOnce /\ Lives /\ AddrsLead
      /\ c \in Created /\ userAt[c] = "idle" /\ ups[c] > downs[c] /\ numCalls < MaxCalls
      /\ numCalls' = numCalls + 1 /\ asked' = asked \cup {c} /\ fault' = {}
      /\ UNCHANGED <<client, tables, current, tcpState, kcpState, timers, baseQueue, queue, overwritten,
                     callbacks>>
  BY DEF ServerIInv, TestState
<1>2. PICK op \in {"forceClose", "delay", "send"} :
        kcpState[c] \in {"connected", "delay"} /\ userAt' = [userAt EXCEPT ![c] = op]
  BY DEF TestState
<1>3. Created' = Created /\ Functors' = Functors
  BY <1>1 DEF client, Created, Functors
<1>4. ServerTypes'
  BY <1>1, <1>2, <1>3, KcpServerAssumption DEF ServerTypes, client, tables, timers, callbacks
<1>5. c \notin overwritten
  <2>1. ups[c] \in 0..1 /\ downs[c] \in 0..2
    BY <1>1 DEF ServerTypes
  <2>2. downs[c] = 0
    BY <1>1, <2>1
  <2> QED
    BY <1>1, <2>2 DEF Lives, UserLife
<1>6. ASSUME NEW d \in Convs PROVE (TcpLife(d) /\ KcpLife(d) /\ UserLife(d))'
  <2>1. TcpLife(d) /\ KcpLife(d) /\ UserLife(d)
    BY <1>1 DEF Lives
  <2>2. userAt'[d] = IF d = c THEN op ELSE userAt[d]
    BY <1>1, <1>2 DEF ServerTypes
  <2>3. TcpLife(d)'
    BY <1>1, <1>3, <2>1 DEF TcpLife, InBase, tables
  <2>4. KcpLife(d)'
    BY <1>1, <2>1 DEF KcpLife, tables, callbacks, timers
  <2>5. UserLife(d)'
    BY <1>1, <1>2, <1>5, <2>1, <2>2 DEF UserLife, callbacks, timers
  <2> QED
    BY <2>3, <2>4, <2>5
<1>7. AddrsLead'
  BY <1>1, <1>3 DEF AddrsLead, Unique, client, tables
<1> QED
  BY <1>1, <1>4, <1>6, <1>7 DEF ServerIInv, Lives, QueuesOnce, NoFault

\* And acts.
LEMMA SetStateStep ==
  ASSUME ServerIInv, NEW c \in Convs, SetState(c)
  PROVE  ServerIInv'
<1>1. /\ ServerTypes /\ QueuesOnce /\ Lives /\ AddrsLead
      /\ userAt[c] # "idle" /\ userAt' = [userAt EXCEPT ![c] = "idle"] /\ fault' = {}
      /\ kcpState' = [kcpState EXCEPT ![c] =
                       CASE userAt[c] = "forceClose" -> "disconnecting"
                         [] userAt[c] = "delay" -> "delay"
                         [] userAt[c] = "send" -> @]
      /\ queue' = IF userAt[c] = "delay" THEN queue ELSE Append(queue, Functor(userAt[c], c))
      /\ delayed' = IF userAt[c] = "delay" THEN delayed \cup {c} ELSE delayed
      /\ overwritten' = IF kcpState[c] = "disconnected" /\ userAt[c] # "send"
                        THEN overwritten \cup {c} ELSE overwritten
      /\ UNCHANGED <<client, tables, current, tcpState, updating, firstUpdate, baseQueue, numCalls,
                     asked, callbacks>>
  BY DEF ServerIInv, SetState
<1>2. /\ c \in asked /\ c \in Created /\ kcpState[c] \notin {"none", "connecting"}
      /\ c \notin overwritten /\ userAt[c] \in {"forceClose", "delay", "send"}
      /\ downs[c] \in 0..2 /\ kcpState[c] \in KcpStates
  BY <1>1 DEF ServerTypes, Lives, UserLife
<1>3. Created' = Created /\ Functors' = Functors
  BY <1>1 DEF client, Created, Functors
<1>4. PICK s : /\ s = IF userAt[c] = "forceClose" THEN "disconnecting"
                      ELSE IF userAt[c] = "delay" THEN "delay" ELSE kcpState[c]
               /\ kcpState' = [kcpState EXCEPT ![c] = s]
  BY <1>1, <1>2
<1>5. s \in KcpStates /\ s \notin {"none", "connecting"}
  BY <1>2, <1>4 DEF KcpStates
<1>6. /\ queue' \in Seq(Functors) /\ OnceIn(queue', TcpFunctors)
      /\ \/ queue' = queue /\ userAt[c] = "delay"
         \/ /\ userAt[c] \in {"forceClose", "send"}
            /\ \A o, d : In(queue', o, d) <=> In(queue, o, d) \/ (o = userAt[c] /\ d = c)
  <2>1. queue \in Seq(Functors) /\ OnceIn(queue, TcpFunctors)
    BY <1>1 DEF ServerTypes, QueuesOnce
  <2>2. CASE userAt[c] = "delay"
    BY <1>1, <2>1, <2>2
  <2>3. CASE userAt[c] # "delay"
    <3>1. userAt[c] \in OpsOfKcp \cup {"send"}
      BY <1>2, <2>3 DEF OpsOfKcp
    <3>2. Functor(userAt[c], c) \in Functors /\ Functor(userAt[c], c) \notin TcpFunctors
      BY <1>2, <3>1, ForKcp
    <3>3. queue' = Append(queue, Functor(userAt[c], c))
      BY <1>1, <2>3
    <3> QED
      BY <1>2, <2>1, <2>3, <3>2, <3>3, AppendIn
  <2> QED
    BY <2>2, <2>3
<1>7. ServerTypes'
  BY <1>1, <1>2, <1>3, <1>4, <1>5, <1>6 DEF ServerTypes, client, tables, callbacks
<1>8. ASSUME NEW d \in Convs PROVE (TcpLife(d) /\ KcpLife(d) /\ UserLife(d))'
  <2>1. TcpLife(d) /\ KcpLife(d) /\ UserLife(d)
    BY <1>1 DEF Lives
  <2>2. CASE d = c
    <3>1. /\ kcpState'[c] = s /\ userAt'[c] = "idle"
          /\ \/ queue' = queue /\ userAt[c] = "delay"
             \/ /\ userAt[c] \in {"forceClose", "send"}
                /\ \A o : In(queue', o, c) <=> In(queue, o, c) \/ o = userAt[c]
      BY <1>1, <1>4, <1>6 DEF ServerTypes
    <3>2. TcpLife(c)'
      BY <1>1, <1>2, <1>3, <1>5, <2>1, <2>2, <3>1 DEF TcpLife, InBase, tables
    <3>3. KcpLife(c)'
      BY <1>1, <1>2, <1>4, <1>5, <2>1, <2>2, <3>1 DEF KcpLife, UserLife, tables, callbacks
    <3>4. UserLife(c)'
      BY <1>1, <1>2, <1>4, <1>5, <2>1, <2>2, <3>1 DEF UserLife, KcpLife, tables, callbacks
    <3> QED
      BY <2>2, <3>2, <3>3, <3>4
  <2>3. CASE d # c
    <3>1. /\ kcpState'[d] = kcpState[d] /\ (d \in delayed' <=> d \in delayed)
          /\ userAt'[d] = userAt[d] /\ (d \in overwritten' <=> d \in overwritten)
          /\ \A o : In(queue', o, d) <=> In(queue, o, d)
      BY <1>1, <1>4, <1>6, <2>3 DEF ServerTypes
    <3>2. TcpLife(d)'
      BY <1>1, <1>3, <2>1, <3>1 DEF TcpLife, InBase, tables
    <3>3. KcpLife(d)'
      BY <1>1, <2>1, <3>1 DEF KcpLife, tables, callbacks
    <3>4. UserLife(d)'
      BY <1>1, <2>1, <3>1 DEF UserLife, tables, callbacks
    <3> QED
      BY <3>2, <3>3, <3>4
  <2> QED
    BY <2>2, <2>3
<1>9. AddrsLead'
  <2>1. current # NoConv => kcpState'[current] # "none"
    BY <1>1, <1>4, <1>5, CreatedAre DEF AddrsLead, ServerTypes
  <2> QED
    BY <1>1, <1>3, <2>1 DEF AddrsLead, Unique, client, tables
<1> QED
  BY <1>1, <1>6, <1>7, <1>8, <1>9 DEF ServerIInv, Lives, QueuesOnce, NoFault

------------------------------------------------------------------------------
(* The functors of the I/O loop.                                              *)

\* The first functor, of operation op for c, has been taken off: q is what is left.
Popped(op, c, q) ==
  /\ c \in Created /\ op \in Ops /\ q \in Seq(Functors)
  /\ \A o, d : In(queue, o, d) <=> In(q, o, d) \/ (o = op /\ d = c)
  /\ OnceIn(q, TcpFunctors)
  /\ op \in OpsOfTcp => ~In(q, op, c)

LEMMA PoppedIs ==
  ASSUME ServerIInv, queue # <<>>
  PROVE  Popped(Head(queue).op, Head(queue).conv, Tail(queue))
<1> DEFINE op == Head(queue).op
<1> DEFINE c == Head(queue).conv
<1>1. queue \in Seq(Functors) /\ OnceIn(queue, TcpFunctors) /\ ServerTypes
  BY DEF ServerIInv, ServerTypes, QueuesOnce
<1>2. Head(queue) \in Functors
  BY <1>1, TailSet
<1>3. Head(queue) = Functor(op, c) /\ op \in Ops /\ c \in Created
  BY <1>2 DEF Functors, Functor
<1> HIDE DEF op, c
<1>4. op \in OpsOfTcp => Functor(op, c) \in TcpFunctors
  BY <1>1, <1>3, CreatedAre DEF TcpFunctors
<1>5. /\ Tail(queue) \in Seq(Functors)
      /\ \A o, d : In(queue, o, d) <=> In(Tail(queue), o, d) \/ (o = op /\ d = c)
      /\ OnceIn(Tail(queue), TcpFunctors)
      /\ Functor(op, c) \in TcpFunctors => ~In(Tail(queue), op, c)
  BY <1>1, <1>3, TailIn
<1>6. Popped(op, c, Tail(queue))
  BY <1>3, <1>4, <1>5 DEF Popped
<1> QED
  BY <1>6 DEF op, c

\* connectEstablished of TcpConnection.
LEMMA EstablishedStep ==
  ASSUME ServerIInv, NEW c, NEW q, Popped("established", c, q), Established(c), queue' = q,
         UNCHANGED <<connections, client, current, users>>
  PROVE  ServerIInv'
<1>1. /\ ServerTypes /\ QueuesOnce /\ Lives /\ AddrsLead
      /\ c \in Created /\ c \in Convs /\ In(queue, "established", c) /\ ~In(queue', "established", c)
      /\ \A o, d : o # "established" \/ d # c => (In(queue', o, d) <=> In(queue, o, d))
      /\ queue' \in Seq(Functors) /\ OnceIn(queue', TcpFunctors)
  BY CreatedAre DEF ServerIInv, Popped, OpsOfTcp
<1>2. /\ tcpState' = [tcpState EXCEPT ![c] = "connected"]
      /\ tcpConnections' = tcpConnections \cup {c}
      /\ crypts' = crypts \cup {c}
      /\ fault' = FaultIf(c \in tcpConnections \/ c \in kcpConnections, "new", c)
      /\ UNCHANGED <<kcpConnections, addrConns, kcpState, timers, callbacks, baseQueue>>
  BY DEF Established
<1>3. Created' = Created /\ Functors' = Functors
  BY DEF client, Created, Functors
<1>4. ServerTypes'
  BY <1>1, <1>2, <1>3 DEF ServerTypes, client, timers, users, callbacks, TcpStates
<1>5. /\ c \notin tcpConnections /\ kcpState[c] = "none" /\ downs[c] = 0 /\ c \notin kcpConnections
      /\ tcpState[c] = "connecting"
  BY <1>1 DEF Lives, TcpLife, KcpLife
<1>6. ASSUME NEW d \in Convs PROVE (TcpLife(d) /\ KcpLife(d) /\ UserLife(d))'
  <2>1. TcpLife(d) /\ KcpLife(d) /\ UserLife(d) /\ TcpLife(c)
    BY <1>1 DEF Lives
  <2>2. tcpState'[d] = IF d = c THEN "connected" ELSE tcpState[d]
    BY <1>1, <1>2 DEF ServerTypes
  <2>3. TcpLife(d)'
    BY <1>1, <1>2, <1>3, <1>5, <2>1, <2>2 DEF TcpLife, InBase
  <2>4. KcpLife(d)'
    BY <1>1, <1>2, <1>5, <2>1, <2>2 DEF KcpLife, timers, callbacks
  <2>5. UserLife(d)'
    BY <1>1, <1>2, <2>1 DEF UserLife, timers, callbacks, users
  <2> QED
    BY <2>3, <2>4, <2>5
<1>7. AddrsLead'
  BY <1>1, <1>2, <1>3, <1>5 DEF AddrsLead, Unique, client
<1>8. NoFault'
  BY <1>2, <1>5 DEF NoFault, FaultIf
<1> QED
  BY <1>1, <1>2, <1>4, <1>6, <1>7, <1>8 DEF ServerIInv, Lives, QueuesOnce

\* TcpConnection::connectDestroyed.
LEMMA TcpDestroyedStep ==
  ASSUME ServerIInv, NEW c, NEW q, Popped("tcpDestroyed", c, q), queue' = q, fault' = {},
         tcpState' = [tcpState EXCEPT ![c] = "removed"],
         UNCHANGED <<tables, kcpState, timers, callbacks, baseQueue, client, current, users>>
  PROVE  ServerIInv'
<1>1. /\ ServerTypes /\ QueuesOnce /\ Lives /\ AddrsLead
      /\ c \in Created /\ c \in Convs /\ In(queue, "tcpDestroyed", c) /\ ~In(queue', "tcpDestroyed", c)
      /\ \A o, d : o # "tcpDestroyed" \/ d # c => (In(queue', o, d) <=> In(queue, o, d))
      /\ queue' \in Seq(Functors) /\ OnceIn(queue', TcpFunctors)
  BY CreatedAre DEF ServerIInv, Popped, OpsOfTcp
<1>3. Created' = Created /\ Functors' = Functors
  BY DEF client, Created, Functors
<1>4. ServerTypes'
  BY <1>1, <1>3 DEF ServerTypes, client, tables, timers, users, callbacks, TcpStates
<1>6. ASSUME NEW d \in Convs PROVE (TcpLife(d) /\ KcpLife(d) /\ UserLife(d))'
  <2>1. TcpLife(d) /\ KcpLife(d) /\ UserLife(d) /\ TcpLife(c)
    BY <1>1 DEF Lives
  <2>2. tcpState'[d] = IF d = c THEN "removed" ELSE tcpState[d]
    BY <1>1 DEF ServerTypes
  <2>3. TcpLife(d)'
    BY <1>1, <1>3, <2>1, <2>2 DEF TcpLife, InBase, tables
  <2>4. KcpLife(d)'
    BY <1>1, <2>1, <2>2 DEF KcpLife, TcpLife, timers, callbacks, tables
  <2>5. UserLife(d)'
    BY <1>1, <2>1 DEF UserLife, timers, callbacks, users
  <2> QED
    BY <2>3, <2>4, <2>5
<1>7. AddrsLead'
  BY <1>1, <1>3 DEF AddrsLead, Unique, client, tables
<1> QED
  BY <1>1, <1>4, <1>6, <1>7 DEF ServerIInv, Lives, QueuesOnce, NoFault

\* A functor that leaves the connections as they are: send(), or a close and a destruction
\* that come too late.
LEMMA QuietStep ==
  ASSUME ServerIInv, NEW op, NEW c, NEW q, Popped(op, c, q), queue' = q,
         op \in {"forceClose", "kcpDestroyed", "send"},
         op = "forceClose" => ~Closable(c),
         updating' = updating \/ (op = "send" /\ updating' = updating \cup {c}),
         \A f \in fault' : op = "send" /\ f[1] \in {"update", "freed"} /\ f[2] = c,
         UNCHANGED <<tables, tcpState, kcpState, firstUpdate, delayed, callbacks, baseQueue, client,
                     current, users>>
  PROVE  ServerIInv'
<1>1. /\ ServerTypes /\ QueuesOnce /\ Lives /\ AddrsLead
      /\ c \in Created /\ c \in Convs /\ In(queue, op, c)
      /\ \A o, d : In(queue', o, d) => In(queue, o, d)
      /\ \A o, d : o # op \/ d # c => (In(queue', o, d) <=> In(queue, o, d))
      /\ queue' \in Seq(Functors) /\ OnceIn(queue', TcpFunctors)
  BY CreatedAre DEF ServerIInv, Popped
<1>2. op = "send" => c \in asked
  BY <1>1 DEF Lives, UserLife
<1>3. Created' = Created /\ Functors' = Functors
  BY DEF client, Created, Functors
<1>4. ServerTypes'
  BY <1>1, <1>3 DEF ServerTypes, client, tables, users, callbacks
<1>6. ASSUME NEW d \in Convs PROVE (TcpLife(d) /\ KcpLife(d) /\ UserLife(d))'
  <2>1. TcpLife(d) /\ KcpLife(d) /\ UserLife(d)
    BY <1>1 DEF Lives
  <2>2. op \notin OpsOfTcp
    BY DEF OpsOfTcp
  <2>3. TcpLife(d)'
    BY <1>1, <1>3, <2>1, <2>2 DEF TcpLife, InBase, tables
  <2>4. kcpState[d] \in {"none", "connecting"} /\ d = c => op # "send"
    BY <1>1, <2>1 DEF UserLife
  <2>5. KcpLife(d)'
    BY <1>1, <2>1, <2>4 DEF KcpLife, callbacks, tables
  <2>6. UserLife(d)'
    BY <1>1, <1>2, <2>1 DEF UserLife, callbacks, users, Closable
  <2> QED
    BY <2>3, <2>5, <2>6
<1>7. AddrsLead'
  BY <1>1, <1>3 DEF AddrsLead, Unique, client, tables
<1>8. NoFault'
  BY <1>2 DEF NoFault, callbacks, users
<1> QED
  BY <1>1, <1>4, <1>6, <1>7, <1>8 DEF ServerIInv, Lives, QueuesOnce

------------------------------------------------------------------------------
(* The removals.                                                              *)

\* The addresses U are those that ac leads from to a client, which ad leads back from,
\* and T are those clients.
LeadTo(ac, ad, U, T) ==
  /\ NoConv \notin T
  /\ \A a : a \in U <=> a \in Addrs /\ ac[a] # NoConv
  /\ \A a \in U : ac[a] \in T /\ ad[ac[a]] = a
  /\ \A d \in T : ad[d] \in Addrs /\ ac[ad[d]] = d

\* There are as many of the ones as of the others.
LEMMA SameSize ==
  ASSUME NEW ac, NEW ad, NEW U, NEW T, LeadTo(ac, ad, U, T), IsFiniteSet(T)
  PROVE  Cardinality(U) = Cardinality(T)
<1> USE DEF LeadTo
<1> DEFINE f == [d \in T |-> ad[d]]
<1>1. f \in [T -> U]
  OBVIOUS
<1>2. \A u \in U : \E d \in T : f[d] = u
  OBVIOUS
<1>3. \A d, e \in T : f[d] = f[e] => d = e
  OBVIOUS
<1> HIDE DEF f
<1>4. f \in Injection(T, U) /\ f \in Surjection(T, U)
  BY <1>1, <1>2, <1>3 DEF Injection, Surjection, IsInjective
<1>5. Cardinality(U) = Cardinality(T) <=> f \in Injection(T, U)
  BY <1>4, FS_Surjection, Zenon
<1> QED
  BY <1>4, <1>5

\* assertVessels() fails only when some other client is in a part of the tables.
LEMMA VesselsFail ==
  ASSUME ServerTypes', AddrsLead', NEW c,
         c \notin tcpConnections' \cup kcpConnections' \cup crypts'
  PROVE  \A f \in VesselsFault(c) :
           f[1] = "vessels" /\ f[2] = c /\ \E d \in Created' \ {c} : ~Whole(d)'
<1>1. /\ kcpConnections' \subseteq Created' /\ crypts' \subseteq Created' /\ tcpConnections' \subseteq Created'
      /\ numAccepted' \in 0..MaxConns /\ addrOf' \in [Convs -> Addrs]
  BY DEF ServerTypes
<1>2. /\ numAccepted' \in Nat /\ tcpConnections' \in SUBSET (1..numAccepted') /\ NoConv \notin tcpConnections'
      /\ \A d \in tcpConnections' : addrOf'[d] \in Addrs
  <2>1. Created' = 1..numAccepted' /\ Created' \subseteq Convs /\ numAccepted' \in Nat
    BY <1>1, KcpServerAssumption DEF Created, Convs
  <2>2. NoConv \notin Convs
    BY KcpServerAssumption DEF Convs
  <2> QED
    BY <1>1, <2>1, <2>2
<1>3. \A a \in Addrs : addrConns'[a] # NoConv =>
        addrConns'[a] \in tcpConnections' /\ addrOf'[addrConns'[a]] = a
  BY DEF AddrsLead
<1>4. ASSUME \A d \in Created' \ {c} : Whole(d)'
      PROVE  VesselsFault(c) = {}
  <2>1. ASSUME NEW d \in Created' \ {c}
        PROVE  /\ d \in kcpConnections' <=> d \in tcpConnections'
               /\ d \in crypts' <=> d \in tcpConnections'
               /\ d \in tcpConnections' => addrConns'[addrOf'[d]] = d
    <3>1. \E b \in BOOLEAN : <<d \in tcpConnections', d \in kcpConnections', d \in crypts',
                              addrConns'[addrOf'[d]] = d>> = <<b, b, b, b>>
      BY <1>4, <2>1 DEF Whole, InTables
    <3> QED
      BY <3>1
  <2>2. kcpConnections' = tcpConnections' /\ crypts' = tcpConnections'
    BY <1>1, <2>1
  <2>3. \A d \in tcpConnections' : addrConns'[addrOf'[d]] = d
    BY <1>1, <2>1
  <2>4. Cardinality({a \in Addrs : addrConns'[a] # NoConv}) = Cardinality(tcpConnections')
    <3>0. PICK T, ac, ad : T = tcpConnections' /\ ac = addrConns' /\ ad = addrOf'
      OBVIOUS
    <3>1. PICK U : U = {a \in Addrs : ac[a] # NoConv}
      OBVIOUS
    <3>2. IsFiniteSet(T)
      <4>1. IsFiniteSet(1..numAccepted')
        BY <1>2, FS_Interval
      <4> QED
        BY <1>2, <3>0, <3>1, <4>1, FS_Subset
    <3>3. \A d \in T : ad[d] \in Addrs /\ ac[ad[d]] = d
      BY <1>2, <2>3, <3>0, <3>1
    <3>4. \A a \in U : ac[a] \in T /\ ad[ac[a]] = a
      BY <1>3, <3>0, <3>1
    <3>5. LeadTo(ac, ad, U, T)
      BY <1>2, <3>0, <3>1, <3>3, <3>4 DEF LeadTo
    <3>6. Cardinality(U) = Cardinality(T)
      BY <3>2, <3>5, SameSize
    <3> QED
      BY <3>0, <3>1, <3>6
  <2> QED
    BY <2>2, <2>4 DEF VesselsFault, FaultIf
<1>5. \A f \in VesselsFault(c) : f[1] = "vessels" /\ f[2] = c
  BY DEF VesselsFault, FaultIf
<1> QED
  BY <1>4, <1>5

\* removeTcpConnectionInLoop.
LEMMA RemoveTcpStep ==
  ASSUME ServerIInv, NEW c, NEW q, Popped("removeTcp", c, q), RemoveTcp(c, q),
         UNCHANGED <<connections, tcpState, baseQueue, firstUpdate, delayed, ups, client, current,
                     users>>
  PROVE  ServerIInv'
<1>1. /\ ServerTypes /\ QueuesOnce /\ Lives /\ AddrsLead
      /\ c \in Created /\ c \in Convs /\ In(queue, "removeTcp", c) /\ ~In(q, "removeTcp", c)
      /\ \A o, d : In(queue, o, d) <=> In(q, o, d) \/ (o = "removeTcp" /\ d = c)
      /\ q \in Seq(Functors) /\ OnceIn(q, TcpFunctors)
  BY CreatedAre DEF ServerIInv, Popped, OpsOfTcp
<1>2. \A d \in Convs : TcpLife(d) /\ KcpLife(d) /\ UserLife(d) /\ downs[d] \in 0..2
  BY <1>1 DEF Lives, ServerTypes
<1>3. /\ tcpConnections' = tcpConnections \ {c} /\ crypts' = crypts \ {c}
      /\ addrConns' = IF c \in kcpConnections THEN EraseAddr(c) ELSE addrConns
      /\ queue' = Append(q, Functor("tcpDestroyed", c))
      /\ \/ c \in kcpConnections /\ Closable(c) /\ KcpDown(c)
         \/ /\ c \notin kcpConnections \/ ~Closable(c)
            /\ UNCHANGED <<kcpConnections, kcpState, updating, downs, left>>
      /\ fault' = FaultIf(c \notin tcpConnections, "findTcp", c)
               \cup (IF c \notin kcpConnections' THEN VesselsFault(c) ELSE {})
  BY DEF RemoveTcp
<1>4. /\ c \in tcpConnections /\ tcpState[c] = "disconnected" /\ ~InBase(c)
      /\ ~In(queue, "tcpDestroyed", c) /\ ~In(queue, "established", c)
  BY <1>1, <1>2 DEF TcpLife
<1>5. Created' = Created /\ Functors' = Functors
  BY DEF client, Created, Functors
<1>6. /\ queue' \in Seq(Functors) /\ OnceIn(queue', TcpFunctors)
      /\ \A o, d : In(queue', o, d) <=> In(q, o, d) \/ (o = "tcpDestroyed" /\ d = c)
  <2>1. Functor("tcpDestroyed", c) \in Functors
    BY <1>1 DEF Functor, Functors, Ops, OpsOfTcp
  <2>2. ~In(q, "tcpDestroyed", c)
    BY <1>1, <1>4
  <2> QED
    BY <1>1, <1>3, <2>1, <2>2, AppendIn
<1>7. /\ \A o : /\ In(queue', o, c) <=> (In(queue, o, c) /\ o # "removeTcp") \/ o = "tcpDestroyed"
                /\ \A d \in Convs \ {c} : In(queue', o, d) <=> In(queue, o, d)
  BY <1>1, <1>6
<1>8. \/ /\ kcpState' = [kcpState EXCEPT ![c] = "disconnected"] /\ downs' = [downs EXCEPT ![c] = 1]
         /\ kcpState[c] \notin {"none", "disconnected"} /\ downs[c] = 0 /\ c \in kcpConnections
         /\ updating' = updating \ {c} /\ left' = left \cup (firstUpdate \cap {c})
         /\ kcpConnections' = kcpConnections \ {c}
      \/ /\ c \in kcpConnections => kcpState[c] = "delay"
         /\ UNCHANGED <<kcpConnections, kcpState, updating, downs, left>>
  <2>1. CASE c \in kcpConnections /\ Closable(c) /\ KcpDown(c)
    <3>1. downs[c] = 0
      BY <1>1, <1>2, <2>1 DEF KcpLife
    <3> QED
      BY <2>1, <3>1 DEF KcpDown, Closable
  <2>2. CASE /\ c \notin kcpConnections \/ ~Closable(c)
             /\ UNCHANGED <<kcpConnections, kcpState, updating, downs, left>>
    <3>1. c \in kcpConnections => kcpState[c] = "delay"
      <4>1. kcpState[c] \in KcpStates /\ KcpLife(c)
        BY <1>1, <1>2 DEF ServerTypes
      <4> QED
        BY <2>2, <4>1 DEF KcpStates, KcpLife, Closable
    <3> QED
      BY <2>2, <3>1
  <2> QED
    BY <1>3, <2>1, <2>2
<1>9. /\ addrConns' \in [Addrs -> Created \cup {NoConv}] /\ addrOf[c] \in Addrs
      /\ \A a \in Addrs : /\ addrConns'[a] = addrConns[a] \/ (a = addrOf[c] /\ addrConns'[a] = NoConv)
                          /\ addrConns'[a] # c
  <2>1. addrOf[c] \in Addrs /\ addrConns \in [Addrs -> Created \cup {NoConv}] /\ NoConv # c
    BY <1>1, CreatedAre DEF ServerTypes
  <2>2. \A a \in Addrs : addrConns[a] = c => a = addrOf[c] /\ c \in kcpConnections
    BY <1>1, <2>1 DEF AddrsLead
  <2> QED
    BY <1>3, <2>1, <2>2 DEF EraseAddr
<1>10. ServerTypes'
  <2>0. "disconnected" \in KcpStates /\ 1 \in 0..2
    BY DEF KcpStates
  <2>1. /\ kcpState' \in [Convs -> KcpStates] /\ downs' \in [Convs -> 0..2]
        /\ kcpConnections' \subseteq Created /\ updating' \subseteq Created /\ left' \subseteq Created
    <3>1. /\ kcpState \in [Convs -> KcpStates] /\ downs \in [Convs -> 0..2]
          /\ kcpConnections \subseteq Created /\ updating \subseteq Created /\ left \subseteq Created
      BY <1>1 DEF ServerTypes
    <3> QED
      BY <1>1, <1>8, <2>0, <3>1
  <2>2. tcpConnections' \subseteq Created /\ crypts' \subseteq Created
    BY <1>1, <1>3 DEF ServerTypes
  <2> QED
    BY <1>1, <1>5, <1>6, <1>9, <2>1, <2>2 DEF ServerTypes, client, users
<1>11. ASSUME NEW d \in Convs PROVE (TcpLife(d) /\ KcpLife(d) /\ UserLife(d))'
  <2>1. TcpLife(d) /\ KcpLife(d) /\ UserLife(d)
    BY <1>2
  <2>2. CASE d = c
    <3>0. \/ /\ kcpState'[c] = "disconnected" /\ downs'[c] = 1
             /\ kcpState[c] \notin {"none", "disconnected"} /\ downs[c] = 0 /\ c \in kcpConnections
             /\ c \notin updating' /\ (c \in firstUpdate => c \in left')
             /\ c \notin kcpConnections'
          \/ /\ c \in kcpConnections => kcpState[c] = "delay"
             /\ UNCHANGED <<kcpConnections, kcpState, updating, downs, left>>
      BY <1>1, <1>8 DEF ServerTypes
    <3>1. c \notin tcpConnections' /\ c \notin crypts'
      BY <1>3
    <3>2. TcpLife(c)'
      BY <1>1, <1>4, <1>5, <1>7, <2>1, <2>2, <3>0, <3>1 DEF TcpLife, InBase
    <3>3. KcpLife(c)'
      BY <1>7, <2>1, <2>2, <3>0, <3>1 DEF KcpLife
    <3>4. UserLife(c)'
      BY <1>7, <2>1, <2>2, <3>0 DEF UserLife, users
    <3> QED
      BY <2>2, <3>2, <3>3, <3>4
  <2>3. CASE d # c
    <3>1. /\ kcpState'[d] = kcpState[d] /\ downs'[d] = downs[d]
          /\ (d \in kcpConnections' <=> d \in kcpConnections) /\ (d \in updating' <=> d \in updating)
          /\ (d \in left' <=> d \in left) /\ (d \in tcpConnections' <=> d \in tcpConnections)
          /\ (d \in crypts' <=> d \in crypts)
          /\ \A o : In(queue', o, d) <=> In(queue, o, d)
      BY <1>1, <1>3, <1>7, <1>8, <2>3 DEF ServerTypes
    <3>2. TcpLife(d)'
      BY <1>1, <1>5, <2>1, <3>1 DEF TcpLife, InBase
    <3>3. KcpLife(d)'
      BY <2>1, <3>1 DEF KcpLife
    <3>4. UserLife(d)'
      BY <2>1, <3>1 DEF UserLife, users
    <3> QED
      BY <3>2, <3>3, <3>4
  <2> QED
    BY <2>2, <2>3
<1>12. AddrsLead'
  <2>1. kcpConnections \ {c} \subseteq kcpConnections' /\ kcpConnections' \subseteq kcpConnections
    BY <1>8
  <2>2. ASSUME NEW a \in Addrs, addrConns'[a] # NoConv
        PROVE  addrOf[addrConns'[a]] = a /\ addrConns'[a] \in tcpConnections' \cap kcpConnections'
    BY <1>1, <1>3, <1>9, <2>1, <2>2 DEF AddrsLead
  <2>3. ASSUME NEW d \in Created, d \in tcpConnections' \cap kcpConnections', Unique(d)
        PROVE  addrConns'[addrOf[d]] = d
    <3>1. d # c /\ d \in tcpConnections \cap kcpConnections /\ addrOf[d] \in Addrs
      BY <1>1, <1>3, <2>1, <2>3, CreatedAre DEF ServerTypes
    <3>2. addrOf[d] # addrOf[c]
      BY <1>1, <2>3, <3>1 DEF Unique
    <3> QED
      BY <1>1, <1>9, <2>3, <3>1, <3>2 DEF AddrsLead
  <2>4. current # NoConv => kcpState'[current] # "none"
    BY <1>1, <1>8, CreatedAre DEF AddrsLead, ServerTypes
  <2>5. \A d \in Created : Unique(d)' <=> Unique(d)
    BY <1>5 DEF Unique, client
  <2> QED
    BY <1>5, <2>2, <2>3, <2>4, <2>5 DEF AddrsLead, client
<1>13. NoFault'
  <2>1. fault' = IF c \notin kcpConnections' THEN VesselsFault(c) ELSE {}
    BY <1>3, <1>4 DEF FaultIf
  <2>2. c \notin kcpConnections' => c \notin tcpConnections' \cup kcpConnections' \cup crypts'
    BY <1>3
  <2>3. \A f \in fault' :
          f[1] = "vessels" /\ f[2] = c /\ \E d \in Created' \ {c} : ~Whole(d)'
    BY <1>10, <1>12, <2>1, <2>2, VesselsFail
  <2> QED
    BY <2>3 DEF NoFault
<1>14. QueuesOnce'
  BY <1>1, <1>6 DEF QueuesOnce
<1> QED
  BY <1>10, <1>11, <1>12, <1>13, <1>14 DEF ServerIInv, Lives

\* What forceCloseInLoop does to the TCP connection and the queues: nothing, or it
\* closes TCP too, which is then in its table and has not been closed before.
LEMMA CloseWithKcp ==
  ASSUME ServerIInv, NEW c, NEW q, Popped("forceClose", c, q), ForceCloseKcp(c, q),
         UNCHANGED <<client>>
  PROVE  /\ queue' \in Seq(Functors) /\ baseQueue' \in Seq(Created) /\ connections' \subseteq Created
         /\ tcpState' \in [Convs -> TcpStates] /\ QueuesOnce'
         /\ \A d \in Convs \ {c} :
              /\ \A o : In(queue', o, d) <=> In(queue, o, d)
              /\ InBase(d)' <=> InBase(d)
              /\ d \in connections' <=> d \in connections
              /\ tcpState'[d] = tcpState[d]
         /\ \A o \in {"established", "tcpDestroyed", "send"} : In(queue', o, c) <=> In(queue, o, c)
         /\ \/ /\ tcpState'[c] = tcpState[c] /\ tcpState[c] # "connected"
               /\ InBase(c)' <=> InBase(c)
               /\ In(queue', "removeTcp", c) <=> In(queue, "removeTcp", c)
               /\ c \in connections' <=> c \in connections
            \/ /\ c \in tcpConnections /\ tcpState[c] = "connected" /\ tcpState'[c] = "disconnected"
               /\ \/ InBase(c)' /\ ~In(queue', "removeTcp", c) /\ c \in connections'
                  \/ ~InBase(c)' /\ In(queue', "removeTcp", c)
<1>1. /\ ServerTypes /\ QueuesOnce /\ Lives /\ c \in Created /\ c \in Convs
      /\ \A o, d : In(queue, o, d) <=> In(q, o, d) \/ (o = "forceClose" /\ d = c)
      /\ q \in Seq(Functors) /\ OnceIn(q, TcpFunctors)
  BY CreatedAre DEF ServerIInv, Popped
<1>2. TcpLife(c)
  BY <1>1 DEF Lives
<1>3. /\ baseQueue \in Seq(Created) /\ connections \subseteq Created
      /\ tcpState \in [Convs -> TcpStates] /\ OnceIn(baseQueue, Convs)
  BY <1>1 DEF ServerTypes, QueuesOnce
<1>4. CASE c \notin tcpConnections
  <2>1. queue' = q /\ UNCHANGED <<connections, tcpState, baseQueue>>
    BY <1>4 DEF ForceCloseKcp
  <2>2. tcpState[c] # "connected"
    BY <1>2, <1>4 DEF TcpLife
  <2>3. \A d : InBase(d)' <=> InBase(d)
    BY <2>1 DEF InBase
  <2>4. QueuesOnce'
    BY <1>1, <1>3, <2>1 DEF QueuesOnce
  <2> QED
    BY <1>1, <1>3, <2>1, <2>2, <2>3, <2>4
<1>5. CASE c \in tcpConnections
  <2>0. PICK r : r = Append(q, Functor("kcpDestroyed", c))
    OBVIOUS
  <2>1. /\ r \in Seq(Functors) /\ OnceIn(r, TcpFunctors)
        /\ \A o, d : In(r, o, d) <=> In(q, o, d) \/ (o = "kcpDestroyed" /\ d = c)
    <3>1. Functor("kcpDestroyed", c) \in Functors /\ Functor("kcpDestroyed", c) \notin TcpFunctors
      BY <1>1, ForKcp DEF OpsOfKcp
    <3> QED
      BY <1>1, <2>0, <3>1, AppendIn
  <2>2. /\ \A d \in Convs \ {c} : \A o : In(r, o, d) <=> In(queue, o, d)
        /\ \A o \in {"established", "tcpDestroyed", "send", "removeTcp"} : In(r, o, c) <=> In(queue, o, c)
    BY <1>1, <2>1
  <2>3. CASE tcpState[c] = "connected"
    <3>1. CloseTcp(c, r)
      BY <1>5, <2>0, <2>3 DEF ForceCloseKcp
    <3>2. ~In(queue, "removeTcp", c) /\ ~InBase(c) /\ c \in connections
      BY <1>2, <2>3 DEF TcpLife
    <3>3. ~In(r, "removeTcp", c)
      BY <2>2, <3>2
    <3>4. /\ tcpState' = [tcpState EXCEPT ![c] = "disconnected"]
          /\ queue' \in Seq(Functors) /\ baseQueue' \in Seq(Created) /\ connections' \subseteq Created
          /\ QueuesOnce'
          /\ \/ /\ \A d : InBase(d)' <=> InBase(d) \/ d = c
                /\ queue' = r /\ connections' = connections
             \/ /\ \A d : InBase(d)' <=> InBase(d)
                /\ \A o, d : In(queue', o, d) <=> In(r, o, d) \/ (o = "removeTcp" /\ d = c)
                /\ connections' = connections \ {c}
      BY <1>1, <1>2, <1>3, <2>1, <2>3, <3>1, <3>3, CloseTcpIs
    <3>5. tcpState' \in [Convs -> TcpStates] /\ tcpState'[c] = "disconnected"
          /\ \A d \in Convs \ {c} : tcpState'[d] = tcpState[d]
      BY <1>1, <1>3, <3>4 DEF TcpStates
    <3>6. CASE /\ \A d : InBase(d)' <=> InBase(d) \/ d = c
               /\ queue' = r /\ connections' = connections
      BY <1>5, <2>2, <2>3, <3>2, <3>3, <3>4, <3>5, <3>6
    <3>7. CASE /\ \A d : InBase(d)' <=> InBase(d)
               /\ \A o, d : In(queue', o, d) <=> In(r, o, d) \/ (o = "removeTcp" /\ d = c)
               /\ connections' = connections \ {c}
      BY <1>5, <2>2, <2>3, <3>2, <3>4, <3>5, <3>7
    <3> QED
      BY <3>4, <3>6, <3>7
  <2>4. CASE tcpState[c] # "connected"
    <3>1. queue' = r /\ UNCHANGED <<connections, tcpState, baseQueue>>
      BY <1>5, <2>0, <2>4 DEF ForceCloseKcp
    <3>2. \A d : InBase(d)' <=> InBase(d)
      BY <3>1 DEF InBase
    <3>3. QueuesOnce'
      BY <1>3, <2>1, <3>1 DEF QueuesOnce
    <3> QED
      BY <1>1, <1>3, <2>1, <2>2, <2>4, <3>1, <3>2, <3>3
  <2> QED
    BY <2>3, <2>4
<1> QED
  BY <1>4, <1>5

\* forceCloseInLoop of a connection that is not closed, or that a user's call has
\* brought back after its close.
LEMMA ForceCloseStep ==
  ASSUME ServerIInv, NEW c, NEW q, Popped("forceClose", c, q), ForceCloseKcp(c, q),
         UNCHANGED <<firstUpdate, delayed, ups, client, current, users>>
  PROVE  ServerIInv'
<1>1. /\ ServerTypes /\ QueuesOnce /\ Lives /\ AddrsLead /\ c \in Created /\ c \in Convs
  BY CreatedAre DEF ServerIInv, Popped
<1>2. \A d \in Convs : TcpLife(d) /\ KcpLife(d) /\ UserLife(d)
  BY <1>1 DEF Lives
<1>3. /\ kcpState[c] \in {"connecting", "connected", "disconnecting"} /\ tcpConnections' = tcpConnections
      /\ kcpState' = [kcpState EXCEPT ![c] = "disconnected"]
      /\ updating' = updating \ {c}
      /\ downs' = [downs EXCEPT ![c] = @ + 1]
      /\ left' = left \cup (firstUpdate \cap {c})
      /\ kcpConnections' = kcpConnections \ {c}
      /\ IF c \in tcpConnections
         THEN crypts' = crypts \ {c} /\ addrConns' = EraseAddr(c)
         ELSE UNCHANGED <<crypts, addrConns>>
      /\ fault' = FaultIf(c \notin kcpConnections, "findKcp", c)
            \cup (IF c \notin tcpConnections THEN VesselsFault(c) ELSE {})
  BY DEF ForceCloseKcp, KcpDown, Closable
<1>4. /\ queue' \in Seq(Functors) /\ baseQueue' \in Seq(Created) /\ connections' \subseteq Created
      /\ tcpState' \in [Convs -> TcpStates] /\ QueuesOnce'
      /\ \A d \in Convs \ {c} :
           /\ \A o : In(queue', o, d) <=> In(queue, o, d)
           /\ InBase(d)' <=> InBase(d)
           /\ d \in connections' <=> d \in connections
           /\ tcpState'[d] = tcpState[d]
      /\ \A o \in {"established", "tcpDestroyed", "send"} : In(queue', o, c) <=> In(queue, o, c)
      /\ \/ /\ tcpState'[c] = tcpState[c] /\ tcpState[c] # "connected"
            /\ InBase(c)' <=> InBase(c)
            /\ In(queue', "removeTcp", c) <=> In(queue, "removeTcp", c)
            /\ c \in connections' <=> c \in connections
         \/ /\ c \in tcpConnections /\ tcpState[c] = "connected" /\ tcpState'[c] = "disconnected"
            /\ \/ InBase(c)' /\ ~In(queue', "removeTcp", c) /\ c \in connections'
               \/ ~InBase(c)' /\ In(queue', "removeTcp", c)
  BY CloseWithKcp
<1>5. /\ downs[c] \in 0..1 /\ kcpState'[c] = "disconnected" /\ downs'[c] = downs[c] + 1
      /\ c \notin kcpConnections => c \in overwritten
      /\ c \notin overwritten => downs[c] = 0
  <2>1. KcpLife(c) /\ UserLife(c) /\ downs[c] \in 0..2
    BY <1>1, <1>2 DEF ServerTypes
  <2>2. downs[c] # 2
    BY <1>3, <2>1 DEF KcpLife
  <2>3. c \notin overwritten => downs[c] = 0
    BY <1>3, <2>1 DEF UserLife
  <2>4. downs[c] = 0 => c \in kcpConnections
    BY <1>3, <2>1 DEF KcpLife
  <2> QED
    BY <1>1, <1>3, <2>1, <2>2, <2>3, <2>4 DEF ServerTypes
<1>6. c \notin crypts' /\ c \notin kcpConnections'
  BY <1>1, <1>2, <1>3 DEF KcpLife
<1>7. Created' = Created /\ Functors' = Functors
  BY DEF client, Created, Functors
<1>8. /\ addrConns' \in [Addrs -> Created \cup {NoConv}] /\ addrOf[c] \in Addrs
      /\ \A a \in Addrs : /\ addrConns'[a] = addrConns[a] \/ (a = addrOf[c] /\ addrConns'[a] = NoConv)
                          /\ addrConns'[a] # c
  <2>1. addrOf[c] \in Addrs /\ addrConns \in [Addrs -> Created \cup {NoConv}] /\ NoConv # c
    BY <1>1, CreatedAre DEF ServerTypes
  <2>2. \A a \in Addrs : addrConns[a] = c => a = addrOf[c] /\ c \in tcpConnections
    BY <1>1, <2>1 DEF AddrsLead
  <2> QED
    BY <1>3, <2>1, <2>2 DEF EraseAddr
<1>9. ServerTypes'
  <2>1. kcpState' \in [Convs -> KcpStates] /\ downs' \in [Convs -> 0..2]
    <3>1. "disconnected" \in KcpStates /\ kcpState \in [Convs -> KcpStates] /\ downs \in [Convs -> 0..2]
      BY <1>1 DEF ServerTypes, KcpStates
    <3> QED
      BY <1>1, <1>3, <1>5, <3>1
  <2>2. /\ kcpConnections' \subseteq Created /\ updating' \subseteq Created /\ left' \subseteq Created
        /\ crypts' \subseteq Created
    BY <1>1, <1>3 DEF ServerTypes
  <2> QED
    BY <1>1, <1>3, <1>4, <1>7, <1>8, <2>1, <2>2 DEF ServerTypes, client, users
<1>10. ASSUME NEW d \in Convs PROVE (TcpLife(d) /\ KcpLife(d) /\ UserLife(d))'
  <2>1. TcpLife(d) /\ KcpLife(d) /\ UserLife(d)
    BY <1>2
  <2>2. CASE d = c
    <3>1. kcpState[c] # "none" /\ c \in Created'
      BY <1>1, <1>3, <1>7
    <3>2. TcpLife(c)'
      BY <1>3, <1>4, <1>5, <2>1, <2>2, <3>1 DEF TcpLife
    <3>3. KcpLife(c)'
      <4>1. c \in tcpConnections => tcpState'[c] = "disconnected"
        BY <1>1, <1>2, <1>4 DEF TcpLife
      <4> QED
        BY <1>3, <1>4, <1>5, <1>6, <2>1, <2>2, <4>1 DEF KcpLife
    <3>4. UserLife(c)'
      BY <1>3, <1>4, <1>5, <2>1, <2>2 DEF UserLife, users
    <3> QED
      BY <2>2, <3>2, <3>3, <3>4
  <2>3. CASE d # c
    <3>1. /\ kcpState'[d] = kcpState[d] /\ downs'[d] = downs[d]
          /\ (d \in kcpConnections' <=> d \in kcpConnections) /\ (d \in updating' <=> d \in updating)
          /\ (d \in left' <=> d \in left) /\ (d \in crypts' <=> d \in crypts)
      BY <1>1, <1>3, <2>3 DEF ServerTypes
    <3>2. TcpLife(d)'
      BY <1>3, <1>4, <1>7, <2>1, <2>3, <3>1 DEF TcpLife
    <3>3. KcpLife(d)'
      BY <1>3, <1>4, <2>1, <2>3, <3>1 DEF KcpLife
    <3>4. UserLife(d)'
      BY <1>4, <2>1, <2>3, <3>1 DEF UserLife, users
    <3> QED
      BY <3>2, <3>3, <3>4
  <2> QED
    BY <2>2, <2>3
<1>11. AddrsLead'
  <2>1. ASSUME NEW a \in Addrs, addrConns'[a] # NoConv
        PROVE  addrOf[addrConns'[a]] = a /\ addrConns'[a] \in tcpConnections' \cap kcpConnections'
    BY <1>1, <1>3, <1>8, <2>1 DEF AddrsLead
  <2>2. ASSUME NEW d \in Created, d \in tcpConnections' \cap kcpConnections', Unique(d)
        PROVE  addrConns'[addrOf[d]] = d
    <3>1. d # c /\ d \in tcpConnections \cap kcpConnections /\ addrOf[d] \in Addrs
      BY <1>1, <1>3, <2>2, CreatedAre DEF ServerTypes
    <3>2. addrOf[d] # addrOf[c]
      BY <1>1, <2>2, <3>1 DEF Unique
    <3> QED
      BY <1>1, <1>8, <2>2, <3>1, <3>2 DEF AddrsLead
  <2>3. current # NoConv => kcpState'[current] # "none"
    BY <1>1, <1>3, CreatedAre DEF AddrsLead, ServerTypes
  <2>4. \A d \in Created : Unique(d)' <=> Unique(d)
    BY <1>7 DEF Unique, client
  <2> QED
    BY <1>7, <2>1, <2>2, <2>3, <2>4 DEF AddrsLead, client
<1>12. NoFault'
  <2>1. c \notin tcpConnections => c \notin tcpConnections' \cup kcpConnections' \cup crypts'
    BY <1>3, <1>6
  <2>2. c \notin tcpConnections => \A f \in VesselsFault(c) :
          f[1] = "vessels" /\ f[2] = c /\ \E d \in Created' \ {c} : ~Whole(d)'
    BY <1>9, <1>11, <2>1, VesselsFail
  <2>3. \A f \in FaultIf(c \notin kcpConnections, "findKcp", c) : f[2] = c /\ c \in overwritten'
    BY <1>5 DEF FaultIf, users
  <2>4. ASSUME NEW f \in fault'
        PROVE  \/ f[1] = "vessels" /\ f[2] = c /\ \E d \in Created' \ {c} : ~Whole(d)'
               \/ f[2] = c /\ c \in overwritten'
    BY <1>3, <2>2, <2>3, <2>4
  <2> QED
    BY <2>4 DEF NoFault
<1> QED
  BY <1>4, <1>9, <1>10, <1>11, <1>12 DEF ServerIInv, Lives

------------------------------------------------------------------------------
(* The theorems.                                                              *)

\* A functor of the I/O loop is run.
LEMMA RunFunctorStep ==
  ASSUME ServerIInv, RunFunctor
  PROVE  ServerIInv'
<1>0. PICK op, c, q : op = Head(queue).op /\ c = Head(queue).conv /\ q = Tail(queue)
  OBVIOUS
<1>1. Popped(op, c, q) /\ UNCHANGED <<client, current, users>>
  BY <1>0, PoppedIs DEF RunFunctor
<1>2. CASE op = "established" /\ Established(c) /\ queue' = q /\ UNCHANGED connections
  BY <1>1, <1>2, EstablishedStep
<1>3. CASE op = "removeTcp" /\ RemoveTcp(c, q)
           /\ UNCHANGED <<connections, tcpState, baseQueue, firstUpdate, delayed, ups>>
  BY <1>1, <1>3, RemoveTcpStep
<1>4. CASE op = "tcpDestroyed" /\ tcpState' = [tcpState EXCEPT ![c] = "removed"] /\ queue' = q
           /\ fault' = {} /\ UNCHANGED <<tables, kcpState, timers, callbacks, baseQueue>>
  BY <1>1, <1>4, TcpDestroyedStep
<1>5. CASE op = "forceClose" /\ ForceCloseKcp(c, q) /\ UNCHANGED <<firstUpdate, delayed, ups>>
  BY <1>1, <1>5, ForceCloseStep
<1>6. CASE op = "forceClose" /\ ~Closable(c) /\ queue' = q /\ fault' = {}
           /\ UNCHANGED <<tables, tcpState, kcpState, timers, callbacks, baseQueue>>
  BY <1>1, <1>6, QuietStep DEF timers
<1>7. CASE /\ op = "kcpDestroyed" /\ queue' = q /\ fault' = {}
           /\ IF kcpState[c] = "connected"
              THEN /\ kcpState' = [kcpState EXCEPT ![c] = "disconnected"]
                   /\ downs' = [downs EXCEPT ![c] = @ + 1]
              ELSE UNCHANGED <<kcpState, downs>>
           /\ UNCHANGED <<tables, tcpState, timers, ups, left, baseQueue>>
  <2>1. kcpState[c] # "connected"
    <3>1. In(queue, "kcpDestroyed", c) /\ c \in Convs
      BY <1>1, <1>7, CreatedAre DEF Popped, ServerIInv
    <3> QED
      BY <3>1 DEF ServerIInv, Lives, KcpLife
  <2> QED
    BY <1>1, <1>7, <2>1, QuietStep DEF timers, callbacks
<1>8. CASE /\ op = "send" /\ queue' = q
           /\ IF Alive(c) /\ kcpState[c] \in {"disconnected", "connecting"}
              THEN fault' = {} /\ UNCHANGED <<updating>>
              ELSE Update(c)
           /\ UNCHANGED <<tables, tcpState, kcpState, firstUpdate, delayed, callbacks, baseQueue>>
  <2>1. CASE fault' = {} /\ UNCHANGED updating
    BY <1>1, <1>8, <2>1, QuietStep
  <2>2. CASE Update(c)
    <3>1. c \in Convs /\ c \in asked
      BY <1>1, <1>8, CreatedAre DEF Popped, ServerIInv, Lives, UserLife
    <3>2. UNCHANGED <<left, asked, kcpState, kcpConnections>>
      BY <1>1, <1>8 DEF users, callbacks, tables
    <3>3. /\ updating' = updating \cup {c} \/ updating' = updating
          /\ \A f \in fault' : f[1] \in {"update", "freed"} /\ f[2] = c
      BY <2>2, <3>1, <3>2, UpdateIs
    <3> QED
      BY <1>1, <1>8, <3>3, QuietStep
  <2> QED
    BY <1>8, <2>1, <2>2
<1> QED
  BY <1>0, <1>2, <1>3, <1>4, <1>5, <1>6, <1>7, <1>8 DEF RunFunctor

\* Nobody is connected at first.
LEMMA InitStep ==
  ASSUME Init
  PROVE  ServerIInv
<1>1. Created = {} /\ 0 \in 0..MaxConns /\ 0 \in 0..MaxCalls
  BY KcpServerAssumption DEF Init, Created
<1>2. ServerTypes
  BY <1>1 DEF Init, ServerTypes, TcpStates, KcpStates, Functors
<1>3. /\ \A o, c : ~In(queue, o, c)
      /\ \A c : ~InBase(c)
      /\ QueuesOnce
  BY DEF Init, In, InBase, QueuesOnce, OnceIn, ToSet
<1>4. ASSUME NEW c \in Convs PROVE TcpLife(c) /\ KcpLife(c) /\ UserLife(c)
  <2>1. /\ kcpState[c] = "none" /\ tcpState[c] = "connecting" /\ downs[c] = 0 /\ ups[c] = 0
        /\ userAt[c] = "idle"
    BY DEF Init
  <2>2. TcpLife(c)
    BY <1>1, <1>3, <2>1 DEF Init, TcpLife
  <2>3. KcpLife(c)
    BY <1>3, <2>1 DEF Init, KcpLife
  <2>4. UserLife(c)
    BY <1>3, <2>1 DEF Init, UserLife
  <2> QED
    BY <2>2, <2>3, <2>4
<1>5. AddrsLead
  BY <1>1 DEF Init, AddrsLead
<1>6. NoFault
  BY DEF Init, NoFault
<1> QED
  BY <1>2, <1>3, <1>4, <1>5, <1>6 DEF ServerIInv, Lives

\* Every step keeps the invariant.
LEMMA ServerStep ==
  ASSUME ServerIInv, [Next]_vars
  PROVE  ServerIInv'
<1>1. CASE NewConnection
  BY <1>1, NewConnectionStep
<1>2. CASE Loop
  BY <1>2, RunFunctorStep, BaseStep DEF Loop
<1>3. ASSUME NEW a \in Addrs, Datagram(a) PROVE ServerIInv'
  BY <1>3, DatagramStep
<1>4. ASSUME NEW c \in Convs, Client(c) PROVE ServerIInv'
  BY <1>4, TcpEndsStep, HandshakeStep DEF Client
<1>5. ASSUME NEW c \in Convs, Timer(c) PROVE ServerIInv'
  BY <1>5, UpdateTimerStep, DelayOverStep DEF Timer
<1>6. ASSUME NEW c \in Convs, User(c) PROVE ServerIInv'
  BY <1>6, TestStateStep, SetStateStep DEF User
<1>7. CASE UNCHANGED vars
  <2>1. /\ UNCHANGED <<oneLoop, numAccepted, addrOf, connections, tcpConnections, kcpConnections,
                       crypts, addrConns, current, tcpState, kcpState, updating, firstUpdate, delayed>>
        /\ UNCHANGED <<baseQueue, queue, userAt, numCalls, overwritten, asked, ups, downs, left, fault>>
    BY <1>7 DEF vars, client, tables, timers, users, callbacks
  <2>2. Created' = Created /\ Functors' = Functors
    BY <2>1 DEF Created, Functors
  <2>3. ServerTypes' /\ QueuesOnce' /\ AddrsLead'
    BY <2>1, <2>2 DEF ServerIInv, ServerTypes, QueuesOnce, AddrsLead, Unique
  <2>4. ASSUME NEW c \in Convs PROVE (TcpLife(c) /\ KcpLife(c) /\ UserLife(c))'
    BY <2>1, <2>2 DEF ServerIInv, Lives, TcpLife, KcpLife, UserLife, InBase
  <2>5. NoFault'
    <3>1. \A d \in Created : Whole(d)' <=> Whole(d)
      BY <2>1 DEF Whole, InTables
    <3> QED
      BY <2>1, <2>2, <3>1 DEF ServerIInv, NoFault
  <2> QED
    BY <2>3, <2>4, <2>5 DEF ServerIInv, Lives
<1> QED
  BY <1>1, <1>2, <1>3, <1>4, <1>5, <1>6, <1>7 DEF Next

\* The lives of the connections of every client, where the tables and the addresses
\* lead, and which assertions fail.
THEOREM ServerInvariant == Spec => []ServerIInv
<1>1. Init => ServerIInv
  BY InitStep
<1>2. ServerIInv /\ [Next]_vars => ServerIInv'
  BY ServerStep
<1> QED
  BY <1>1, <1>2, PTL DEF Spec

\* Of the invariant, the types and what can go wrong.
LEMMA SoundHolds ==
  ASSUME ServerIInv
  PROVE  Sound
<1>1. ServerTypes /\ Lives /\ AddrsLead /\ NoFault
  BY DEF ServerIInv
<1>2. ASSUME NEW c \in Convs
      PROVE  /\ tcpState[c] \in {"connecting", "connected", "disconnected", "removed"}
             /\ kcpState[c] \in {"none", "connecting", "connected", "delay", "disconnecting",
                                 "disconnected"}
             /\ kcpState[c] = "none" => c \notin kcpConnections /\ c # current
             /\ userAt[c] \in {"idle", "forceClose", "delay", "send"}
             /\ ups[c] \in 0..1 /\ downs[c] \in 0..2
  <2>1. KcpLife(c) /\ c # NoConv
    BY <1>1, CreatedAre DEF Lives
  <2> QED
    BY <1>1, <2>1 DEF ServerTypes, TcpStates, KcpStates, KcpLife, AddrsLead
<1>3. TypeOK
  BY <1>1, <1>2 DEF ServerTypes, TypeOK, Functors
<1> QED
  BY <1>1, <1>3 DEF Sound

\* Which tables a client is in, as truth values.
LEMMA InTablesAre ==
  ASSUME NEW c, NEW t \in BOOLEAN, NEW k \in BOOLEAN, NEW s \in BOOLEAN, NEW a \in BOOLEAN,
         c \in tcpConnections <=> t, c \in kcpConnections <=> k, c \in crypts <=> s,
         (addrConns[addrOf[c]] = c) <=> a
  PROVE  InTables(c) = <<t, k, s, a>>
<1>1. (c \in tcpConnections) = t
  OBVIOUS
<1>2. (c \in kcpConnections) = k
  OBVIOUS
<1>3. (c \in crypts) = s
  OBVIOUS
<1>4. (addrConns[addrOf[c]] = c) = a
  OBVIOUS
<1> QED
  BY <1>1, <1>2, <1>3, <1>4, Zenon DEF InTables

\* And how a client's four tables agree.
LEMMA TablesHold ==
  ASSUME ServerIInv
  PROVE  TablesAgree
<1>1. ServerTypes /\ Lives /\ AddrsLead
  BY DEF ServerIInv
<1>2. \A a \in Addrs : addrConns[a] # NoConv =>
        addrOf[addrConns[a]] = a /\ addrConns[a] \in tcpConnections \cap kcpConnections
  BY <1>1 DEF AddrsLead
<1>3. ASSUME NEW c \in Created, c \notin overwritten
      PROVE  LET t == InTables(c)
             IN \/ t = <<FALSE, FALSE, FALSE, FALSE>> /\ kcpState[c] \in {"none", "disconnected"}
                \/ t = <<TRUE, FALSE, TRUE, FALSE>> /\ kcpState[c] = "none"
                \/ t = <<TRUE, TRUE, TRUE, TRUE>> /\ kcpState[c] \notin {"none", "disconnected"}
                \/ t = <<TRUE, TRUE, TRUE, FALSE>> /\ ~Unique(c)
                \/ t = <<TRUE, FALSE, FALSE, FALSE>> /\ tcpState[c] = "disconnected" /\ downs[c] > 0
                \/ t = <<FALSE, TRUE, FALSE, FALSE>> /\ c \in asked
                      /\ (c \in delayed \/ Queued({"forceClose"}, c) \/ userAt[c] = "forceClose")
  <2>1. /\ c \in Convs /\ KcpLife(c) /\ UserLife(c) /\ downs[c] \in 0..2 /\ addrOf[c] \in Addrs
        /\ c # NoConv
    BY <1>1, CreatedAre DEF Lives, ServerTypes
  <2>2. In(queue, "forceClose", c) => Queued({"forceClose"}, c)
    BY <1>1, QueuedIs DEF ServerTypes, Functors
  <2>3. addrConns[addrOf[c]] = c => c \in tcpConnections /\ c \in kcpConnections
    BY <1>2, <2>1
  <2>4. CASE downs[c] > 0
    <3>1. /\ kcpState[c] = "disconnected" /\ c \notin kcpConnections /\ c \notin crypts
          /\ c \in tcpConnections => tcpState[c] = "disconnected"
      BY <1>3, <2>1, <2>4 DEF KcpLife, UserLife
    <3>2. c \in tcpConnections => InTables(c) = <<TRUE, FALSE, FALSE, FALSE>>
      BY <2>3, <3>1, InTablesAre
    <3>3. c \notin tcpConnections => InTables(c) = <<FALSE, FALSE, FALSE, FALSE>>
      BY <2>3, <3>1, InTablesAre
    <3> QED
      BY <2>4, <3>1, <3>2, <3>3
  <2>5. CASE downs[c] = 0 /\ kcpState[c] = "none"
    <3>1. c \notin kcpConnections /\ (c \in crypts <=> c \in tcpConnections)
      BY <2>1, <2>5 DEF KcpLife
    <3>2. c \in tcpConnections => InTables(c) = <<TRUE, FALSE, TRUE, FALSE>>
      BY <2>3, <3>1, InTablesAre
    <3>3. c \notin tcpConnections => InTables(c) = <<FALSE, FALSE, FALSE, FALSE>>
      BY <2>3, <3>1, InTablesAre
    <3> QED
      BY <2>5, <3>2, <3>3
  <2>6. CASE downs[c] = 0 /\ kcpState[c] # "none"
    <3>1. /\ c \in kcpConnections /\ (c \in crypts <=> c \in tcpConnections)
          /\ kcpState[c] # "disconnected"
      BY <2>1, <2>6 DEF KcpLife
    <3>2. CASE c \in tcpConnections
      <4>1. Unique(c) => addrConns[addrOf[c]] = c
        BY <1>1, <3>1, <3>2 DEF AddrsLead
      <4>2. addrConns[addrOf[c]] = c => InTables(c) = <<TRUE, TRUE, TRUE, TRUE>>
        BY <3>1, <3>2, InTablesAre
      <4>3. addrConns[addrOf[c]] # c => InTables(c) = <<TRUE, TRUE, TRUE, FALSE>>
        BY <3>1, <3>2, InTablesAre
      <4> QED
        BY <2>6, <3>1, <4>1, <4>2, <4>3
    <3>3. CASE c \notin tcpConnections
      <4>1. c \in asked /\ (c \in delayed \/ Queued({"forceClose"}, c))
        BY <2>1, <2>2, <2>6, <3>1, <3>3 DEF KcpLife, UserLife
      <4>2. InTables(c) = <<FALSE, TRUE, FALSE, FALSE>>
        BY <2>3, <3>1, <3>3, InTablesAre
      <4> QED
        BY <4>1, <4>2
    <3> QED
      BY <3>2, <3>3
  <2>7. \/ downs[c] > 0
        \/ downs[c] = 0 /\ kcpState[c] = "none"
        \/ downs[c] = 0 /\ kcpState[c] # "none"
    BY <2>1
  <2> QED
    BY <2>4, <2>5, <2>6, <2>7, Zenon
<1> QED
  BY <1>2, <1>3 DEF TablesAgree

\* The state of the server has its types, and an assertion fails, a destroyed object is
\* used or a lookup finds nothing only in the situations that Sound names.
THEOREM ServerSound == Spec => []Sound
<1>1. ServerIInv => Sound
  BY SoundHolds
<1> QED
  BY <1>1, ServerInvariant, PTL

\* Between two handlers every client is in the tables in one of the ways TablesAgree
\* lists, and every address leads to a client that is in all of them.
THEOREM ServerTablesAgree == Spec => []TablesAgree
<1>1. ServerIInv => TablesAgree
  BY TablesHold
<1> QED
  BY <1>1, ServerInvariant, PTL
=============================================================================

--------------------------- MODULE TcpServerProofs ---------------------------
(****************************************************************************)
(* What TcpServer.tla guarantees for any number of I/O loops, connections and  *)
(* other threads, proved.                                                   *)
(****************************************************************************)
EXTENDS TcpServer, SequenceTheorems, FiniteSetTheorems, TLAPS

------------------------------------------------------------------------------
(* How often an element is in a sequence.                                     *)

Positions(s, e) == {i \in DOMAIN s : s[i] = e}
Count(s, e) == Cardinality(Positions(s, e))

LEMMA PositionsFinite ==
  ASSUME NEW S, NEW s \in Seq(S), NEW e
  PROVE  IsFiniteSet(Positions(s, e)) /\ Count(s, e) \in Nat
<1>1. DOMAIN s = 1..Len(s) /\ Len(s) \in Nat
  BY LenProperties
<1>2. IsFiniteSet(1..Len(s))
  BY <1>1, FS_Interval
<1>3. Positions(s, e) \subseteq 1..Len(s)
  BY <1>1 DEF Positions
<1>4. QED  BY <1>2, <1>3, FS_Subset, FS_CardinalityType DEF Count

\* What occurs is somewhere.
LEMMA CountPositive ==
  ASSUME NEW S, NEW s \in Seq(S), NEW e
  PROVE  Count(s, e) = 0 <=> \A i \in DOMAIN s : s[i] # e
<1>1. Count(s, e) = 0 <=> Positions(s, e) = {}
  BY PositionsFinite, FS_EmptySet DEF Count
<1>2. QED  BY <1>1 DEF Positions

LEMMA CountAppend ==
  ASSUME NEW S, NEW s \in Seq(S), NEW e \in S, NEW x
  PROVE  Count(Append(s, e), x) = Count(s, x) + (IF e = x THEN 1 ELSE 0)
<1> DEFINE n == Len(s) + 1
<1>1. /\ n \in Nat /\ n = Len(s) + 1
      /\ DOMAIN s = 1..Len(s) /\ Len(s) \in Nat
      /\ DOMAIN Append(s, e) = 1..n
      /\ \A i \in 1..Len(s) : Append(s, e)[i] = s[i]
      /\ Append(s, e)[n] = e
  BY AppendProperties, LenProperties
<1> HIDE DEF n
<1>2. Positions(Append(s, e), x) = IF e = x THEN Positions(s, x) \cup {n} ELSE Positions(s, x)
  BY <1>1 DEF Positions
<1>3. n \notin Positions(s, x)
  BY <1>1 DEF Positions
<1>4. IsFiniteSet(Positions(s, x)) /\ Count(s, x) \in Nat
  BY PositionsFinite
<1>5. Cardinality(Positions(s, x) \cup {n}) = Cardinality(Positions(s, x)) + 1
  BY <1>3, <1>4, FS_AddElement
<1>6. QED  BY <1>2, <1>4, <1>5 DEF Count

LEMMA CountTail ==
  ASSUME NEW S, NEW s \in Seq(S), s # <<>>, NEW x
  PROVE  Count(Tail(s), x) = Count(s, x) - (IF Head(s) = x THEN 1 ELSE 0)
<1> DEFINE A == Positions(Tail(s), x)
           B == Positions(s, x) \ {1}
           next == [i \in A |-> i + 1]
<1>1. /\ DOMAIN s = 1..Len(s) /\ Len(s) \in Nat \ {0}
      /\ DOMAIN Tail(s) = 1..(Len(s) - 1)
      /\ \A i \in 1..(Len(s) - 1) : Tail(s)[i] = s[i + 1]
      /\ Head(s) = s[1]
      /\ Tail(s) \in Seq(S)
  BY HeadTailProperties, LenProperties, EmptySeq
<1>2. IsFiniteSet(A) /\ IsFiniteSet(Positions(s, x)) /\ Cardinality(Positions(s, x)) \in Nat
  BY <1>1, PositionsFinite DEF Count
<1>3. /\ A \subseteq Nat
      /\ \A i \in A : i + 1 \in B
      /\ \A i \in B : i - 1 \in A /\ i \in Nat
  BY <1>1 DEF Positions
<1> HIDE DEF A, B
<1>4. next \in Bijection(A, B)
  <2>1. next \in [A -> B]
    BY <1>3
  <2>2. \A i, j \in A : next[i] = next[j] => i = j
    BY <1>3
  <2>3. \A j \in B : \E i \in A : next[i] = j
    <3> SUFFICES ASSUME NEW j \in B PROVE \E i \in A : next[i] = j
      OBVIOUS
    <3>1. j - 1 \in A /\ next[j - 1] = j
      BY <1>3
    <3>2. QED  BY <3>1
  <2>4. QED  BY <2>1, <2>2, <2>3 DEF Bijection, Injection, Surjection, IsInjective
<1>5. Cardinality(B) = Cardinality(A)
  <2> HIDE DEF next
  <2>1. ExistsBijection(A, B)
    BY <1>4 DEF ExistsBijection
  <2>2. QED  BY <1>2, <2>1, FS_Bijection
<1>6. Cardinality(Positions(s, x) \ {1})
        = Cardinality(Positions(s, x)) - (IF 1 \in Positions(s, x) THEN 1 ELSE 0)
  <2>1. CASE 1 \in Positions(s, x)
    BY <1>2, <2>1, FS_RemoveElement
  <2>2. CASE 1 \notin Positions(s, x)
    <3>1. Positions(s, x) \ {1} = Positions(s, x)
      BY <2>2
    <3>2. Cardinality(Positions(s, x)) = Cardinality(Positions(s, x)) - 0
      BY <1>2
    <3>3. QED  BY <2>2, <3>1, <3>2
  <2>3. QED  BY <2>1, <2>2
<1>7. 1 \in Positions(s, x) <=> Head(s) = x
  BY <1>1 DEF Positions
<1>8. QED  BY <1>5, <1>6, <1>7 DEF Count, A, B

\* The sequence of a finite set's elements has each of them once.
LEMMA SetToSeqProperties ==
  ASSUME NEW S, IsFiniteSet(S)
  PROVE  /\ SetToSeq(S) \in [1..Cardinality(S) -> S]
         /\ \A i, j \in 1..Cardinality(S) : SetToSeq(S)[i] = SetToSeq(S)[j] => i = j
         /\ \A x \in S : \E i \in 1..Cardinality(S) : SetToSeq(S)[i] = x
<1> DEFINE n == Cardinality(S)
<1>1. n \in Nat /\ ExistsBijection(1..n, S)
  BY FS_CardinalityType
<1>2. IsFiniteSet(1..n) /\ Cardinality(1..n) = n
  <2> HIDE DEF n
  <2>1. QED  BY <1>1, FS_Interval
<1>3. PICK f : f \in Bijection(1..n, S)
  BY <1>1 DEF ExistsBijection
<1>4. f \in [1..n -> S] /\ IsInjective(f)
  BY <1>3 DEF Bijection, Injection
<1>5. SetToSeq(S) \in [1..n -> S] /\ IsInjective(SetToSeq(S))
  BY <1>4 DEF SetToSeq
<1>6. SetToSeq(S) \in Injection(1..n, S)
  BY <1>5 DEF Injection, IsInjective
<1>7. SetToSeq(S) \in Surjection(1..n, S)
  BY <1>2, <1>6, FS_Injection
<1>8. QED  BY <1>5, <1>7 DEF Surjection, IsInjective

LEMMA CountSetToSeq ==
  ASSUME NEW S, NEW s \in Seq(S), NEW T \in SUBSET S, IsFiniteSet(T), NEW x
  PROVE  /\ SetToSeq(T) \in Seq(S)
         /\ Count(s \o SetToSeq(T), x) = Count(s, x) + (IF x \in T THEN 1 ELSE 0)
<1> DEFINE t == SetToSeq(T)
           n == Cardinality(T)
<1>1. /\ n \in Nat
      /\ t \in [1..n -> T]
      /\ \A i, j \in 1..n : t[i] = t[j] => i = j
      /\ \A y \in T : \E i \in 1..n : t[i] = y
  BY SetToSeqProperties, FS_CardinalityType
<1> HIDE DEF t, n
<1>2. t \in Seq(S) /\ Len(t) = n /\ DOMAIN t = 1..n
  <2>1. t \in [1..n -> S]
    BY <1>1
  <2>2. t \in Seq(S)
    BY <1>1, <2>1, SeqDef
  <2>3. Len(t) \in Nat /\ 1..Len(t) = 1..n
    BY <2>1, <2>2, LenProperties
  <2>4. Len(t) = n
    BY <1>1, <2>3
  <2>5. QED  BY <2>2, <2>3, <2>4, LenProperties
<1>3. /\ DOMAIN s = 1..Len(s) /\ Len(s) \in Nat
      /\ DOMAIN (s \o t) = 1..(Len(s) + n)
      /\ \A i \in 1..(Len(s) + n) : (s \o t)[i] = IF i <= Len(s) THEN s[i] ELSE t[i - Len(s)]
  <2>1. DOMAIN s = 1..Len(s) /\ Len(s) \in Nat
    BY LenProperties
  <2>2. /\ s \o t \in Seq(S) /\ Len(s \o t) = Len(s) + n
        /\ \A i \in 1..(Len(s) + n) : (s \o t)[i] = IF i <= Len(s) THEN s[i] ELSE t[i - Len(s)]
    BY <1>2, ConcatProperties
  <2>3. DOMAIN (s \o t) = 1..(Len(s) + n)
    BY <2>2, LenProperties
  <2>4. QED  BY <2>1, <2>2, <2>3
<1>4. IsFiniteSet(Positions(s, x)) /\ Count(s, x) \in Nat
  BY PositionsFinite
<1>5. CASE x \notin T
  <2>1. Positions(s \o t, x) = Positions(s, x)
    BY <1>1, <1>3, <1>5 DEF Positions
  <2>2. QED  BY <1>2, <1>4, <1>5, <2>1 DEF Count, t
<1>6. CASE x \in T
  <2>1. PICK k \in 1..n : t[k] = x
    BY <1>1, <1>6
  <2>2. \A j \in 1..n : t[j] = x <=> j = k
    BY <1>1, <2>1
  <2>3. Positions(s \o t, x) = Positions(s, x) \cup {Len(s) + k}
    <3>1. ASSUME NEW i \in 1..(Len(s) + n), i > Len(s)
          PROVE  (s \o t)[i] = x <=> i = Len(s) + k
      <4> DEFINE j == i - Len(s)
      <4>0. Len(s) \in Nat /\ n \in Nat
        BY <1>1, <1>3
      <4>1. j \in 1..n /\ (i = Len(s) + k <=> j = k)
        BY <4>0, <3>1
      <4>2. (s \o t)[i] = t[j]
        BY <1>3, <3>1, <4>0
      <4> HIDE DEF j
      <4>3. QED  BY <2>2, <4>1, <4>2
    <3>2. QED  BY <1>1, <1>3, <2>1, <3>1 DEF Positions
  <2>4. Len(s) + k \notin Positions(s, x)
    BY <1>1, <1>3, <2>1 DEF Positions
  <2>5. Count(s \o t, x) = Count(s, x) + 1
    BY <1>4, <2>3, <2>4, FS_AddElement DEF Count
  <2>6. QED  BY <1>2, <1>6, <2>5 DEF t
<1>7. QED  BY <1>5, <1>6

------------------------------------------------------------------------------
(* The loops' queues: a functor is posted to one or taken off one.  An         *)
(* operator's q stands for the queues in the middle of a handler.              *)

Queues == [Loops -> Seq(Functor)]
Post(q, l, f) == [q EXCEPT ![l] = Append(@, f)]
Pop(q, l) == [q EXCEPT ![l] = Tail(@)]

\* Functors are in the queue of the loop that must execute them.
Placed(l, f) ==
  /\ f.conn \in Created
  /\ IF f.op = "remove" THEN l = Base /\ LoopOf(f.conn) # Base ELSE l = LoopOf(f.conn)
AllPlaced(q) == \A l \in Loops : \A i \in DOMAIN q[l] : Placed(l, q[l][i])

\* connectEstablished comes before everything else that is done to a connection.
First(q, c) == \A i, j \in DOMAIN q : q[i] = F("established", c) /\ q[j].conn = c => i <= j
AllFirst(q) == \A c \in Conns : First(q[LoopOf(c)], c)

Shape(q) == q \in Queues /\ AllPlaced(q) /\ AllFirst(q)

LEMMA FunctorType ==
  /\ \A op \in SharedOps \cup RawOps, c \in Conns :
       F(op, c) \in Functor /\ F(op, c).op = op /\ F(op, c).conn = c
  /\ \A f \in Functor : f.op \in SharedOps \cup RawOps /\ f.conn \in Conns /\ f = F(f.op, f.conn)
  BY DEF Functor, F

LEMMA FunctorEqual ==
  ASSUME NEW op, NEW c, NEW op2, NEW c2, F(op, c) = F(op2, c2)
  PROVE  op = op2 /\ c = c2
<1>1. F(op, c).op = op /\ F(op, c).conn = c /\ F(op2, c2).op = op2 /\ F(op2, c2).conn = c2
  BY DEF F
<1>2. QED  BY <1>1

LEMMA LoopOfType ==
  ASSUME numThreads \in 0..MaxThreads, NEW c \in Conns
  PROVE  /\ LoopOf(c) \in Loops
         /\ LoopOf(c) = Base <=> numThreads = 0
         /\ Base \in Loops
<1>1. MaxThreads \in Nat /\ MaxConns \in Nat
  BY TcpServerAssumption
<1>2. c - 1 \in Int /\ numThreads \in Nat
  BY <1>1 DEF Conns
<1>3. CASE numThreads = 0
  BY <1>1, <1>3 DEF LoopOf, Base, Loops
<1>4. CASE numThreads # 0
  <2>1. (c - 1) % numThreads \in 0..(numThreads - 1)
    BY <1>2, <1>4
  <2>2. QED  BY <1>1, <1>4, <2>1 DEF LoopOf, Base, Loops
<1>5. QED  BY <1>3, <1>4

LEMMA PostCounts ==
  ASSUME NEW q \in Queues, NEW l \in Loops, NEW f \in Functor
  PROVE  /\ Post(q, l, f) \in Queues
         /\ \A k \in Loops, g \in Functor :
              Count(Post(q, l, f)[k], g) = Count(q[k], g) + (IF k = l /\ f = g THEN 1 ELSE 0)
<1>1. q[l] \in Seq(Functor) /\ Append(q[l], f) \in Seq(Functor)
  BY DEF Queues
<1>2. Post(q, l, f) \in Queues
  BY <1>1 DEF Post, Queues
<1>3. ASSUME NEW k \in Loops, NEW g \in Functor
      PROVE  Count(Post(q, l, f)[k], g) = Count(q[k], g) + (IF k = l /\ f = g THEN 1 ELSE 0)
  <2>1. q[k] \in Seq(Functor) /\ Count(q[k], g) \in Nat
    BY PositionsFinite DEF Queues
  <2>2. Post(q, l, f)[k] = IF k = l THEN Append(q[l], f) ELSE q[k]
    BY DEF Post, Queues
  <2>3. Count(Append(q[l], f), g) = Count(q[l], g) + (IF f = g THEN 1 ELSE 0)
    BY <1>1, CountAppend
  <2>4. QED  BY <2>1, <2>2, <2>3
<1>4. QED  BY <1>2, <1>3

LEMMA PopCounts ==
  ASSUME NEW q \in Queues, NEW l \in Loops, q[l] # <<>>
  PROVE  /\ Pop(q, l) \in Queues
         /\ \A k \in Loops, g \in Functor :
              Count(Pop(q, l)[k], g) = Count(q[k], g) - (IF k = l /\ Head(q[l]) = g THEN 1 ELSE 0)
<1>1. q[l] \in Seq(Functor) /\ Tail(q[l]) \in Seq(Functor)
  BY HeadTailProperties DEF Queues
<1>2. Pop(q, l) \in Queues
  BY <1>1 DEF Pop, Queues
<1>3. ASSUME NEW k \in Loops, NEW g \in Functor
      PROVE  Count(Pop(q, l)[k], g) = Count(q[k], g) - (IF k = l /\ Head(q[l]) = g THEN 1 ELSE 0)
  <2>1. q[k] \in Seq(Functor) /\ Count(q[k], g) \in Nat
    BY PositionsFinite DEF Queues
  <2>2. Pop(q, l)[k] = IF k = l THEN Tail(q[l]) ELSE q[k]
    BY DEF Pop, Queues
  <2>3. Count(Tail(q[l]), g) = Count(q[l], g) - (IF Head(q[l]) = g THEN 1 ELSE 0)
    BY <1>1, CountTail
  <2>4. QED  BY <2>1, <2>2, <2>3
<1>4. QED  BY <1>2, <1>3

\* Posting keeps the shape, if a connectEstablished is the first for its connection.
LEMMA PostShape ==
  ASSUME NEW q, Shape(q), NEW l \in Loops, NEW f \in Functor, Placed(l, f),
         numThreads \in 0..MaxThreads,
         f.op = "established" => \A i \in DOMAIN q[l] : q[l][i].conn # f.conn
  PROVE  Shape(Post(q, l, f))
<1>1. q \in Queues /\ q[l] \in Seq(Functor)
  BY DEF Shape, Queues
<1>2. Post(q, l, f) \in Queues
  BY <1>1, PostCounts
<1>3. /\ DOMAIN q[l] = 1..Len(q[l]) /\ Len(q[l]) \in Nat
      /\ DOMAIN Append(q[l], f) = 1..(Len(q[l]) + 1)
      /\ \A i \in 1..Len(q[l]) : Append(q[l], f)[i] = q[l][i]
      /\ Append(q[l], f)[Len(q[l]) + 1] = f
  BY <1>1, AppendProperties, LenProperties
<1>4. \A k \in Loops : Post(q, l, f)[k] = IF k = l THEN Append(q[l], f) ELSE q[k]
  BY <1>1 DEF Post, Queues
<1>5. AllPlaced(Post(q, l, f))
  <2> SUFFICES ASSUME NEW k \in Loops, NEW i \in DOMAIN Post(q, l, f)[k]
               PROVE  Placed(k, Post(q, l, f)[k][i])
    BY DEF AllPlaced
  <2>1. CASE k # l
    BY <1>4, <2>1 DEF Shape, AllPlaced
  <2>2. CASE k = l
    <3>1. \A j \in DOMAIN q[l] : Placed(l, q[l][j])
      BY DEF Shape, AllPlaced
    <3>2. i \in 1..(Len(q[l]) + 1) /\ Post(q, l, f)[k] = Append(q[l], f)
      BY <1>3, <1>4, <2>2
    <3>3. CASE i = Len(q[l]) + 1
      BY <1>3, <2>2, <3>2, <3>3
    <3>4. CASE i # Len(q[l]) + 1
      BY <1>3, <2>2, <3>1, <3>2, <3>4
    <3>5. QED  BY <3>3, <3>4
  <2>3. QED  BY <2>1, <2>2
<1>6. AllFirst(Post(q, l, f))
  <2> SUFFICES ASSUME NEW c \in Conns
               PROVE  First(Post(q, l, f)[LoopOf(c)], c)
    BY DEF AllFirst
  <2>1. LoopOf(c) \in Loops /\ First(q[LoopOf(c)], c)
    BY LoopOfType DEF Shape, AllFirst
  <2>2. CASE LoopOf(c) # l
    BY <1>4, <2>1, <2>2
  <2>3. CASE LoopOf(c) = l
    <3>1. f = F("established", c) => \A i \in 1..Len(q[l]) : q[l][i].conn # c
      BY <1>3 DEF F
    <3> SUFFICES First(Append(q[l], f), c)
      BY <1>4, <2>3
    <3>2. First(q[l], c)
      BY <2>1, <2>3
    <3>3. QED  BY <1>3, <3>1, <3>2 DEF First
  <2>4. QED  BY <2>2, <2>3
<1>7. QED  BY <1>2, <1>5, <1>6 DEF Shape

LEMMA PopShape ==
  ASSUME NEW q, Shape(q), NEW l \in Loops, q[l] # <<>>, numThreads \in 0..MaxThreads
  PROVE  Shape(Pop(q, l))
<1>1. q \in Queues /\ q[l] \in Seq(Functor)
  BY DEF Shape, Queues
<1>2. Pop(q, l) \in Queues
  BY <1>1, PopCounts
<1>3. /\ DOMAIN q[l] = 1..Len(q[l]) /\ Len(q[l]) \in Nat \ {0}
      /\ DOMAIN Tail(q[l]) = 1..(Len(q[l]) - 1)
      /\ \A i \in 1..(Len(q[l]) - 1) : Tail(q[l])[i] = q[l][i + 1] /\ i + 1 \in 1..Len(q[l])
  BY <1>1, HeadTailProperties, LenProperties, EmptySeq
<1>4. \A k \in Loops : Pop(q, l)[k] = IF k = l THEN Tail(q[l]) ELSE q[k]
  BY <1>1 DEF Pop, Queues
<1>5. AllPlaced(Pop(q, l))
  BY <1>3, <1>4 DEF Shape, AllPlaced
<1>6. AllFirst(Pop(q, l))
  <2> SUFFICES ASSUME NEW c \in Conns
               PROVE  First(Pop(q, l)[LoopOf(c)], c)
    BY DEF AllFirst
  <2>1. LoopOf(c) \in Loops /\ First(q[LoopOf(c)], c)
    BY LoopOfType DEF Shape, AllFirst
  <2>2. CASE LoopOf(c) # l
    BY <1>4, <2>1, <2>2
  <2>3. CASE LoopOf(c) = l
    <3> SUFFICES First(Tail(q[l]), c)
      BY <1>4, <2>3
    <3>2. First(q[l], c)
      BY <2>1, <2>3
    <3>3. SUFFICES ASSUME NEW i \in 1..(Len(q[l]) - 1), NEW j \in 1..(Len(q[l]) - 1),
                          Tail(q[l])[i] = F("established", c), Tail(q[l])[j].conn = c
                   PROVE  i <= j
      BY <1>3 DEF First
    <3>4. i + 1 <= j + 1
      BY <1>3, <3>2, <3>3 DEF First
    <3>5. QED  BY <1>3, <3>4
  <2>4. QED  BY <2>2, <2>3
<1>7. QED  BY <1>2, <1>5, <1>6 DEF Shape

------------------------------------------------------------------------------
(* What is under way for a connection.                                        *)

Est(q, c) == Count(q[LoopOf(c)], F("established", c))
Rem(q, c) == Count(q[Base], F("remove", c))
Des(q, c) == Count(q[LoopOf(c)], F("destroyed", c))

LEMMA UnderWayType ==
  ASSUME NEW q \in Queues, NEW c \in Conns, numThreads \in 0..MaxThreads
  PROVE  Est(q, c) \in Nat /\ Rem(q, c) \in Nat /\ Des(q, c) \in Nat
<1>1. q[LoopOf(c)] \in Seq(Functor) /\ q[Base] \in Seq(Functor)
  BY LoopOfType DEF Queues
<1>2. QED  BY <1>1, PositionsFinite DEF Est, Rem, Des

LEMMA PostUnderWay ==
  ASSUME NEW q \in Queues, NEW l \in Loops, NEW f \in Functor, NEW c \in Conns,
         numThreads \in 0..MaxThreads
  PROVE  /\ Est(Post(q, l, f), c)
              = Est(q, c) + (IF l = LoopOf(c) /\ f = F("established", c) THEN 1 ELSE 0)
         /\ Rem(Post(q, l, f), c)
              = Rem(q, c) + (IF l = Base /\ f = F("remove", c) THEN 1 ELSE 0)
         /\ Des(Post(q, l, f), c)
              = Des(q, c) + (IF l = LoopOf(c) /\ f = F("destroyed", c) THEN 1 ELSE 0)
<1>1. LoopOf(c) \in Loops /\ Base \in Loops
  BY LoopOfType
<1>2. F("established", c) \in Functor /\ F("remove", c) \in Functor /\ F("destroyed", c) \in Functor
  BY FunctorType DEF SharedOps
<1>3. QED  BY <1>1, <1>2, PostCounts DEF Est, Rem, Des

LEMMA PopUnderWay ==
  ASSUME NEW q \in Queues, NEW l \in Loops, q[l] # <<>>, NEW c \in Conns,
         numThreads \in 0..MaxThreads
  PROVE  /\ Est(Pop(q, l), c)
              = Est(q, c) - (IF l = LoopOf(c) /\ Head(q[l]) = F("established", c) THEN 1 ELSE 0)
         /\ Rem(Pop(q, l), c)
              = Rem(q, c) - (IF l = Base /\ Head(q[l]) = F("remove", c) THEN 1 ELSE 0)
         /\ Des(Pop(q, l), c)
              = Des(q, c) - (IF l = LoopOf(c) /\ Head(q[l]) = F("destroyed", c) THEN 1 ELSE 0)
<1>1. LoopOf(c) \in Loops /\ Base \in Loops
  BY LoopOfType
<1>2. F("established", c) \in Functor /\ F("remove", c) \in Functor /\ F("destroyed", c) \in Functor
  BY FunctorType DEF SharedOps
<1>3. QED  BY <1>1, <1>2, PopCounts DEF Est, Rem, Des

\* A functor for one connection changes nothing for the others.
LEMMA PostOthers ==
  ASSUME NEW q \in Queues, NEW l \in Loops, NEW op \in SharedOps \cup RawOps, NEW c \in Conns,
         NEW d \in Conns \ {c}, numThreads \in 0..MaxThreads
  PROVE  /\ Est(Post(q, l, F(op, c)), d) = Est(q, d)
         /\ Rem(Post(q, l, F(op, c)), d) = Rem(q, d)
         /\ Des(Post(q, l, F(op, c)), d) = Des(q, d)
<1>1. F(op, c) \in Functor
  BY FunctorType
<1>2. F(op, c) # F("established", d) /\ F(op, c) # F("remove", d) /\ F(op, c) # F("destroyed", d)
  BY FunctorEqual
<1>3. Est(q, d) \in Nat /\ Rem(q, d) \in Nat /\ Des(q, d) \in Nat
  BY UnderWayType
<1>4. QED  BY <1>1, <1>2, <1>3, PostUnderWay

LEMMA PopOthers ==
  ASSUME NEW q \in Queues, NEW l \in Loops, q[l] # <<>>,
         NEW d \in Conns, Head(q[l]).conn # d, numThreads \in 0..MaxThreads
  PROVE  /\ Est(Pop(q, l), d) = Est(q, d)
         /\ Rem(Pop(q, l), d) = Rem(q, d)
         /\ Des(Pop(q, l), d) = Des(q, d)
<1>1. /\ Head(q[l]) # F("established", d)
      /\ Head(q[l]) # F("remove", d)
      /\ Head(q[l]) # F("destroyed", d)
  BY FunctorType DEF SharedOps
<1>2. Est(q, d) \in Nat /\ Rem(q, d) \in Nat /\ Des(q, d) \in Nat
  BY UnderWayType
<1>3. QED  BY <1>1, <1>2, PopUnderWay

\* Where a functor at the head of a queue is, and what is left when it is off.
LEMMA HeadUnderWay ==
  ASSUME NEW q, Shape(q), NEW l \in Loops, q[l] # <<>>, numThreads \in 0..MaxThreads,
         NEW op, NEW c, Head(q[l]) = F(op, c)
  PROVE  /\ c \in Conns /\ c \in Created /\ op \in SharedOps \cup RawOps
         /\ IF op = "remove" THEN l = Base /\ LoopOf(c) # Base ELSE l = LoopOf(c)
         /\ op \notin {"established", "remove"} => Est(q, c) = 0
         /\ Est(Pop(q, l), c) = IF op = "established" THEN 0 ELSE Est(q, c)
         /\ Rem(Pop(q, l), c) = IF op = "remove" THEN Rem(q, c) - 1 ELSE Rem(q, c)
         /\ Des(Pop(q, l), c) = IF op = "destroyed" THEN Des(q, c) - 1 ELSE Des(q, c)
         /\ op = "remove" => Rem(q, c) > 0
<1>1. q \in Queues /\ q[l] \in Seq(Functor)
  BY DEF Shape, Queues
<1>2. /\ DOMAIN q[l] = 1..Len(q[l]) /\ Len(q[l]) \in Nat \ {0}
      /\ DOMAIN Tail(q[l]) = 1..(Len(q[l]) - 1)
      /\ Tail(q[l]) \in Seq(Functor)
      /\ \A i \in 1..(Len(q[l]) - 1) : Tail(q[l])[i] = q[l][i + 1] /\ i + 1 \in 1..Len(q[l])
      /\ Head(q[l]) \in Functor /\ Head(q[l]) = q[l][1] /\ 1 \in 1..Len(q[l])
  BY <1>1, HeadTailProperties, LenProperties, EmptySeq
<1>3. F(op, c).op = op /\ F(op, c).conn = c
  BY DEF F
<1>4. c \in Conns /\ op \in SharedOps \cup RawOps
  BY <1>2, <1>3, FunctorType
<1>5. Placed(l, F(op, c))
  BY <1>2 DEF Shape, AllPlaced
<1>6. c \in Created /\ (IF op = "remove" THEN l = Base /\ LoopOf(c) # Base ELSE l = LoopOf(c))
  BY <1>3, <1>5 DEF Placed
<1>7. op # "remove" => First(q[l], c)
  BY <1>4, <1>6 DEF Shape, AllFirst
<1>8. ASSUME op # "remove", NEW j \in 2..Len(q[l]) PROVE q[l][j] # F("established", c)
  <2> SUFFICES ASSUME q[l][j] = F("established", c) PROVE FALSE
    OBVIOUS
  <2>1. j \in DOMAIN q[l] /\ 1 \in DOMAIN q[l] /\ q[l][1].conn = c /\ ~(j <= 1)
    BY <1>2, <1>3
  <2>2. QED  BY <1>7, <1>8, <2>1 DEF First
<1>9. op \notin {"established", "remove"} => Est(q, c) = 0
  <2> SUFFICES ASSUME op \notin {"established", "remove"} PROVE Est(q, c) = 0
    OBVIOUS
  <2>1. q[l][1] # F("established", c)
    BY <1>2, FunctorEqual
  <2>2. \A i \in DOMAIN q[l] : q[l][i] # F("established", c)
    BY <1>2, <1>8, <2>1
  <2>3. QED  BY <1>1, <1>6, <2>2, CountPositive DEF Est
<1>10. op = "established" => Est(Pop(q, l), c) = 0
  <2> SUFFICES ASSUME op = "established" PROVE Est(Pop(q, l), c) = 0
    OBVIOUS
  <2>1. \A i \in 1..(Len(q[l]) - 1) : Tail(q[l])[i] # F("established", c)
    <3> SUFFICES ASSUME NEW i \in 1..(Len(q[l]) - 1) PROVE Tail(q[l])[i] # F("established", c)
      OBVIOUS
    <3>1. i + 1 \in 2..Len(q[l]) /\ Tail(q[l])[i] = q[l][i + 1]
      BY <1>2
    <3>2. QED  BY <1>8, <3>1
  <2>2. Count(Tail(q[l]), F("established", c)) = 0
    BY <1>2, <2>1, CountPositive
  <2>3. Pop(q, l)[LoopOf(c)] = Tail(q[l])
    BY <1>1, <1>6 DEF Pop, Queues
  <2>4. QED  BY <2>2, <2>3 DEF Est
<1>11. Est(q, c) \in Nat /\ Rem(q, c) \in Nat /\ Des(q, c) \in Nat
  BY <1>1, <1>4, UnderWayType
<1>12. /\ op # "established" => F(op, c) # F("established", c)
       /\ op # "remove" => F(op, c) # F("remove", c)
       /\ op # "destroyed" => F(op, c) # F("destroyed", c)
  BY FunctorEqual
<1>13. /\ op # "established" => Est(Pop(q, l), c) = Est(q, c)
       /\ Rem(Pop(q, l), c) = IF op = "remove" THEN Rem(q, c) - 1 ELSE Rem(q, c)
       /\ Des(Pop(q, l), c) = IF op = "destroyed" THEN Des(q, c) - 1 ELSE Des(q, c)
  BY <1>1, <1>4, <1>6, <1>11, <1>12, PopUnderWay
<1>14. op = "remove" => Rem(q, c) > 0
  <2> SUFFICES ASSUME op = "remove" PROVE Rem(q, c) # 0
    BY <1>11
  <2>1. q[Base] \in Seq(Functor) /\ 1 \in DOMAIN q[Base] /\ q[Base][1] = F("remove", c)
    BY <1>1, <1>2, <1>6
  <2>2. QED  BY <2>1, CountPositive DEF Rem
<1>15. QED  BY <1>4, <1>6, <1>9, <1>10, <1>13, <1>14

------------------------------------------------------------------------------
(* The invariant.                                                             *)

States == {"connecting", "connected", "disconnecting", "disconnected"}
Channels == {"new", "added", "removed"}
Calls == [at : {"forceClose", "delay", "shutdown"}, conn : Conns]

LoopTypes ==
  /\ numThreads \in 0..MaxThreads
  /\ numAccepted \in 0..MaxConns
  /\ server \in {"alive", "dying", "gone"}
  /\ loopPhase \in [Loops -> {"looping", "quit", "drain", "ended"}]
  /\ server = "alive" => \A l \in Loops : loopPhase[l] = "looping"
SetTypes ==
  /\ connections \subseteq Created
  /\ delayed \subseteq Created
  /\ misused \subseteq Created
QueueTypes == queue \in Queues
ConnTypes ==
  /\ state \in [Conns -> States]
  /\ channel \in [Conns -> Channels]
  /\ reading \in [Conns -> BOOLEAN]
  /\ \A c \in Conns : reading[c] => channel[c] = "added"
ReadTypes == wantsRead \in [Conns -> BOOLEAN]
CountTypes ==
  /\ ups \in [Conns -> 0..1]
  /\ downs \in [Conns -> 0..(3 + Cardinality(Users))]
UserTypes ==
  /\ held \in [Users -> SUBSET Created]
  /\ userAt \in [Users -> {Idle} \cup Calls]
  /\ \A u \in Users : userAt[u] # Idle => userAt[u].conn \in held[u]

TInv ==
  /\ LoopTypes /\ SetTypes /\ QueueTypes
  /\ ConnTypes /\ ReadTypes /\ CountTypes /\ UserTypes

\* Threads that have tested m_state and will assign it.
Calling(c) == {u \in Users : userAt[u] # Idle /\ userAt[u].conn = c}
Open(c) == IF IsUp(c) THEN 1 ELSE 0

\* Nothing has happened to the connection.
Unborn(c) ==
  /\ state[c] = "connecting" /\ channel[c] = "new" /\ ~reading[c]
  /\ ups[c] = 0 /\ downs[c] = 0

\* In the table as long as the server lives; then connectDestroyed is under way.
Tabled(q, c) ==
  /\ c \in connections <=> server = "alive"
  /\ Des(q, c) = IF c \in connections THEN 0 ELSE 1
  /\ c \notin connections => LoopOf(c) # Base

\* The three stages of a connection: connectEstablished is under way, ...
Pending(q, c) ==
  /\ Unborn(c)
  /\ Est(q, c) = 1 /\ Rem(q, c) = 0 /\ LoopOf(c) # Base
  /\ Tabled(q, c)
  /\ \A u \in Users : c \notin held[u]

\* ... the connection is up, ...
Up(q, c) ==
  /\ IsUp(c) /\ channel[c] = "added" /\ ups[c] = 1 /\ downs[c] = 0
  /\ Est(q, c) = 0 /\ Rem(q, c) = 0
  /\ Tabled(q, c)

\* ... or down, and its removal or connectDestroyed is under way or has been done.
Down(q, c) ==
  /\ state[c] = "disconnected" /\ channel[c] # "new" /\ ~reading[c]
  /\ ups[c] = 1 /\ downs[c] = 1
  /\ Est(q, c) = 0
  /\ Des(q, c) = IF c \in connections \/ channel[c] = "removed" THEN 0 ELSE 1
  /\ c \in connections =>
       server = "alive" /\ channel[c] = "added" /\ Rem(q, c) = 1 /\ LoopOf(c) # Base
  /\ c \notin connections /\ server = "alive" => Rem(q, c) = 0

\* A misused connection may come up again, at most once for each thread that was
\* in the middle of a call.
Worn(q, c) ==
  /\ Est(q, c) = 0
  /\ downs[c] + Cardinality(Calling(c)) + Open(c) <= 1 + Cardinality(Users)

Life(q, c) ==
  IF c \notin Created THEN Unborn(c)
  ELSE IF c \in misused THEN Worn(q, c)
  ELSE Pending(q, c) \/ Up(q, c) \/ Down(q, c)

LInv(q) == Shape(q) /\ \A c \in Conns : Life(q, c)

IInv == TInv /\ NoFault /\ (fault = {} => LInv(queue))

------------------------------------------------------------------------------

LEMMA TypeParts == TInv => TypeOK
<1> SUFFICES ASSUME TInv PROVE TypeOK
  OBVIOUS
<1>1. /\ numThreads \in 0..MaxThreads
      /\ numAccepted \in 0..MaxConns
      /\ server \in {"alive", "dying", "gone"}
      /\ loopPhase \in [Loops -> {"looping", "quit", "drain", "ended"}]
  BY DEF TInv, LoopTypes
<1>2. connections \subseteq Created /\ delayed \subseteq Created /\ misused \subseteq Created
  BY DEF TInv, SetTypes
<1>3. queue \in [Loops -> Seq(Functor)] /\ wantsRead \in [Conns -> BOOLEAN]
  BY DEF TInv, QueueTypes, ReadTypes, Queues
<1>4. \A c \in Conns :
        /\ state[c] \in {"connecting", "connected", "disconnecting", "disconnected"}
        /\ channel[c] \in {"new", "added", "removed"}
        /\ reading[c] => channel[c] = "added"
        /\ ups[c] \in 0..1 /\ downs[c] \in 0..(3 + Cardinality(Users))
  BY DEF TInv, ConnTypes, CountTypes, States, Channels
<1>5. \A u \in Users : held[u] \subseteq Created /\ (userAt[u] # Idle => userAt[u].conn \in held[u])
  BY DEF TInv, UserTypes
<1>6. QED  BY <1>1, <1>2, <1>3, <1>4, <1>5 DEF TypeOK

LEMMA CreatedConns == ASSUME LoopTypes PROVE Created \subseteq Conns
  BY TcpServerAssumption DEF LoopTypes, Created, Conns

LEMMA CallingType ==
  ASSUME NEW c
  PROVE  /\ IsFiniteSet(Calling(c)) /\ Cardinality(Calling(c)) \in Nat
         /\ Cardinality(Calling(c)) <= Cardinality(Users) /\ Cardinality(Users) \in Nat
<1>1. IsFiniteSet(Users) /\ Calling(c) \subseteq Users
  BY TcpServerAssumption DEF Calling
<1>2. QED  BY <1>1, FS_Subset, FS_CardinalityType

\* Before a fault no connection has been down too often.
LEMMA DownsBound ==
  ASSUME TInv, NEW q, LInv(q), NEW c \in Conns
  PROVE  downs[c] \in 0..(1 + Cardinality(Users))
<1>1. downs[c] \in Nat
  <2>1. downs[c] \in 0..(3 + Cardinality(Users))
    BY DEF TInv, CountTypes
  <2>2. QED  BY <2>1
<1>2. Cardinality(Calling(c)) \in Nat /\ Cardinality(Users) \in Nat /\ Open(c) \in {0, 1}
  BY CallingType DEF Open
<1>3. Life(q, c)
  BY DEF LInv
<1>4. CASE downs[c] \in {0, 1}
  BY <1>2, <1>4
<1>5. CASE downs[c] + Cardinality(Calling(c)) + Open(c) <= 1 + Cardinality(Users)
  BY <1>1, <1>2, <1>5
<1>6. QED  BY <1>3, <1>4, <1>5 DEF Life, Unborn, Pending, Up, Down, Worn

\* Nothing of a connection changes.  q are the queues before the step.
Same(q, c) ==
  /\ state'[c] = state[c] /\ channel'[c] = channel[c] /\ reading'[c] = reading[c]
  /\ ups'[c] = ups[c] /\ downs'[c] = downs[c]
  /\ Est(queue, c)' = Est(q, c) /\ Rem(queue, c)' = Rem(q, c) /\ Des(queue, c)' = Des(q, c)
  /\ (c \in connections') <=> c \in connections
  /\ (c \in misused') <=> c \in misused
  /\ Cardinality(Calling(c))' = Cardinality(Calling(c))
  /\ \A u \in Users : c \notin held[u] => c \notin held'[u]

LEMMA Untouched ==
  ASSUME NEW q, NEW c, Life(q, c), Same(q, c),
         UNCHANGED <<numThreads, server>>, (c \in Created)' <=> c \in Created
  PROVE  Life(queue, c)'
<1>1. Unborn(c) => Unborn(c)'
  BY DEF Same, Unborn
<1>2. Tabled(q, c) => Tabled(queue, c)'
  BY DEF Same, Tabled, LoopOf
<1>3. IsUp(c)' = IsUp(c) /\ Open(c)' = Open(c) /\ LoopOf(c)' = LoopOf(c)
  BY DEF Same, IsUp, Open, LoopOf
<1>4. Pending(q, c) => Pending(queue, c)'
  BY <1>1, <1>2, <1>3 DEF Same, Pending
<1>5. Up(q, c) => Up(queue, c)'
  BY <1>2, <1>3 DEF Same, Up
<1>6. Down(q, c) => Down(queue, c)'
  BY <1>3 DEF Same, Down
<1>7. Worn(q, c) => Worn(queue, c)'
  BY <1>3 DEF Same, Worn
<1>8. QED  BY <1>1, <1>4, <1>5, <1>6, <1>7 DEF Life, Same

LEMMA ShapeNext ==
  ASSUME Shape(queue'), numThreads' = numThreads, Created \subseteq Created'
  PROVE  Shape(queue)'
<1>1. \A c : LoopOf(c)' = LoopOf(c)
  BY DEF LoopOf
<1>2. queue' \in Queues
  BY DEF Shape
<1>3. AllPlaced(queue)'
  BY <1>1 DEF Shape, AllPlaced, Placed
<1>4. AllFirst(queue)'
  BY <1>1 DEF Shape, AllFirst, First
<1>5. QED  BY <1>2, <1>3, <1>4 DEF Shape

LEMMA UnderWayNext ==
  ASSUME numThreads' = numThreads, NEW c
  PROVE  /\ Est(queue, c)' = Est(queue', c)
         /\ Rem(queue, c)' = Rem(queue', c)
         /\ Des(queue, c)' = Des(queue', c)
  BY DEF Est, Rem, Des, LoopOf

\* A step about one connection.
LEMMA OneConnection ==
  ASSUME NEW q, LInv(q), Shape(queue'), NEW c \in Conns, Life(queue, c)',
         \A d \in Conns \ {c} : Same(q, d),
         UNCHANGED <<numThreads, server, numAccepted>>
  PROVE  LInv(queue)'
<1>1. Shape(queue)'
  BY ShapeNext DEF Created
<1>2. \A d \in Conns \ {c} : Life(queue, d)'
  BY Untouched DEF LInv, Created
<1>3. QED  BY <1>1, <1>2 DEF LInv

------------------------------------------------------------------------------
(* The functors of the loops.                                                 *)

LEMMA UpIfOpen ==
  ASSUME NEW q, NEW c \in Created, Life(q, c), c \notin misused, IsUp(c)
  PROVE  Up(q, c)
  BY DEF Life, Pending, Unborn, Down, IsUp

\* A connection that is waiting to come up, or is up, exists.
LEMMA TabledAlive ==
  ASSUME LoopTypes, queue \in Queues, NEW c \in Conns, Tabled(queue, c)
  PROVE  Alive(c)
<1>1. CASE c \in connections
  BY <1>1 DEF Alive
<1>2. CASE c \notin connections
  <2>1. Des(queue, c) # 0
    BY <1>2 DEF Tabled
  <2>2. LoopOf(c) \in Loops /\ queue[LoopOf(c)] \in Seq(Functor)
    BY LoopOfType DEF LoopTypes, Queues
  <2>3. \E i \in DOMAIN queue[LoopOf(c)] : queue[LoopOf(c)][i] = F("destroyed", c)
    BY <2>1, <2>2, CountPositive DEF Des
  <2>4. Refers(F("destroyed", c), c)
    BY DEF Refers, F, SharedOps
  <2>5. QED  BY <2>2, <2>3, <2>4 DEF Alive
<1>3. QED  BY <1>1, <1>2

\* Functors of the other kinds come and go without an effect on the stages.
LEMMA PopOther ==
  ASSUME LoopTypes, NEW q, LInv(q), NEW l \in Loops, q[l] # <<>>, NEW op, NEW c,
         Head(q[l]) = F(op, c), op \notin {"established", "remove", "destroyed"}
  PROVE  LInv(Pop(q, l))
<1>1. Shape(q) /\ q \in Queues /\ numThreads \in 0..MaxThreads
  BY DEF LInv, Shape, LoopTypes
<1>2. Shape(Pop(q, l))
  BY <1>1, PopShape
<1>3. ASSUME NEW d \in Conns
      PROVE  Est(Pop(q, l), d) = Est(q, d) /\ Rem(Pop(q, l), d) = Rem(q, d) /\ Des(Pop(q, l), d) = Des(q, d)
  <2>1. CASE d = c
    BY <1>1, <2>1, HeadUnderWay
  <2>2. CASE d # c
    <3>1. Head(q[l]).conn # d
      BY <2>2 DEF F
    <3>2. QED  BY <1>1, <3>1, PopOthers
  <2>3. QED  BY <2>1, <2>2
<1>4. \A d \in Conns : Life(Pop(q, l), d)
  BY <1>3 DEF LInv, Life, Pending, Up, Down, Worn, Tabled
<1>5. QED  BY <1>2, <1>4 DEF LInv

LEMMA PostOther ==
  ASSUME LoopTypes, NEW q, LInv(q), NEW c \in Created,
         NEW op \in {"forceClose", "shutdown", "startRead", "stopRead"}
  PROVE  LInv(Post(q, LoopOf(c), F(op, c)))
<1>1. Shape(q) /\ q \in Queues /\ numThreads \in 0..MaxThreads /\ c \in Conns
  BY CreatedConns DEF LInv, Shape, LoopTypes
<1>2. /\ LoopOf(c) \in Loops
      /\ op \in SharedOps \cup RawOps
      /\ F(op, c) \in Functor /\ F(op, c).op = op /\ F(op, c).conn = c
  BY <1>1, LoopOfType, FunctorType DEF SharedOps, RawOps
<1>3. Placed(LoopOf(c), F(op, c)) /\ F(op, c).op # "established"
  BY <1>2 DEF Placed
<1>4. Shape(Post(q, LoopOf(c), F(op, c)))
  BY <1>1, <1>2, <1>3, PostShape
<1>5. ASSUME NEW d \in Conns
      PROVE  /\ Est(Post(q, LoopOf(c), F(op, c)), d) = Est(q, d)
             /\ Rem(Post(q, LoopOf(c), F(op, c)), d) = Rem(q, d)
             /\ Des(Post(q, LoopOf(c), F(op, c)), d) = Des(q, d)
  <2>1. Est(q, d) \in Nat /\ Rem(q, d) \in Nat /\ Des(q, d) \in Nat
    BY <1>1, UnderWayType
  <2>2. /\ F(op, c) # F("established", d) /\ F(op, c) # F("remove", d)
        /\ F(op, c) # F("destroyed", d)
    BY FunctorEqual
  <2>3. QED  BY <1>1, <1>2, <2>1, <2>2, PostUnderWay
<1>6. \A d \in Conns : Life(Post(q, LoopOf(c), F(op, c)), d)
  BY <1>5 DEF LInv, Life, Pending, Up, Down, Worn, Tabled
<1>7. QED  BY <1>4, <1>6 DEF LInv

LEMMA OpenType == \A c : Open(c) \in {0, 1} /\ (IsUp(c) => Open(c) = 1) /\ (~IsUp(c) => Open(c) = 0)
  BY DEF Open

LEMMA RunEstablished ==
  ASSUME IInv, fault = {}, NEW l \in Loops, queue[l] # <<>>, NEW c,
         Head(queue[l]) = F("established", c), queue' = Pop(queue, l),
         ConnectEstablished(c),
         UNCHANGED <<connections, numAccepted, delayed, userVars, lifeVars>>
  PROVE  IInv'
<1>0. /\ TInv /\ LInv(queue) /\ Shape(queue) /\ queue \in Queues
      /\ numThreads \in 0..MaxThreads
  BY DEF IInv, LInv, TInv, LoopTypes, QueueTypes
<1>1. /\ c \in Conns /\ c \in Created /\ l = LoopOf(c)
      /\ Est(Pop(queue, l), c) = 0
      /\ Rem(Pop(queue, l), c) = Rem(queue, c)
      /\ Des(Pop(queue, l), c) = Des(queue, c)
  BY <1>0, HeadUnderWay
<1>2. Est(queue, c) # 0
  <2>1. Est(Pop(queue, l), c) = Est(queue, c) - 1
    BY <1>0, <1>1, PopUnderWay
  <2>2. QED  BY <1>1, <2>1
<1>3. Pending(queue, c) /\ c \notin misused
  BY <1>0, <1>1, <1>2 DEF LInv, Life, Up, Down, Worn
<1>4. /\ UNCHANGED <<numThreads, server, numAccepted, connections, misused, held, userAt, downs,
                     loopPhase, wantsRead, delayed>>
      /\ state' = [state EXCEPT ![c] = "connected"]
      /\ channel' = [channel EXCEPT ![c] = "added"]
      /\ reading' = [reading EXCEPT ![c] = TRUE]
      /\ ups' = [ups EXCEPT ![c] = @ + 1]
      /\ fault' = fault \cup FaultIf(state[c] # "connecting", "established", c)
  BY DEF ConnectEstablished, userVars, lifeVars
<1>5. /\ state'[c] = "connected" /\ channel'[c] = "added" /\ ups'[c] = 1 /\ downs'[c] = 0
      /\ fault' = {}
  BY <1>0, <1>1, <1>3, <1>4 DEF Pending, Unborn, TInv, ConnTypes, CountTypes, FaultIf
<1>6. TInv'
  <2>1. LoopTypes' /\ SetTypes' /\ ReadTypes' /\ UserTypes'
    BY <1>0, <1>4 DEF TInv, LoopTypes, SetTypes, ReadTypes, UserTypes, Created
  <2>2. QueueTypes'
    BY <1>0, PopShape DEF QueueTypes, Shape
  <2>3. ConnTypes'
    BY <1>0, <1>1, <1>4 DEF TInv, ConnTypes, States, Channels
  <2>4. CountTypes'
    <3>1. ups' \in [Conns -> 0..1]
      BY <1>0, <1>1, <1>4, <1>5 DEF TInv, CountTypes
    <3>2. QED  BY <1>0, <1>4, <3>1 DEF TInv, CountTypes
  <2>5. QED  BY <2>1, <2>2, <2>3, <2>4 DEF TInv
<1>7. LInv(queue)'
  <2>1. Shape(queue')
    BY <1>0, PopShape
  <2>2. \A d \in Conns \ {c} : Same(queue, d)
    <3> SUFFICES ASSUME NEW d \in Conns \ {c} PROVE Same(queue, d)
      OBVIOUS
    <3>1. /\ Est(queue, d)' = Est(queue, d) /\ Rem(queue, d)' = Rem(queue, d)
          /\ Des(queue, d)' = Des(queue, d)
      <4>1. Head(queue[l]).conn # d
        BY DEF F
      <4>2. QED  BY <1>0, <1>4, <4>1, PopOthers, UnderWayNext
    <3>2. /\ state'[d] = state[d] /\ channel'[d] = channel[d] /\ reading'[d] = reading[d]
          /\ ups'[d] = ups[d]
      BY <1>0, <1>4 DEF TInv, ConnTypes, CountTypes
    <3>3. QED  BY <1>4, <3>1, <3>2 DEF Same, Calling
  <2>3. Up(queue, c)'
    <3>1. /\ Est(queue, c)' = 0 /\ Rem(queue, c)' = 0 /\ Des(queue, c)' = Des(queue, c)
      BY <1>1, <1>3, <1>4, UnderWayNext DEF Pending
    <3>2. Tabled(queue, c)'
      BY <1>3, <1>4, <3>1 DEF Pending, Tabled, LoopOf
    <3>3. QED  BY <1>4, <1>5, <3>1, <3>2 DEF Up, IsUp
  <2>4. Life(queue, c)'
    BY <1>1, <1>3, <1>4, <2>3 DEF Life, Created
  <2>5. QED  BY <1>0, <1>1, <1>4, <2>1, <2>2, <2>4, OneConnection
<1>8. QED  BY <1>5, <1>6, <1>7 DEF IInv, NoFault

\* connectDestroyed, of one connection or of all of them.
LEMMA DestroyedTypes ==
  ASSUME TInv, LInv(queue), NEW cs \in SUBSET Created, ConnectDestroyed(cs),
         UNCHANGED numAccepted
  PROVE  ConnTypes' /\ CountTypes' /\ ReadTypes' /\ misused' \subseteq Created
<1>1. ConnTypes'
  BY DEF TInv, ConnTypes, ConnectDestroyed, States, Channels
<1>2. downs' \in [Conns -> 0..(3 + Cardinality(Users))]
  <2>1. \A c \in Conns : downs[c] \in 0..(1 + Cardinality(Users))
    BY DownsBound
  <2>2. Cardinality(Users) \in Nat
    BY CallingType
  <2>3. \A c \in Conns : downs[c] \in 0..(3 + Cardinality(Users)) /\ downs[c] + 1 \in 0..(3 + Cardinality(Users))
    BY <2>1, <2>2
  <2>4. QED  BY <2>3 DEF ConnectDestroyed
<1>3. CountTypes'
  BY <1>2 DEF TInv, CountTypes, ConnectDestroyed
<1>4. QED  BY <1>1, <1>3 DEF TInv, SetTypes, ReadTypes, ConnectDestroyed

\* What it does to a connection that is up, or down.
LEMMA DestroyedOne ==
  ASSUME TInv, NEW cs \in SUBSET Conns, ConnectDestroyed(cs), NEW c \in cs
  PROVE  /\ channel'[c] = "removed" /\ ~reading'[c] /\ ups'[c] = ups[c]
         /\ state[c] = "connected" =>
              state'[c] = "disconnected" /\ downs'[c] = downs[c] + 1
         /\ state[c] # "connected" => state'[c] = state[c] /\ downs'[c] = downs[c]
         /\ (c \in misused') <=> (c \in misused \/ state[c] = "disconnecting")
  BY DEF ConnectDestroyed, TInv, ConnTypes, CountTypes

LEMMA DestroyedOthers ==
  ASSUME TInv, NEW cs, ConnectDestroyed(cs), NEW c \in Conns, c \notin cs
  PROVE  /\ state'[c] = state[c] /\ channel'[c] = channel[c] /\ reading'[c] = reading[c]
         /\ ups'[c] = ups[c] /\ downs'[c] = downs[c]
         /\ (c \in misused') <=> c \in misused
  BY DEF ConnectDestroyed, TInv, ConnTypes, CountTypes

LEMMA DestroyedFaults ==
  ASSUME TInv, fault = {}, NEW cs, ConnectDestroyed(cs), NEW f \in fault'
  PROVE  \E c \in cs : /\ f = <<"remove", c>> /\ state[c] # "connected"
                       /\ reading[c] \/ channel[c] # "added"
  BY DEF ConnectDestroyed

\* A connection that wears out keeps its bound.
LEMMA StaysWorn ==
  ASSUME TInv, NEW c \in Conns, NEW q, Worn(q, c), Est(queue, c)' = 0,
         Cardinality(Calling(c))' = Cardinality(Calling(c)),
         \/ IsUp(c)' /\ IsUp(c) /\ downs'[c] = downs[c]
         \/ ~IsUp(c)' /\ IsUp(c) /\ downs'[c] = downs[c] + 1
         \/ ~IsUp(c)' /\ downs'[c] = downs[c]
  PROVE  Worn(queue, c)'
<1>1. downs[c] \in Nat
  BY CallingType DEF TInv, CountTypes
<1>2. Cardinality(Calling(c)) \in Nat /\ Cardinality(Users) \in Nat
  BY CallingType
<1>3. downs[c] + Cardinality(Calling(c)) + Open(c) <= 1 + Cardinality(Users)
  BY DEF Worn
<1>4. /\ Open(c) \in {0, 1} /\ (IsUp(c) => Open(c) = 1)
      /\ Open(c)' \in {0, 1} /\ (IsUp(c)' => Open(c)' = 1) /\ (~IsUp(c)' => Open(c)' = 0)
  BY DEF Open
<1>5. downs'[c] + Cardinality(Calling(c)) + Open(c)' <= 1 + Cardinality(Users)
  BY <1>1, <1>2, <1>3, <1>4
<1>6. QED  BY <1>5 DEF Worn

\* One that has been used after its end begins to.
LEMMA BecomesWorn ==
  ASSUME NEW c \in Conns, Est(queue, c)' = 0,
         Cardinality(Calling(c))' \in Nat,
         \/ downs'[c] = 0 /\ Cardinality(Calling(c))' <= Cardinality(Users)
         \/ downs'[c] = 1 /\ ~IsUp(c)' /\ Cardinality(Calling(c))' <= Cardinality(Users)
         \/ downs'[c] = 1 /\ Cardinality(Calling(c))' <= Cardinality(Users) - 1
  PROVE  Worn(queue, c)'
<1>1. Cardinality(Users) \in Nat
  BY CallingType
<1>2. Open(c)' \in {0, 1} /\ (~IsUp(c)' => Open(c)' = 0)
  BY DEF Open
<1>3. downs'[c] + Cardinality(Calling(c))' + Open(c)' <= 1 + Cardinality(Users)
  BY <1>1, <1>2
<1>4. QED  BY <1>3 DEF Worn

LEMMA RunDestroyed ==
  ASSUME IInv, fault = {}, NEW l \in Loops, queue[l] # <<>>, NEW c,
         Head(queue[l]) = F("destroyed", c), queue' = Pop(queue, l),
         ConnectDestroyed({c}),
         UNCHANGED <<connections, numAccepted, delayed, userVars, lifeVars>>
  PROVE  IInv'
<1>0. /\ TInv /\ LInv(queue) /\ Shape(queue) /\ queue \in Queues
      /\ numThreads \in 0..MaxThreads
  BY DEF IInv, LInv, TInv, LoopTypes, QueueTypes
<1>1. /\ c \in Conns /\ c \in Created /\ l = LoopOf(c)
      /\ Est(queue, c) = 0
      /\ Est(Pop(queue, l), c) = 0
      /\ Rem(Pop(queue, l), c) = Rem(queue, c)
      /\ Des(Pop(queue, l), c) = Des(queue, c) - 1
  BY <1>0, HeadUnderWay
<1>2. /\ UNCHANGED <<numThreads, server, numAccepted, connections, held, userAt, loopPhase, delayed>>
      /\ Calling(c)' = Calling(c)
  BY DEF userVars, lifeVars, Calling
<1>3. /\ Est(queue, c)' = 0 /\ Rem(queue, c)' = Rem(queue, c) /\ Des(queue, c)' = Des(queue, c) - 1
      /\ Shape(queue') /\ queue' \in Queues
  BY <1>0, <1>1, <1>2, UnderWayNext, PopShape DEF Shape
<1>4. Des(queue, c) \in Nat /\ Des(queue, c) # 0
  <2>1. Des(queue, c) \in Nat /\ Des(queue', c) \in Nat
    BY <1>0, <1>1, <1>3, UnderWayType
  <2>2. QED  BY <1>1, <2>1
<1>5. Life(queue, c)
  BY <1>0, <1>1 DEF LInv
<1>6. /\ channel'[c] = "removed" /\ ~reading'[c] /\ ups'[c] = ups[c]
      /\ state[c] = "connected" => state'[c] = "disconnected" /\ downs'[c] = downs[c] + 1
      /\ state[c] # "connected" => state'[c] = state[c] /\ downs'[c] = downs[c]
      /\ (c \in misused') <=> (c \in misused \/ state[c] = "disconnecting")
  BY <1>0, <1>1, DestroyedOne
<1>7. TInv'
  <2>1. LoopTypes' /\ UserTypes'
    BY <1>0, <1>2 DEF TInv, LoopTypes, UserTypes, Created
  <2>2. QueueTypes'
    BY <1>3 DEF QueueTypes
  <2>3. ConnTypes' /\ CountTypes' /\ ReadTypes' /\ misused' \subseteq Created
    BY <1>0, <1>1, <1>2, DestroyedTypes
  <2>4. SetTypes'
    BY <1>0, <1>2, <2>3 DEF TInv, SetTypes, Created
  <2>5. QED  BY <2>1, <2>2, <2>3, <2>4 DEF TInv
<1>8. ASSUME c \notin misused'
      PROVE  /\ Down(queue, c)'
             /\ state[c] = "connected" \/ (~reading[c] /\ channel[c] = "added")
  <2>1. Up(queue, c) \/ Down(queue, c)
    BY <1>1, <1>5, <1>6, <1>8 DEF Life, Pending
  <2>2. CASE Up(queue, c)
    <3>1. state[c] = "connected" /\ downs[c] = 0 /\ ups[c] = 1 /\ channel[c] = "added"
      BY <1>6, <1>8, <2>2 DEF Up, IsUp
    <3>2. c \notin connections /\ server # "alive" /\ Des(queue, c) = 1
      BY <1>4, <2>2 DEF Up, Tabled
    <3>3. QED  BY <1>2, <1>3, <1>6, <3>1, <3>2 DEF Down
  <2>3. CASE Down(queue, c)
    <3>1. /\ state[c] = "disconnected" /\ downs[c] = 1 /\ ups[c] = 1 /\ ~reading[c]
          /\ channel[c] = "added" /\ c \notin connections /\ Des(queue, c) = 1
          /\ server = "alive" => Rem(queue, c) = 0
      BY <1>0, <1>1, <1>4, <2>3 DEF Down, TInv, ConnTypes, Channels
    <3>2. QED  BY <1>2, <1>3, <1>6, <3>1 DEF Down
  <2>4. QED  BY <2>1, <2>2, <2>3
<1>9. ASSUME c \in misused'
      PROVE  Worn(queue, c)'
  <2>1. CASE c \in misused
    <3>1. Worn(queue, c)
      BY <1>1, <1>5, <2>1 DEF Life
    <3>2. \/ IsUp(c)' /\ IsUp(c) /\ downs'[c] = downs[c]
          \/ ~IsUp(c)' /\ IsUp(c) /\ downs'[c] = downs[c] + 1
          \/ ~IsUp(c)' /\ downs'[c] = downs[c]
      BY <1>6 DEF IsUp
    <3>3. QED  BY <1>0, <1>1, <1>2, <1>3, <3>1, <3>2, StaysWorn
  <2>2. CASE c \notin misused
    <3>1. state[c] = "disconnecting"
      BY <1>6, <1>9, <2>2
    <3>2. Up(queue, c)
      BY <1>1, <1>5, <2>2, <3>1, UpIfOpen DEF IsUp
    <3>3. downs'[c] = 0
      BY <1>6, <3>1, <3>2 DEF Up
    <3>4. QED  BY <1>1, <1>2, <1>3, <3>3, BecomesWorn, CallingType
  <2>3. QED  BY <2>1, <2>2
<1>10. NoFault'
  <2> SUFFICES ASSUME NEW f \in fault' PROVE f[2] \in misused'
    BY DEF NoFault
  <2>1. /\ f = <<"remove", c>> /\ state[c] # "connected"
        /\ reading[c] \/ channel[c] # "added"
    BY <1>0, DestroyedFaults
  <2>2. QED  BY <1>8, <2>1
<1>11. LInv(queue)'
  <2>1. \A d \in Conns \ {c} : Same(queue, d)
    <3> SUFFICES ASSUME NEW d \in Conns \ {c} PROVE Same(queue, d)
      OBVIOUS
    <3>1. /\ Est(queue, d)' = Est(queue, d) /\ Rem(queue, d)' = Rem(queue, d)
          /\ Des(queue, d)' = Des(queue, d)
      <4>1. Head(queue[l]).conn # d
        BY DEF F
      <4>2. QED  BY <1>0, <1>2, <4>1, PopOthers, UnderWayNext
    <3>2. /\ state'[d] = state[d] /\ channel'[d] = channel[d] /\ reading'[d] = reading[d]
          /\ ups'[d] = ups[d] /\ downs'[d] = downs[d]
          /\ (d \in misused') <=> d \in misused
      BY <1>0, DestroyedOthers
    <3>3. QED  BY <1>2, <3>1, <3>2 DEF Same, Calling
  <2>2. Life(queue, c)'
    BY <1>1, <1>2, <1>8, <1>9 DEF Life, Created
  <2>3. QED  BY <1>0, <1>1, <1>2, <1>3, <2>1, <2>2, OneConnection
<1>12. QED  BY <1>7, <1>10, <1>11 DEF IInv

\* The functors and handlers that touch one connection leave the others alone.
LEMMA PopPostOthers ==
  ASSUME LoopTypes, NEW q \in Queues, NEW m \in Loops, NEW op \in SharedOps \cup RawOps,
         NEW c \in Conns, queue' = Post(q, m, F(op, c)), UNCHANGED numThreads,
         NEW d \in Conns \ {c}
  PROVE  Est(queue, d)' = Est(q, d) /\ Rem(queue, d)' = Rem(q, d) /\ Des(queue, d)' = Des(q, d)
  BY PostOthers, UnderWayNext DEF LoopTypes

\* removeConnectionInLoop posts the other half of the removal.
LEMMA RemovePosts ==
  ASSUME LoopTypes, NEW q, Shape(q), NEW c \in Created, RemoveConnectionInLoop(c, q),
         UNCHANGED <<numThreads, numAccepted>>
  PROVE  /\ queue' = Post(q, LoopOf(c), F("destroyed", c))
         /\ Shape(queue')
         /\ connections' = connections \ {c}
         /\ Est(queue, c)' = Est(q, c) /\ Rem(queue, c)' = Rem(q, c)
         /\ Des(queue, c)' = Des(q, c) + 1
         /\ \A d \in Conns \ {c} :
              Est(queue, d)' = Est(q, d) /\ Rem(queue, d)' = Rem(q, d) /\ Des(queue, d)' = Des(q, d)
<1>1. c \in Conns /\ q \in Queues /\ numThreads \in 0..MaxThreads
  BY CreatedConns DEF Shape, LoopTypes
<1>2. /\ LoopOf(c) \in Loops /\ "destroyed" \in SharedOps \cup RawOps
      /\ F("destroyed", c) \in Functor /\ F("destroyed", c).op = "destroyed"
      /\ F("destroyed", c).conn = c
  BY <1>1, LoopOfType, FunctorType DEF SharedOps
<1>3. queue' = Post(q, LoopOf(c), F("destroyed", c)) /\ connections' = connections \ {c}
  BY DEF RemoveConnectionInLoop, Post
<1>4. Placed(LoopOf(c), F("destroyed", c))
  BY <1>2 DEF Placed
<1>5. Shape(queue')
  BY <1>1, <1>2, <1>3, <1>4, PostShape
<1>6. F("destroyed", c) # F("established", c) /\ F("destroyed", c) # F("remove", c)
  BY FunctorEqual
<1>7. Est(q, c) \in Nat /\ Rem(q, c) \in Nat /\ Des(q, c) \in Nat
  BY <1>1, UnderWayType
<1>8. /\ Est(queue', c) = Est(q, c) /\ Rem(queue', c) = Rem(q, c)
      /\ Des(queue', c) = Des(q, c) + 1
  BY <1>1, <1>2, <1>3, <1>6, <1>7, PostUnderWay
<1>9. \A d \in Conns \ {c} :
        Est(queue, d)' = Est(q, d) /\ Rem(queue, d)' = Rem(q, d) /\ Des(queue, d)' = Des(q, d)
  BY <1>1, <1>2, <1>3, PopPostOthers
<1>10. QED  BY <1>3, <1>5, <1>8, <1>9, UnderWayNext

LEMMA RunRemove ==
  ASSUME IInv, fault = {}, NEW l \in Loops, NEW c, Runs(l), queue[l] # <<>>,
         Head(queue[l]) = F("remove", c),
         RemoveConnectionInLoop(c, Pop(queue, l)), fault' = fault \cup RemoveFaults(c),
         UNCHANGED <<connVars, misused, numAccepted, delayed, userVars, lifeVars>>
  PROVE  IInv'
<1>0. /\ TInv /\ LInv(queue) /\ Shape(queue) /\ queue \in Queues
      /\ LoopTypes /\ numThreads \in 0..MaxThreads
  BY DEF IInv, LInv, TInv, LoopTypes, QueueTypes
<1> DEFINE q == Pop(queue, l)
<1>1. /\ c \in Conns /\ c \in Created /\ l = Base /\ LoopOf(c) # Base
      /\ Est(q, c) = Est(queue, c)
      /\ Rem(q, c) = Rem(queue, c) - 1
      /\ Des(q, c) = Des(queue, c)
      /\ Rem(queue, c) > 0
  BY <1>0, HeadUnderWay
<1>2. Shape(q) /\ q \in Queues
  BY <1>0, PopShape DEF Shape
<1>3. /\ UNCHANGED <<numThreads, server, numAccepted, held, userAt, loopPhase, delayed, misused,
                     state, channel, reading, wantsRead, ups, downs>>
      /\ server # "dying"
  BY <1>1 DEF userVars, lifeVars, connVars, Runs
<1> HIDE DEF q
<1>4. /\ Shape(queue')
      /\ connections' = connections \ {c}
      /\ Est(queue, c)' = Est(q, c) /\ Rem(queue, c)' = Rem(q, c)
      /\ Des(queue, c)' = Des(q, c) + 1
      /\ \A d \in Conns \ {c} :
           Est(queue, d)' = Est(q, d) /\ Rem(queue, d)' = Rem(q, d) /\ Des(queue, d)' = Des(q, d)
  <2>1. RemoveConnectionInLoop(c, q)
    BY DEF q
  <2>2. QED  BY <1>0, <1>1, <1>2, <1>3, <2>1, RemovePosts
<1>5. Life(queue, c)
  BY <1>0, <1>1 DEF LInv
<1>6. c \notin misused => Down(queue, c)
  BY <1>1, <1>5 DEF Life, Pending, Up
<1>7. TInv'
  <2>1. LoopTypes' /\ UserTypes' /\ ConnTypes' /\ ReadTypes' /\ CountTypes'
    BY <1>0, <1>3 DEF TInv, LoopTypes, UserTypes, ConnTypes, ReadTypes, CountTypes, Created
  <2>2. QueueTypes'
    BY <1>4 DEF QueueTypes, Shape
  <2>3. SetTypes'
    BY <1>0, <1>3, <1>4 DEF TInv, SetTypes, Created
  <2>4. QED  BY <2>1, <2>2, <2>3 DEF TInv
<1>8. NoFault'
  <2> SUFFICES ASSUME NEW f \in fault', f[2] \notin misused
               PROVE  f[1] = "server" /\ server' = "gone" /\ LoopOf(f[2])' # Base
    BY <1>3 DEF NoFault
  <2>1. \/ f = <<"server", c>> /\ server = "gone"
        \/ f = <<"erase", c>> /\ server = "alive" /\ c \notin connections
    BY DEF RemoveFaults, FaultIf
  <2>2. Down(queue, c) /\ f[2] = c
    BY <1>6, <2>1
  <2>3. ~(server = "alive" /\ c \notin connections)
    BY <1>1, <2>2 DEF Down
  <2>4. LoopOf(c)' # Base
    BY <1>1, <1>3 DEF LoopOf
  <2>5. QED  BY <1>3, <2>1, <2>2, <2>3, <2>4
<1>9. fault' = {} => LInv(queue)'
  <2> SUFFICES ASSUME fault' = {} PROVE LInv(queue)'
    OBVIOUS
  <2>1. server = "alive"
    BY <1>0, <1>3 DEF RemoveFaults, FaultIf, LoopTypes
  <2>2. \A d \in Conns \ {c} : Same(queue, d)
    <3> SUFFICES ASSUME NEW d \in Conns \ {c} PROVE Same(queue, d)
      OBVIOUS
    <3>1. Est(q, d) = Est(queue, d) /\ Rem(q, d) = Rem(queue, d) /\ Des(q, d) = Des(queue, d)
      <4>1. Head(queue[l]).conn # d
        BY DEF F
      <4>2. QED  BY <1>0, <4>1, PopOthers DEF q
    <3>2. QED  BY <1>3, <1>4, <3>1 DEF Same, Calling
  <2>3. c \notin misused => Down(queue, c)'
    <3> SUFFICES ASSUME c \notin misused PROVE Down(queue, c)'
      OBVIOUS
    <3>1. Down(queue, c) /\ c \in connections /\ Rem(queue, c) = 1 /\ channel[c] = "added"
      BY <1>1, <1>6, <2>1 DEF Down
    <3>2. Rem(q, c) = 0 /\ Des(queue, c) = 0 /\ Est(queue, c) = 0
      BY <1>1, <3>1 DEF Down
    <3>3. Rem(queue, c)' = 0 /\ Des(queue, c)' = 1 /\ Est(queue, c)' = 0 /\ c \notin connections'
      <4>1. /\ Est(queue, c)' = Est(q, c) /\ Rem(queue, c)' = Rem(q, c)
            /\ Des(queue, c)' = Des(q, c) + 1 /\ c \notin connections'
        BY <1>4
      <4>2. Est(q, c) = Est(queue, c) /\ Des(q, c) = Des(queue, c)
        BY <1>1
      <4>3. QED  BY <3>2, <4>1, <4>2
    <3>4. /\ state'[c] = "disconnected" /\ channel'[c] = "added" /\ ~reading'[c]
          /\ ups'[c] = 1 /\ downs'[c] = 1
      BY <1>3, <3>1 DEF Down
    <3>5. QED  BY <3>3, <3>4 DEF Down
  <2>4. c \in misused => Worn(queue, c)'
    <3> SUFFICES ASSUME c \in misused PROVE Worn(queue, c)'
      OBVIOUS
    <3>1. Worn(queue, c)
      BY <1>1, <1>5 DEF Life
    <3>2. Est(queue, c)' = 0 /\ Calling(c)' = Calling(c) /\ Open(c)' = Open(c)
      BY <1>1, <1>3, <1>4, <3>1 DEF Worn, Calling, Open, IsUp
    <3>3. QED  BY <1>3, <3>1, <3>2 DEF Worn
  <2>5. Life(queue, c)'
    BY <1>1, <1>3, <2>3, <2>4 DEF Life, Created
  <2>6. QED  BY <1>0, <1>1, <1>3, <1>4, <2>2, <2>5, OneConnection
<1>10. QED  BY <1>7, <1>8, <1>9 DEF IInv

\* The end of a connection in its loop: from the poller, or from forceClose.  q are
\* the queues as handleClose finds them.
LEMMA CloseStep ==
  ASSUME TInv, NEW q, LInv(q), fault = {}, NEW c \in Created, c \in misused \/ Up(q, c),
         HandleClose(c, q),
         UNCHANGED <<numAccepted, delayed, userVars, lifeVars>>
  PROVE  IInv'
<1>0. /\ Shape(q) /\ q \in Queues /\ LoopTypes /\ numThreads \in 0..MaxThreads /\ c \in Conns
  BY CreatedConns DEF LInv, Shape, TInv, LoopTypes
<1>1. /\ UNCHANGED <<numThreads, server, numAccepted, held, userAt, loopPhase, delayed, misused,
                     channel, wantsRead, ups>>
      /\ state' = [state EXCEPT ![c] = "disconnected"]
      /\ reading' = [reading EXCEPT ![c] = FALSE]
      /\ downs' = [downs EXCEPT ![c] = @ + 1]
  BY DEF userVars, lifeVars, HandleClose
<1>2. /\ state'[c] = "disconnected" /\ ~reading'[c] /\ downs'[c] = downs[c] + 1
      /\ \A d \in Conns \ {c} :
           state'[d] = state[d] /\ reading'[d] = reading[d] /\ downs'[d] = downs[d]
  BY <1>0, <1>1 DEF TInv, ConnTypes, CountTypes
<1>3. Life(q, c) /\ Est(q, c) \in Nat /\ Rem(q, c) \in Nat /\ Des(q, c) \in Nat
  BY <1>0, UnderWayType DEF LInv
<1>4. /\ Shape(queue')
      /\ \A d \in Conns \ {c} :
           Est(queue, d)' = Est(q, d) /\ Rem(queue, d)' = Rem(q, d) /\ Des(queue, d)' = Des(q, d)
      /\ connections' = IF LoopOf(c) = Base THEN connections \ {c} ELSE connections
      /\ Est(queue, c)' = Est(q, c)
      /\ Rem(queue, c)' = IF LoopOf(c) = Base THEN Rem(q, c) ELSE Rem(q, c) + 1
      /\ Des(queue, c)' = IF LoopOf(c) = Base THEN Des(q, c) + 1 ELSE Des(q, c)
  <2>1. CASE LoopOf(c) = Base
    <3>1. RemoveConnectionInLoop(c, q)
      BY <2>1 DEF HandleClose
    <3>2. QED  BY <1>0, <1>1, <2>1, <3>1, RemovePosts
  <2>2. CASE LoopOf(c) # Base
    <3>1. queue' = Post(q, Base, F("remove", c)) /\ connections' = connections
      BY <2>2 DEF HandleClose, Post
    <3>2. /\ Base \in Loops /\ "remove" \in SharedOps \cup RawOps
          /\ F("remove", c) \in Functor /\ F("remove", c).op = "remove" /\ F("remove", c).conn = c
      BY <1>0, LoopOfType, FunctorType DEF SharedOps
    <3>3. Placed(Base, F("remove", c))
      BY <2>2, <3>2 DEF Placed
    <3>4. Shape(queue')
      BY <1>0, <3>1, <3>2, <3>3, PostShape
    <3>5. F("remove", c) # F("established", c) /\ F("remove", c) # F("destroyed", c)
      BY FunctorEqual
    <3>6. /\ Est(queue', c) = Est(q, c) /\ Rem(queue', c) = Rem(q, c) + 1
          /\ Des(queue', c) = Des(q, c)
      BY <1>0, <1>3, <3>1, <3>2, <3>5, PostUnderWay
    <3>7. \A d \in Conns \ {c} :
            Est(queue, d)' = Est(q, d) /\ Rem(queue, d)' = Rem(q, d) /\ Des(queue, d)' = Des(q, d)
      BY <1>0, <1>1, <3>1, <3>2, PopPostOthers
    <3>8. QED  BY <1>1, <2>2, <3>1, <3>4, <3>6, <3>7, UnderWayNext
  <2>3. QED  BY <2>1, <2>2
<1>5. TInv'
  <2>1. LoopTypes' /\ UserTypes' /\ ReadTypes'
    BY <1>0, <1>1 DEF TInv, LoopTypes, UserTypes, ReadTypes, Created
  <2>2. QueueTypes'
    BY <1>4 DEF QueueTypes, Shape
  <2>3. SetTypes'
    BY <1>1, <1>4 DEF TInv, SetTypes, Created
  <2>4. ConnTypes'
    BY <1>0, <1>1 DEF TInv, ConnTypes, States
  <2>5. CountTypes'
    <3>1. downs[c] + 1 \in 0..(3 + Cardinality(Users))
      <4>1. downs[c] \in 0..(1 + Cardinality(Users)) /\ Cardinality(Users) \in Nat
        BY <1>0, DownsBound, CallingType
      <4>2. QED  BY <4>1
    <3>2. QED  BY <1>1, <3>1 DEF TInv, CountTypes
  <2>6. QED  BY <2>1, <2>2, <2>3, <2>4, <2>5 DEF TInv
<1>6. NoFault'
  <2> SUFFICES ASSUME NEW f \in fault', f[2] \notin misused
               PROVE  f[1] = "server" /\ server' = "gone" /\ LoopOf(f[2])' # Base
    BY <1>1 DEF NoFault
  <2>1. f[2] = c
    BY DEF HandleClose, FaultIf, RemoveFaults
  <2>2. /\ IsUp(c) /\ channel[c] = "added" /\ Tabled(q, c)
    BY <2>1 DEF Up
  <2>3. f \in IF LoopOf(c) = Base THEN RemoveFaults(c) ELSE FaultIf(server = "gone", "server", c)
    BY <2>2 DEF HandleClose
  <2>4. LoopOf(c) # Base
    <3> SUFFICES ASSUME LoopOf(c) = Base PROVE FALSE
      OBVIOUS
    <3>1. server = "alive" /\ c \in connections
      BY <2>2 DEF Tabled
    <3>2. QED  BY <2>3, <3>1 DEF RemoveFaults, FaultIf
  <2>5. f[1] = "server" /\ server = "gone"
    BY <2>3, <2>4 DEF FaultIf
  <2>6. LoopOf(c)' # Base
    BY <1>1, <2>4 DEF LoopOf
  <2>7. QED  BY <1>1, <2>1, <2>5, <2>6
<1>7. fault' = {} => LInv(queue)'
  <2> SUFFICES ASSUME fault' = {} PROVE LInv(queue)'
    OBVIOUS
  <2>1. IsUp(c)
    BY DEF HandleClose
  <2>2. \A d \in Conns \ {c} : Same(q, d)
    BY <1>1, <1>2, <1>4 DEF Same, Calling
  <2>3. c \notin misused => Down(queue, c)'
    <3> SUFFICES ASSUME Up(q, c) PROVE Down(queue, c)'
      OBVIOUS
    <3>1. /\ channel'[c] = "added" /\ ups'[c] = 1 /\ downs'[c] = 1 /\ Est(queue, c)' = 0
      BY <1>1, <1>2, <1>4 DEF Up
    <3>2. /\ Rem(q, c) = 0
          /\ c \in connections <=> server = "alive"
          /\ Des(q, c) = IF c \in connections THEN 0 ELSE 1
          /\ c \notin connections => LoopOf(c) # Base
      BY DEF Up, Tabled
    <3>3. LoopOf(c)' = LoopOf(c)
      BY <1>1 DEF LoopOf
    <3>4. QED  BY <1>1, <1>2, <1>4, <3>1, <3>2, <3>3 DEF Down
  <2>4. c \in misused => Worn(queue, c)'
    <3> SUFFICES ASSUME c \in misused PROVE Worn(queue, c)'
      OBVIOUS
    <3>1. Worn(q, c) /\ Est(q, c) = 0
      BY <1>3 DEF Life, Worn
    <3>2. ~IsUp(c)' /\ Calling(c)' = Calling(c) /\ Est(queue, c)' = 0
      BY <1>1, <1>2, <1>4, <3>1 DEF IsUp, Calling
    <3>3. QED  BY <1>0, <1>2, <2>1, <3>1, <3>2, StaysWorn
  <2>5. Life(queue, c)'
    BY <1>1, <2>3, <2>4 DEF Life, Created
  <2>6. QED  BY <1>0, <1>1, <1>4, <2>2, <2>5, OneConnection
<1>8. QED  BY <1>5, <1>6, <1>7 DEF IInv

\* A step that leaves connections, table and history alone.
LEMMA QuietStep ==
  ASSUME TInv, fault = {}, Shape(queue'), NEW q, LInv(q),
         \A d \in Conns :
           /\ Est(queue, d)' = Est(q, d) /\ Rem(queue, d)' = Rem(q, d) /\ Des(queue, d)' = Des(q, d),
         UNCHANGED <<connections, connVars, misused, numAccepted, numThreads, server, userVars, fault>>,
         loopPhase' \in [Loops -> {"looping", "quit", "drain", "ended"}],
         server = "alive" => loopPhase' = loopPhase,
         delayed' \subseteq Created
  PROVE  IInv'
<1>1. UNCHANGED <<connections, state, channel, reading, wantsRead, ups, downs, misused,
                  numAccepted, numThreads, server, held, userAt, fault>>
  BY DEF connVars, userVars
<1>2. TInv'
  <2>1. LoopTypes' /\ SetTypes'
    BY <1>1 DEF TInv, LoopTypes, SetTypes, Created
  <2>2. QueueTypes'
    BY DEF QueueTypes, Shape
  <2>3. ConnTypes' /\ ReadTypes' /\ CountTypes' /\ UserTypes'
    BY <1>1 DEF TInv, ConnTypes, ReadTypes, CountTypes, UserTypes, Created
  <2>4. QED  BY <2>1, <2>2, <2>3 DEF TInv
<1>3. \A d \in Conns : Same(q, d)
  BY <1>1 DEF Same, Calling
<1>4. \A d \in Conns : Life(queue, d)'
  BY <1>1, <1>3, Untouched DEF LInv, Created
<1>5. Shape(queue)'
  BY <1>1, ShapeNext DEF Created
<1>6. QED  BY <1>1, <1>2, <1>4, <1>5 DEF IInv, NoFault, LInv

LEMMA RunForceClose ==
  ASSUME IInv, fault = {}, NEW l \in Loops, queue[l] # <<>>, NEW c,
         Head(queue[l]) = F("forceClose", c), ForceCloseInLoop(c, Pop(queue, l)),
         UNCHANGED <<numAccepted, delayed, userVars, lifeVars>>
  PROVE  IInv'
<1> DEFINE q == Pop(queue, l)
<1>0. /\ TInv /\ LInv(queue) /\ Shape(queue) /\ queue \in Queues
      /\ LoopTypes /\ SetTypes /\ numThreads \in 0..MaxThreads
  BY DEF IInv, LInv, TInv, LoopTypes, QueueTypes
<1>1. c \in Conns /\ c \in Created
  BY <1>0, HeadUnderWay
<1>2. LInv(q)
  BY <1>0, PopOther
<1>3. ForceCloseInLoop(c, q)
  OBVIOUS
<1> HIDE DEF q
<1>4. CASE IsUp(c)
  <2>1. HandleClose(c, q)
    BY <1>3, <1>4 DEF ForceCloseInLoop
  <2>2. c \in misused \/ Up(q, c)
    BY <1>1, <1>2, <1>4, UpIfOpen DEF LInv
  <2>3. QED  BY <1>0, <1>1, <1>2, <2>1, <2>2, CloseStep
<1>5. CASE ~IsUp(c)
  <2>1. queue' = q /\ UNCHANGED <<connections, connVars, misused, fault>>
    BY <1>3, <1>5 DEF ForceCloseInLoop
  <2>2. UNCHANGED <<numThreads, server, loopPhase, delayed, numAccepted, userVars>>
    BY DEF lifeVars
  <2>3. \A d \in Conns :
          /\ Est(queue, d)' = Est(q, d) /\ Rem(queue, d)' = Rem(q, d) /\ Des(queue, d)' = Des(q, d)
    BY <2>1, <2>2, UnderWayNext
  <2>4. Shape(queue')
    BY <1>2, <2>1 DEF LInv
  <2>5. loopPhase' \in [Loops -> {"looping", "quit", "drain", "ended"}] /\ delayed' \subseteq Created
    BY <1>0, <2>2 DEF LoopTypes, SetTypes
  <2>6. server = "alive" => loopPhase' = loopPhase
    BY <2>2
  <2>7. QED  BY <1>0, <1>2, <2>1, <2>2, <2>3, <2>4, <2>5, <2>6, QuietStep
<1>6. QED  BY <1>4, <1>5

\* Only reading, wantsRead and misused of one connection change: it stays up, or
\* has been misused.
LEMMA ReadStep ==
  ASSUME TInv, fault = {}, Shape(queue'), NEW q, LInv(q), NEW c \in Created,
         \A d \in Conns :
           /\ Est(queue, d)' = Est(q, d) /\ Rem(queue, d)' = Rem(q, d) /\ Des(queue, d)' = Des(q, d),
         UNCHANGED <<connections, state, channel, ups, downs, numAccepted, delayed, lifeVars, userVars>>,
         ConnTypes', ReadTypes',
         \A d \in Conns \ {c} : reading'[d] = reading[d],
         misused' = misused \/ (misused' = misused \cup {c} /\ Est(q, c) = 0),
         c \notin misused' => IsUp(c)
  PROVE  TInv' /\ LInv(queue)'
<1>0. LoopTypes /\ c \in Conns
  BY CreatedConns DEF TInv
<1>1. UNCHANGED <<connections, state, channel, ups, downs, numAccepted, delayed, loopPhase,
                  numThreads, server, held, userAt>>
  BY DEF lifeVars, userVars
<1>2. TInv'
  <2>1. LoopTypes' /\ UserTypes' /\ CountTypes'
    BY <1>1 DEF TInv, LoopTypes, UserTypes, CountTypes, Created
  <2>2. QueueTypes'
    BY DEF QueueTypes, Shape
  <2>3. SetTypes'
    BY <1>1 DEF TInv, SetTypes, Created
  <2>4. QED  BY <2>1, <2>2, <2>3 DEF TInv
<1>3. \A d \in Conns \ {c} : Same(q, d)
  BY <1>1 DEF Same, Calling
<1>4. Life(q, c)
  BY <1>0 DEF LInv
<1>5. IsUp(c)' = IsUp(c) /\ Calling(c)' = Calling(c) /\ LoopOf(c)' = LoopOf(c) /\ Open(c)' = Open(c)
  BY <1>1 DEF IsUp, Calling, LoopOf, Open
<1>6. CASE c \notin misused'
  <2>1. Up(q, c) /\ c \notin misused
    BY <1>4, <1>6, UpIfOpen
  <2>2. Tabled(queue, c)'
    BY <1>0, <1>1, <1>5, <2>1 DEF Up, Tabled
  <2>3. Up(queue, c)'
    BY <1>0, <1>1, <1>5, <2>1, <2>2 DEF Up
  <2>4. QED  BY <1>0, <1>1, <1>2, <1>3, <1>6, <2>3, OneConnection DEF Life, Created, lifeVars
<1>7. CASE c \in misused
  <2>1. Worn(q, c) /\ c \in misused'
    BY <1>4, <1>7 DEF Life
  <2>2. Worn(queue, c)'
    BY <1>0, <1>1, <1>5, <2>1 DEF Worn
  <2>3. QED  BY <1>0, <1>1, <1>2, <1>3, <2>1, <2>2, OneConnection DEF Life, Created, lifeVars
<1>8. CASE c \in misused' /\ c \notin misused
  <2>1. Est(q, c) = 0 /\ Est(queue, c)' = 0
    BY <1>0, <1>8
  <2>2. downs[c] = 0 \/ (downs[c] = 1 /\ ~IsUp(c))
    BY <1>4, <1>8, <2>1 DEF Life, Pending, Unborn, Up, Down, IsUp
  <2>3. Worn(queue, c)'
    BY <1>0, <1>1, <1>5, <2>1, <2>2, BecomesWorn, CallingType
  <2>4. QED  BY <1>0, <1>1, <1>2, <1>3, <1>8, <2>3, OneConnection DEF Life, Created, lifeVars
<1>9. QED  BY <1>6, <1>7, <1>8

\* SetReading keeps the types, and faults only for connections that are not up.
LEMMA ReadingTypes ==
  ASSUME TInv, fault = {}, NEW c \in Conns, NEW on \in BOOLEAN, SetReading(c, on)
  PROVE  /\ ConnTypes' /\ ReadTypes'
         /\ \A d \in Conns \ {c} : reading'[d] = reading[d]
         /\ UNCHANGED <<state, channel, ups, downs>>
         /\ \A f \in fault' : f[2] = c
         /\ channel[c] = "added" /\ Alive(c) => fault' = {}
<1> DEFINE acts == IF on THEN ~wantsRead[c] \/ ~reading[c] ELSE wantsRead[c] \/ reading[c]
<1>1. /\ reading' = [reading EXCEPT ![c] = IF acts /\ channel[c] = "added" THEN on ELSE @]
      /\ wantsRead' = [wantsRead EXCEPT ![c] = IF acts THEN on ELSE @]
      /\ fault' = fault \cup FaultIf(acts /\ channel[c] # "added", "update", c)
                        \cup FaultIf(~Alive(c), "connection", c)
      /\ UNCHANGED <<state, channel, ups, downs>>
  BY DEF SetReading
<1> HIDE DEF acts
<1>2. /\ reading \in [Conns -> BOOLEAN] /\ wantsRead \in [Conns -> BOOLEAN]
      /\ \A d \in Conns : reading[d] => channel[d] = "added"
  BY DEF TInv, ConnTypes, ReadTypes
<1>3. reading' \in [Conns -> BOOLEAN] /\ wantsRead' \in [Conns -> BOOLEAN]
  <2>1. (IF acts /\ channel[c] = "added" THEN on ELSE reading[c]) \in BOOLEAN
    BY <1>2, Zenon
  <2>2. (IF acts THEN on ELSE wantsRead[c]) \in BOOLEAN
    BY <1>2, Zenon
  <2>3. QED  BY <1>1, <1>2, <2>1, <2>2
<1>4. \A d \in Conns \ {c} : reading'[d] = reading[d]
  BY <1>1, <1>2
<1>5. reading'[c] => channel[c] = "added"
  BY <1>1, <1>2
<1>6. ConnTypes' /\ ReadTypes'
  BY <1>1, <1>2, <1>3, <1>4, <1>5 DEF TInv, ConnTypes, ReadTypes
<1>7. \A f \in fault' : f[2] = c
  BY <1>1 DEF FaultIf
<1>8. channel[c] = "added" /\ Alive(c) => fault' = {}
  BY <1>1 DEF FaultIf
<1>9. QED  BY <1>1, <1>4, <1>6, <1>7, <1>8

LEMMA RunCall ==
  ASSUME IInv, fault = {}, NEW l \in Loops, queue[l] # <<>>, NEW c, NEW op,
         Head(queue[l]) = F(op, c), queue' = Pop(queue, l),
         Misuse(c), op \in RawOps,
         \/ op \in {"startRead", "stopRead"} /\ SetReading(c, op = "startRead")
         \/ fault' = fault \cup FaultIf(~Alive(c), "connection", c) /\ UNCHANGED connVars,
         UNCHANGED <<connections, numAccepted, delayed, userVars, lifeVars>>
  PROVE  IInv'
<1>0. /\ TInv /\ LInv(queue) /\ Shape(queue) /\ queue \in Queues
      /\ LoopTypes /\ ConnTypes /\ ReadTypes /\ numThreads \in 0..MaxThreads
  BY DEF IInv, LInv, TInv, LoopTypes, QueueTypes
<1>1. op \notin {"established", "remove", "destroyed"}
  BY DEF RawOps
<1>2. c \in Conns /\ c \in Created /\ Est(queue, c) = 0
  BY <1>0, <1>1, HeadUnderWay
<1> DEFINE q == Pop(queue, l)
<1>3. LInv(q) /\ Est(q, c) = 0
  BY <1>0, <1>1, <1>2, PopOther, HeadUnderWay
<1>4. /\ Shape(queue')
      /\ \A d \in Conns :
           /\ Est(queue, d)' = Est(q, d) /\ Rem(queue, d)' = Rem(q, d) /\ Des(queue, d)' = Des(q, d)
  BY <1>3, UnderWayNext DEF LInv, lifeVars
<1>5. /\ ConnTypes' /\ ReadTypes'
      /\ \A d \in Conns \ {c} : reading'[d] = reading[d]
      /\ UNCHANGED <<state, channel, ups, downs>>
      /\ \A f \in fault' : f[2] = c
      /\ channel[c] = "added" /\ Alive(c) => fault' = {}
  <2>1. CASE op \in {"startRead", "stopRead"} /\ SetReading(c, op = "startRead")
    <3>1. (op = "startRead") \in BOOLEAN
      OBVIOUS
    <3>2. QED  BY <1>0, <1>2, <2>1, <3>1, ReadingTypes
  <2>2. CASE fault' = fault \cup FaultIf(~Alive(c), "connection", c) /\ UNCHANGED connVars
    <3>1. UNCHANGED <<state, channel, reading, wantsRead, ups, downs>>
      BY <2>2 DEF connVars
    <3>2. ConnTypes' /\ ReadTypes'
      BY <1>0, <3>1 DEF ConnTypes, ReadTypes
    <3>3. QED  BY <2>2, <3>1, <3>2 DEF FaultIf
  <2>3. QED  BY <2>1, <2>2
<1>6. /\ misused' = misused \/ misused' = misused \cup {c}
      /\ c \notin misused' => IsUp(c) /\ c \notin misused
  BY DEF Misuse
<1> HIDE DEF q
<1>7. TInv' /\ LInv(queue)'
  BY <1>0, <1>2, <1>3, <1>4, <1>5, <1>6, ReadStep
<1>8. c \notin misused' => fault' = {}
  <2> SUFFICES ASSUME c \notin misused' PROVE fault' = {}
    OBVIOUS
  <2>1. Life(queue, c)
    BY <1>0, <1>2 DEF LInv
  <2>2. Up(queue, c)
    BY <1>2, <1>6, <2>1, UpIfOpen
  <2>3. channel[c] = "added" /\ Alive(c)
    BY <1>0, <1>2, <2>2, TabledAlive DEF Up
  <2>4. QED  BY <1>5, <2>3
<1>9. NoFault'
  BY <1>5, <1>8 DEF NoFault
<1>10. QED  BY <1>7, <1>9 DEF IInv

\* Every functor.
LEMMA RunFunctorKeeps == ASSUME IInv, fault = {}, NEW l \in Loops, RunFunctor(l) PROVE IInv'
<1> DEFINE f == Head(queue[l])
           c == f.conn
<1>1. queue[l] # <<>> /\ Runs(l) /\ queue \in Queues
  BY DEF RunFunctor, IInv, TInv, QueueTypes
<1>2. f \in Functor
  BY <1>1, HeadTailProperties DEF Queues
<1>3. f = F(f.op, c)
  BY <1>2, FunctorType
<1>4. [queue EXCEPT ![l] = Tail(@)] = Pop(queue, l)
  BY DEF Pop
<1>5. UNCHANGED <<numAccepted, delayed, userVars, lifeVars>>
  BY DEF RunFunctor
<1>6. CASE /\ f.op = "established" /\ ConnectEstablished(c)
           /\ queue' = Pop(queue, l) /\ UNCHANGED connections
  <2> HIDE DEF c
  <2>1. QED  BY <1>1, <1>3, <1>5, <1>6, RunEstablished
<1>7. CASE /\ f.op = "destroyed" /\ ConnectDestroyed({c})
           /\ queue' = Pop(queue, l) /\ UNCHANGED connections
  <2> HIDE DEF c
  <2>1. QED  BY <1>1, <1>3, <1>5, <1>7, RunDestroyed
<1>8. CASE /\ f.op = "remove" /\ RemoveConnectionInLoop(c, Pop(queue, l))
           /\ fault' = fault \cup RemoveFaults(c) /\ UNCHANGED <<connVars, misused>>
  <2> HIDE DEF c
  <2>1. QED  BY <1>1, <1>3, <1>5, <1>8, RunRemove
<1>9. CASE f.op = "forceClose" /\ ForceCloseInLoop(c, Pop(queue, l))
  <2> HIDE DEF c
  <2>1. QED  BY <1>1, <1>3, <1>5, <1>9, RunForceClose
<1>10. CASE /\ f.op \in {"startRead", "stopRead"} /\ SetReading(c, f.op = "startRead")
            /\ Misuse(c) /\ queue' = Pop(queue, l) /\ UNCHANGED connections
  <2> HIDE DEF c
  <2>1. QED  BY <1>1, <1>3, <1>5, <1>10, RunCall DEF RawOps
<1>11. CASE /\ f.op = "shutdown" /\ fault' = fault \cup FaultIf(~Alive(c), "connection", c)
            /\ Misuse(c) /\ queue' = Pop(queue, l) /\ UNCHANGED <<connections, connVars>>
  <2> HIDE DEF c
  <2>1. QED  BY <1>1, <1>3, <1>5, <1>11, RunCall DEF RawOps
<1>12. QED  BY <1>4, <1>6, <1>7, <1>8, <1>9, <1>10, <1>11 DEF RunFunctor

------------------------------------------------------------------------------
(* Events of the poller, callbacks and timers.                                *)

LEMMA HandleReadKeeps == ASSUME IInv, fault = {}, NEW c \in Conns, HandleRead(c) PROVE IInv'
<1>1. TInv /\ LInv(queue) /\ c \in Created /\ reading[c] /\ HandleClose(c, queue)
  BY DEF IInv, HandleRead
<1>2. Life(queue, c)
  BY <1>1 DEF LInv
<1>3. c \in misused \/ Up(queue, c)
  BY <1>1, <1>2 DEF Life, Pending, Unborn, Down
<1>4. UNCHANGED <<numAccepted, delayed, userVars, lifeVars>>
  BY DEF HandleRead
<1>5. QED  BY <1>1, <1>3, <1>4, CloseStep

\* m_state is assigned kDisconnecting for a connection that is up.
LEMMA DisconnectStep ==
  ASSUME TInv, fault = {}, NEW q, LInv(q), NEW c \in Created, IsUp(c),
         queue' = q, state' = [state EXCEPT ![c] = "disconnecting"],
         UNCHANGED <<connections, channel, reading, wantsRead, ups, downs, numAccepted,
                     userVars, lifeVars, misused, fault>>,
         delayed' \subseteq Created
  PROVE  IInv'
<1>0. LoopTypes /\ c \in Conns
  BY CreatedConns DEF TInv
<1>1. /\ UNCHANGED <<connections, channel, reading, wantsRead, ups, downs, numAccepted, loopPhase,
                     numThreads, server, held, userAt, misused, fault>>
      /\ state'[c] = "disconnecting" /\ \A d \in Conns \ {c} : state'[d] = state[d]
  BY <1>0 DEF lifeVars, userVars, TInv, ConnTypes
<1>2. TInv'
  <2>1. LoopTypes' /\ UserTypes' /\ CountTypes' /\ ReadTypes'
    BY <1>1 DEF TInv, LoopTypes, UserTypes, CountTypes, ReadTypes, Created
  <2>2. QueueTypes'
    BY DEF QueueTypes, Shape, LInv
  <2>3. SetTypes'
    BY <1>1 DEF TInv, SetTypes, Created
  <2>4. ConnTypes'
    BY <1>0, <1>1 DEF TInv, ConnTypes, States
  <2>5. QED  BY <2>1, <2>2, <2>3, <2>4 DEF TInv
<1>3. \A d \in Conns :
        Est(queue, d)' = Est(q, d) /\ Rem(queue, d)' = Rem(q, d) /\ Des(queue, d)' = Des(q, d)
  BY <1>1, UnderWayNext
<1>4. \A d \in Conns \ {c} : Same(q, d)
  BY <1>1, <1>3 DEF Same, Calling
<1>5. Life(q, c) /\ Shape(queue')
  BY <1>0 DEF LInv
<1>6. IsUp(c)' /\ Calling(c)' = Calling(c) /\ LoopOf(c)' = LoopOf(c) /\ Open(c)' = Open(c)
  BY <1>1 DEF IsUp, Calling, LoopOf, Open
<1>7. CASE c \notin misused
  <2>1. Up(q, c)
    BY <1>5, <1>7, UpIfOpen
  <2>2. Tabled(queue, c)'
    BY <1>0, <1>1, <1>3, <1>6, <2>1 DEF Up, Tabled
  <2>3. Up(queue, c)'
    BY <1>0, <1>1, <1>3, <1>6, <2>1, <2>2 DEF Up
  <2>4. LInv(queue)'
    BY <1>0, <1>1, <1>4, <1>5, <1>7, <2>3, OneConnection DEF Life, Created
  <2>5. QED  BY <1>1, <1>2, <2>4 DEF IInv, NoFault
<1>8. CASE c \in misused
  <2>1. Worn(q, c)
    BY <1>5, <1>8 DEF Life
  <2>2. Worn(queue, c)'
    BY <1>0, <1>1, <1>3, <1>6, <2>1 DEF Worn
  <2>3. LInv(queue)'
    BY <1>0, <1>1, <1>4, <1>5, <1>8, <2>2, OneConnection DEF Life, Created
  <2>4. QED  BY <1>1, <1>2, <2>3 DEF IInv, NoFault
<1>9. QED  BY <1>7, <1>8

LEMMA LoopCallKeeps == ASSUME IInv, fault = {}, NEW c \in Conns, LoopCall(c) PROVE IInv'
<1>0. /\ TInv /\ LInv(queue) /\ LoopTypes /\ c \in Created /\ IsUp(c) /\ c \notin misused
      /\ delayed \subseteq Created
      /\ UNCHANGED <<numAccepted, connections, userVars, lifeVars, misused>>
  BY DEF IInv, LoopCall, TInv, SetTypes
<1>1. CASE ForceClose(c) /\ UNCHANGED <<delayed, channel, reading, wantsRead, ups, downs, fault>>
  <2>1. /\ queue' = Post(queue, LoopOf(c), F("forceClose", c))
        /\ state' = [state EXCEPT ![c] = "disconnecting"]
    BY <1>1 DEF ForceClose, Post
  <2>2. LInv(Post(queue, LoopOf(c), F("forceClose", c)))
    BY <1>0, PostOther
  <2>3. QED  BY <1>0, <1>1, <2>1, <2>2, DisconnectStep
<1>2. CASE /\ state' = [state EXCEPT ![c] = "disconnecting"] /\ delayed' \subseteq Created
           /\ UNCHANGED <<queue, channel, reading, wantsRead, ups, downs, fault>>
  BY <1>0, <1>2, DisconnectStep
<1>3. CASE (\E on \in BOOLEAN : SetReading(c, on)) /\ UNCHANGED <<delayed, queue>>
  <2>1. PICK on \in BOOLEAN : SetReading(c, on)
    BY <1>3
  <2>2. /\ ConnTypes' /\ ReadTypes'
        /\ \A d \in Conns \ {c} : reading'[d] = reading[d]
        /\ UNCHANGED <<state, channel, ups, downs>>
        /\ channel[c] = "added" /\ Alive(c) => fault' = {}
    BY <1>0, <2>1, ReadingTypes
  <2>3. Up(queue, c)
    BY <1>0, UpIfOpen DEF LInv
  <2>4. fault' = {}
    <3>1. channel[c] = "added" /\ Tabled(queue, c) /\ queue \in Queues
      BY <1>0, <2>3 DEF Up, TInv, QueueTypes
    <3>2. QED  BY <1>0, <2>2, <3>1, TabledAlive
  <2>5. /\ Shape(queue')
        /\ \A d \in Conns : /\ Est(queue, d)' = Est(queue, d) /\ Rem(queue, d)' = Rem(queue, d)
                            /\ Des(queue, d)' = Des(queue, d)
    BY <1>0, <1>3, UnderWayNext DEF LInv, lifeVars
  <2>6. misused' = misused /\ (c \notin misused' => IsUp(c)) /\ UNCHANGED delayed
    BY <1>0, <1>3
  <2>7. TInv' /\ LInv(queue)'
    BY <1>0, <2>2, <2>5, <2>6, ReadStep
  <2>8. QED  BY <2>4, <2>7 DEF IInv, NoFault
<1>4. QED  BY <1>0, <1>1, <1>2, <1>3 DEF LoopCall

LEMMA DelayOverKeeps == ASSUME IInv, fault = {}, NEW c \in Conns, DelayOver(c) PROVE IInv'
<1>0. /\ TInv /\ LInv(queue) /\ LoopTypes /\ c \in Created /\ delayed' \subseteq Created
      /\ UNCHANGED <<numAccepted, connections, channel, reading, wantsRead, ups, downs,
                     userVars, lifeVars, misused, fault>>
  BY DEF IInv, DelayOver, TInv, SetTypes
<1>1. CASE IsUp(c) /\ ForceClose(c)
  <2>1. /\ queue' = Post(queue, LoopOf(c), F("forceClose", c))
        /\ state' = [state EXCEPT ![c] = "disconnecting"]
    BY <1>1 DEF ForceClose, Post
  <2>2. LInv(Post(queue, LoopOf(c), F("forceClose", c)))
    BY <1>0, PostOther
  <2>3. QED  BY <1>0, <1>1, <2>1, <2>2, DisconnectStep
<1>2. CASE UNCHANGED <<state, queue>>
  <2>1. /\ UNCHANGED <<connVars, numThreads, server, loopPhase>>
        /\ loopPhase' \in [Loops -> {"looping", "quit", "drain", "ended"}]
        /\ server = "alive" => loopPhase' = loopPhase
    BY <1>0, <1>2 DEF connVars, lifeVars, LoopTypes
  <2>2. /\ Shape(queue')
        /\ \A d \in Conns : /\ Est(queue, d)' = Est(queue, d) /\ Rem(queue, d)' = Rem(queue, d)
                            /\ Des(queue, d)' = Des(queue, d)
    BY <1>0, <1>2, <2>1, UnderWayNext DEF LInv
  <2>3. QED  BY <1>0, <2>1, <2>2, QuietStep
<1>3. QED  BY <1>1, <1>2 DEF DelayOver

------------------------------------------------------------------------------
(* The ends of the I/O loops.                                                 *)

LEMMA QuitLoopKeeps == ASSUME IInv, fault = {}, NEW l \in Loops, QuitLoop(l) \/ LeaveLoop(l) PROVE IInv'
<1>0. /\ TInv /\ LInv(queue) /\ LoopTypes /\ delayed' \subseteq Created
      /\ UNCHANGED <<numAccepted, connections, queue, delayed, connVars, userVars, numThreads, server,
                     misused, fault>>
      /\ loopPhase' \in [Loops -> {"looping", "quit", "drain", "ended"}]
      /\ server # "alive"
  BY DEF IInv, TInv, SetTypes, LoopTypes, QuitLoop, LeaveLoop
<1>1. /\ Shape(queue')
      /\ \A d \in Conns : /\ Est(queue, d)' = Est(queue, d) /\ Rem(queue, d)' = Rem(queue, d)
                          /\ Des(queue, d)' = Des(queue, d)
  BY <1>0, UnderWayNext DEF LInv
<1>2. QED  BY <1>0, <1>1, QuietStep

LEMMA EndLoopKeeps == ASSUME IInv, fault = {}, NEW l \in Loops, EndLoop(l) PROVE IInv'
<1>0. /\ TInv /\ LInv(queue) /\ LoopTypes /\ delayed' \subseteq Created
      /\ UNCHANGED <<numAccepted, connections, queue, delayed, connVars, userVars, numThreads,
                     misused, fault>>
      /\ loopPhase' \in [Loops -> {"looping", "quit", "drain", "ended"}]
      /\ server # "alive" /\ server' \in {server, "gone"}
  BY DEF IInv, TInv, SetTypes, LoopTypes, EndLoop
<1>1. UNCHANGED <<connections, state, channel, reading, wantsRead, ups, downs, misused,
                  numAccepted, numThreads, held, userAt, fault, delayed, queue>>
  BY <1>0 DEF connVars, userVars
<1>2. TInv'
  <2>1. LoopTypes' /\ SetTypes'
    BY <1>0, <1>1 DEF TInv, LoopTypes, SetTypes, Created
  <2>2. QueueTypes' /\ ConnTypes' /\ ReadTypes' /\ CountTypes' /\ UserTypes'
    BY <1>0, <1>1 DEF TInv, QueueTypes, ConnTypes, ReadTypes, CountTypes, UserTypes, Created
  <2>3. QED  BY <2>1, <2>2 DEF TInv
<1>3. Shape(queue)'
  BY <1>0, <1>1, ShapeNext DEF Created, LInv
<1>4. ASSUME NEW d \in Conns PROVE Life(queue, d)'
  <2>1. Life(queue, d)
    BY <1>0 DEF LInv
  <2>2. /\ Est(queue, d)' = Est(queue, d) /\ Rem(queue, d)' = Rem(queue, d)
        /\ Des(queue, d)' = Des(queue, d)
    BY <1>1, UnderWayNext
  <2>3. IsUp(d)' = IsUp(d) /\ Calling(d)' = Calling(d) /\ LoopOf(d)' = LoopOf(d) /\ Open(d)' = Open(d)
    BY <1>1 DEF IsUp, Calling, LoopOf, Open
  <2>4. Unborn(d) => Unborn(d)'
    BY <1>1 DEF Unborn
  <2>5. Tabled(queue, d) => Tabled(queue, d)'
    BY <1>0, <1>1, <2>2, <2>3 DEF Tabled
  <2>6. Pending(queue, d) => Pending(queue, d)'
    BY <1>1, <2>2, <2>3, <2>4, <2>5 DEF Pending
  <2>7. Up(queue, d) => Up(queue, d)'
    BY <1>1, <2>2, <2>3, <2>5 DEF Up
  <2>8. Down(queue, d) => Down(queue, d)'
    BY <1>0, <1>1, <2>2, <2>3 DEF Down
  <2>9. Worn(queue, d) => Worn(queue, d)'
    BY <1>1, <2>2, <2>3 DEF Worn
  <2>10. QED  BY <1>1, <2>1, <2>4, <2>6, <2>7, <2>8, <2>9 DEF Life, Created
<1>5. QED  BY <1>1, <1>2, <1>3, <1>4 DEF IInv, NoFault, LInv

------------------------------------------------------------------------------
(* The server.                                                                *)

\* There is nothing under way for a connection that has not been accepted.
LEMMA NothingUnderWay ==
  ASSUME NEW q, Shape(q), NEW c \in Conns, c \notin Created, numThreads \in 0..MaxThreads
  PROVE  /\ Est(q, c) = 0 /\ Rem(q, c) = 0 /\ Des(q, c) = 0
         /\ \A i \in DOMAIN q[LoopOf(c)] : q[LoopOf(c)][i].conn # c
<1>1. LoopOf(c) \in Loops /\ Base \in Loops
  BY LoopOfType
<1>2. q[LoopOf(c)] \in Seq(Functor) /\ q[Base] \in Seq(Functor)
  BY <1>1 DEF Shape, Queues
<1>3. \A l \in Loops : \A i \in DOMAIN q[l] : q[l][i].conn # c
  BY DEF Shape, AllPlaced, Placed
<1>4. \A op : F(op, c).conn = c
  BY DEF F
<1>5. /\ \A i \in DOMAIN q[LoopOf(c)] : q[LoopOf(c)][i] # F("established", c)
      /\ \A i \in DOMAIN q[LoopOf(c)] : q[LoopOf(c)][i] # F("destroyed", c)
      /\ \A i \in DOMAIN q[Base] : q[Base][i] # F("remove", c)
  BY <1>1, <1>3, <1>4
<1>6. QED  BY <1>1, <1>2, <1>3, <1>5, CountPositive DEF Est, Rem, Des

LEMMA NewConnectionKeeps == ASSUME IInv, fault = {}, NewConnection PROVE IInv'
<1>a. numAccepted + 1 \in Conns
  <2>1. numAccepted \in 0..MaxConns /\ numAccepted < MaxConns /\ MaxConns \in Nat
    BY TcpServerAssumption DEF IInv, TInv, LoopTypes, NewConnection
  <2>2. QED  BY <2>1 DEF Conns
<1>b. PICK c \in Conns : c = numAccepted + 1
  BY <1>a
<1>0. /\ TInv /\ LInv(queue) /\ Shape(queue) /\ queue \in Queues /\ LoopTypes
      /\ numThreads \in 0..MaxThreads
  BY DEF IInv, LInv, TInv, LoopTypes, QueueTypes
<1>1. /\ server = "alive" /\ numAccepted' = c
      /\ connections' = connections \cup {c}
      /\ UNCHANGED <<numThreads, server, loopPhase, held, userAt, delayed, misused, wantsRead, downs>>
  BY <1>b DEF NewConnection, lifeVars, userVars, connVars, ConnectEstablished
<1>2. /\ c \in Conns /\ c \notin Created /\ Created' = Created \cup {c} /\ Created \subseteq Conns
      /\ numAccepted' \in 0..MaxConns
  <2>1. numAccepted \in 0..MaxConns /\ numAccepted < MaxConns /\ MaxConns \in Nat
    BY <1>0, TcpServerAssumption DEF LoopTypes, NewConnection
  <2>2. QED  BY <1>1, <1>b, <2>1 DEF Created, Conns
<1>3. Unborn(c) /\ c \notin misused /\ c \notin connections /\ \A u \in Users : c \notin held[u]
  BY <1>0, <1>2 DEF LInv, Life, TInv, SetTypes, UserTypes
<1>4. /\ Est(queue, c) = 0 /\ Rem(queue, c) = 0 /\ Des(queue, c) = 0
      /\ \A i \in DOMAIN queue[LoopOf(c)] : queue[LoopOf(c)][i].conn # c
  BY <1>0, <1>2, NothingUnderWay
<1>5. LoopOf(c) \in Loops
  BY <1>0, <1>2, LoopOfType
<1>6. /\ LoopTypes' /\ SetTypes' /\ UserTypes'
  BY <1>0, <1>1, <1>2 DEF TInv, LoopTypes, SetTypes, UserTypes
<1>7. CASE LoopOf(c) = Base
  <2>1. ConnectEstablished(c) /\ UNCHANGED queue
    BY <1>7, <1>b DEF NewConnection
  <2>2. /\ state'[c] = "connected" /\ channel'[c] = "added" /\ ups'[c] = 1 /\ downs'[c] = 0
        /\ fault' = {}
        /\ \A d \in Conns \ {c} :
             /\ state'[d] = state[d] /\ channel'[d] = channel[d] /\ reading'[d] = reading[d]
             /\ ups'[d] = ups[d]
    BY <1>0, <1>1, <1>2, <1>3, <2>1
       DEF ConnectEstablished, Unborn, TInv, ConnTypes, CountTypes, FaultIf
  <2>3. ConnTypes'
    BY <1>0, <1>2, <2>1 DEF ConnectEstablished, TInv, ConnTypes, States, Channels
  <2>4. CountTypes'
    <3>1. ups' \in [Conns -> 0..1]
      BY <1>0, <1>2, <1>3, <2>1 DEF ConnectEstablished, TInv, CountTypes, Unborn
    <3>2. QED  BY <1>0, <1>1, <3>1 DEF TInv, CountTypes
  <2>5. TInv'
    BY <1>0, <1>1, <1>6, <2>1, <2>3, <2>4 DEF TInv, QueueTypes, ReadTypes
  <2>6. Shape(queue)'
    BY <1>0, <1>1, <1>2, <2>1, ShapeNext
  <2>7. \A d \in Conns :
          Est(queue, d)' = Est(queue, d) /\ Rem(queue, d)' = Rem(queue, d) /\ Des(queue, d)' = Des(queue, d)
    BY <1>1, <2>1, UnderWayNext
  <2>8. \A d \in Conns \ {c} : Life(queue, d)'
    <3> SUFFICES ASSUME NEW d \in Conns \ {c} PROVE Life(queue, d)'
      OBVIOUS
    <3>1. Same(queue, d)
      BY <1>1, <2>2, <2>7 DEF Same, Calling
    <3>2. (d \in Created)' <=> d \in Created
      BY <1>2
    <3>3. Life(queue, d)
      BY <1>0 DEF LInv
    <3>4. QED  BY <1>1, <3>1, <3>2, <3>3, Untouched
  <2>9. Up(queue, c)'
    <3>1. Tabled(queue, c)'
      BY <1>1, <1>2, <1>4, <2>7 DEF Tabled
    <3>2. QED  BY <1>2, <1>4, <2>2, <2>7, <3>1 DEF Up, IsUp
  <2>10. QED  BY <1>1, <1>2, <1>3, <2>2, <2>5, <2>6, <2>8, <2>9 DEF IInv, NoFault, LInv, Life
<1>8. CASE LoopOf(c) # Base
  <2>1. /\ queue' = Post(queue, LoopOf(c), F("established", c))
        /\ UNCHANGED <<state, channel, reading, ups, fault>>
    BY <1>8, <1>b DEF NewConnection, Post, connVars
  <2>2. /\ "established" \in SharedOps \cup RawOps
        /\ F("established", c) \in Functor /\ F("established", c).op = "established"
        /\ F("established", c).conn = c
    BY <1>2, FunctorType DEF SharedOps
  <2>3. F("established", c) # F("remove", c) /\ F("established", c) # F("destroyed", c)
    BY FunctorEqual
  <2>4. Est(queue', c) = 1 /\ Rem(queue', c) = 0 /\ Des(queue', c) = 0
    BY <1>0, <1>2, <1>4, <1>5, <2>1, <2>2, <2>3, PostUnderWay
  <2>5. \A d \in Conns \ {c} :
          Est(queue, d)' = Est(queue, d) /\ Rem(queue, d)' = Rem(queue, d) /\ Des(queue, d)' = Des(queue, d)
    BY <1>0, <1>1, <1>2, <1>5, <2>1, <2>2, PopPostOthers
  <2>6. Shape(queue)'
    <3>1. queue' \in Queues
      BY <1>0, <1>5, <2>1, <2>2, PostCounts
    <3>2. \A k \in Loops : queue'[k] = IF k = LoopOf(c) THEN Append(queue[k], F("established", c)) ELSE queue[k]
      BY <1>0, <2>1 DEF Post, Queues
    <3>3. /\ queue[LoopOf(c)] \in Seq(Functor)
          /\ DOMAIN queue[LoopOf(c)] = 1..Len(queue[LoopOf(c)]) /\ Len(queue[LoopOf(c)]) \in Nat
          /\ DOMAIN Append(queue[LoopOf(c)], F("established", c)) = 1..(Len(queue[LoopOf(c)]) + 1)
          /\ \A i \in 1..Len(queue[LoopOf(c)]) :
               Append(queue[LoopOf(c)], F("established", c))[i] = queue[LoopOf(c)][i]
          /\ Append(queue[LoopOf(c)], F("established", c))[Len(queue[LoopOf(c)]) + 1] = F("established", c)
      <4>1. queue[LoopOf(c)] \in Seq(Functor)
        BY <1>0, <1>5 DEF Queues
      <4>2. QED  BY <2>2, <4>1, AppendProperties, LenProperties
    <3>4. \A d : LoopOf(d)' = LoopOf(d)
      BY <1>1 DEF LoopOf
    <3> DEFINE PlacedNext(k, f) ==
                 /\ f.conn \in Created'
                 /\ IF f.op = "remove" THEN k = Base /\ LoopOf(f.conn) # Base ELSE k = LoopOf(f.conn)
    <3>5. \A k \in Loops : \A f : Placed(k, f) => PlacedNext(k, f)
      BY <1>2 DEF Placed
    <3>6. PlacedNext(LoopOf(c), F("established", c))
      BY <1>2, <2>2
    <3>7. AllPlaced(queue)'
      <4> SUFFICES ASSUME NEW k \in Loops, NEW i \in DOMAIN queue'[k]
                   PROVE  PlacedNext(k, queue'[k][i])
        BY <3>4 DEF AllPlaced, Placed
      <4> HIDE DEF PlacedNext
      <4>1. \A j \in DOMAIN queue[k] : Placed(k, queue[k][j])
        BY <1>0 DEF Shape, AllPlaced
      <4>2. CASE k # LoopOf(c)
        BY <3>2, <3>5, <4>1, <4>2
      <4>3. CASE k = LoopOf(c) /\ i = Len(queue[LoopOf(c)]) + 1
        BY <3>2, <3>3, <3>6, <4>3
      <4>4. CASE k = LoopOf(c) /\ i # Len(queue[LoopOf(c)]) + 1
        <5>2. queue'[k] = Append(queue[LoopOf(c)], F("established", c))
          BY <3>2, <4>4
        <5> DEFINE n == Len(queue[LoopOf(c)])
        <5>a. i \in 1..(n + 1) /\ n \in Nat
          BY <3>3, <5>2
        <5>b. i # n + 1
          BY <4>4
        <5> HIDE DEF n
        <5>c. i \in 1..n
          BY <5>a, <5>b
        <5>1. i \in 1..Len(queue[LoopOf(c)])
          BY <5>c DEF n
        <5>3. queue'[k][i] = queue[k][i]
          <6>1. queue'[k][i] = Append(queue[LoopOf(c)], F("established", c))[i]
            BY <5>2
          <6>2. Append(queue[LoopOf(c)], F("established", c))[i] = queue[LoopOf(c)][i]
            BY <3>3, <5>1
          <6>3. QED  BY <4>4, <6>1, <6>2
        <5>4. Placed(k, queue[k][i])
          BY <3>3, <4>1, <4>4, <5>1
        <5>5. QED  BY <3>5, <5>3, <5>4
      <4>5. QED  BY <4>2, <4>3, <4>4
    <3>8. AllFirst(queue')
      <4> SUFFICES ASSUME NEW d \in Conns PROVE First(queue'[LoopOf(d)], d)
        BY DEF AllFirst
      <4>1. LoopOf(d) \in Loops /\ First(queue[LoopOf(d)], d)
        BY <1>0, LoopOfType DEF Shape, AllFirst
      <4>2. CASE LoopOf(d) # LoopOf(c)
        BY <3>2, <4>1, <4>2
      <4>3. CASE LoopOf(d) = LoopOf(c)
        <5>1. First(queue[LoopOf(c)], d)
          BY <4>1, <4>3
        <5>2. F("established", c) = F("established", d) => c = d
          BY FunctorEqual
        <5>3. First(Append(queue[LoopOf(c)], F("established", c)), d)
          BY <1>4, <3>3, <5>1, <5>2 DEF First
        <5>4. QED  BY <3>2, <4>1, <4>3, <5>3
      <4>4. QED  BY <4>2, <4>3
    <3>9. AllFirst(queue)'
      BY <3>4, <3>8 DEF AllFirst, First
    <3>10. QED  BY <3>1, <3>7, <3>9 DEF Shape
  <2>7. TInv'
    <3>1. ConnTypes' /\ CountTypes' /\ ReadTypes'
      BY <1>0, <1>1, <2>1 DEF TInv, ConnTypes, CountTypes, ReadTypes
    <3>2. QED  BY <1>6, <2>6, <3>1 DEF TInv, QueueTypes, Shape
  <2>8. \A d \in Conns \ {c} : Life(queue, d)'
    <3> SUFFICES ASSUME NEW d \in Conns \ {c} PROVE Life(queue, d)'
      OBVIOUS
    <3>1. Same(queue, d)
      BY <1>1, <2>1, <2>5 DEF Same, Calling
    <3>2. (d \in Created)' <=> d \in Created
      BY <1>2
    <3>3. Life(queue, d)
      BY <1>0 DEF LInv
    <3>4. QED  BY <1>1, <3>1, <3>2, <3>3, Untouched
  <2>9. Pending(queue, c)'
    <3>1. Unborn(c)'
      BY <1>1, <1>3, <2>1 DEF Unborn
    <3>2. Est(queue, c)' = 1 /\ Rem(queue, c)' = 0 /\ Des(queue, c)' = 0 /\ LoopOf(c)' # Base
      BY <1>1, <1>8, <2>4, UnderWayNext DEF LoopOf
    <3>3. Tabled(queue, c)'
      BY <1>1, <3>2 DEF Tabled
    <3>4. QED  BY <1>1, <1>3, <3>1, <3>2, <3>3 DEF Pending
  <2>10. QED  BY <1>1, <1>2, <1>3, <2>1, <2>6, <2>7, <2>8, <2>9 DEF IInv, NoFault, LInv, Life
<1>9. QED  BY <1>7, <1>8

\* What ~TcpServer posts to a loop.
Posted(l) == {F("destroyed", c) : c \in {d \in connections : LoopOf(d) = l}}

LEMMA PostedType ==
  ASSUME LoopTypes, SetTypes, NEW l
  PROVE  Posted(l) \in SUBSET Functor /\ IsFiniteSet(Posted(l))
<1> DEFINE D == {d \in connections : LoopOf(d) = l}
           post == [c \in D |-> F("destroyed", c)]
<1>1. D \subseteq Conns
  BY CreatedConns DEF SetTypes
<1>2. IsFiniteSet(D)
  <2>1. IsFiniteSet(1..MaxConns)
    BY FS_Interval, TcpServerAssumption
  <2>2. IsFiniteSet(Conns)
    BY <2>1 DEF Conns
  <2>3. QED  BY <1>1, <2>2, FS_Subset
<1>3. post \in Surjection(D, Posted(l))
  BY DEF Posted, Surjection
<1>4. Posted(l) \subseteq Functor
  BY <1>1, FunctorType DEF Posted, SharedOps
<1> HIDE DEF D, post
<1>5. QED  BY <1>2, <1>3, <1>4, FS_Surjection

\* connectDestroyed is posted once for every connection in the table.
LEMMA DestroyPosts ==
  ASSUME LoopTypes, SetTypes, Shape(queue),
         queue' = [l \in Loops |-> queue[l] \o SetToSeq(Posted(l))]
  PROVE  /\ Shape(queue')
         /\ \A c \in Conns :
              /\ Est(queue', c) = Est(queue, c) /\ Rem(queue', c) = Rem(queue, c)
              /\ Des(queue', c) = Des(queue, c) + (IF c \in connections THEN 1 ELSE 0)
         /\ \A l \in Loops : \A i \in DOMAIN queue'[l] :
              (i \in DOMAIN queue[l] /\ queue'[l][i] = queue[l][i]) \/ queue'[l][i] \in Posted(l)
<1>0. queue \in Queues /\ numThreads \in 0..MaxThreads /\ AllPlaced(queue) /\ AllFirst(queue)
  BY DEF Shape, LoopTypes
<1>1. ASSUME NEW l \in Loops
      PROVE  /\ queue[l] \in Seq(Functor) /\ SetToSeq(Posted(l)) \in Seq(Functor)
             /\ queue'[l] = queue[l] \o SetToSeq(Posted(l))
             /\ queue'[l] \in Seq(Functor)
             /\ \A x : Count(queue'[l], x) = Count(queue[l], x) + (IF x \in Posted(l) THEN 1 ELSE 0)
  <2>1. queue[l] \in Seq(Functor)
    BY <1>0 DEF Queues
  <2>2. Posted(l) \in SUBSET Functor /\ IsFiniteSet(Posted(l))
    BY PostedType
  <2>3. queue'[l] = queue[l] \o SetToSeq(Posted(l))
    OBVIOUS
  <2>4. SetToSeq(Posted(l)) \in Seq(Functor)
    BY <2>1, <2>2, CountSetToSeq
  <2>5. ASSUME NEW x
        PROVE  Count(queue[l] \o SetToSeq(Posted(l)), x)
                 = Count(queue[l], x) + (IF x \in Posted(l) THEN 1 ELSE 0)
    <3> DEFINE s == queue[l]
               T == Posted(l)
    <3>1. s \in Seq(Functor) /\ T \in SUBSET Functor /\ IsFiniteSet(T)
      BY <2>1, <2>2
    <3> HIDE DEF s, T
    <3>2. Count(s \o SetToSeq(T), x) = Count(s, x) + (IF x \in T THEN 1 ELSE 0)
      BY <3>1, CountSetToSeq
    <3>3. QED  BY <3>2 DEF s, T
  <2>6. QED  BY <2>1, <2>3, <2>4, <2>5, ConcatProperties
<1>2. queue' \in Queues
  BY <1>1 DEF Queues
<1>3. ASSUME NEW l \in Loops, NEW f \in Posted(l)
      PROVE  Placed(l, f) /\ f.op = "destroyed" /\ \A c : f # F("established", c)
  <2>1. PICK c \in connections : f = F("destroyed", c) /\ LoopOf(c) = l
    BY <1>3 DEF Posted
  <2>2. f.op = "destroyed" /\ f.conn = c
    BY <2>1 DEF F
  <2>3. \A d : f # F("established", d)
    BY <2>2 DEF F
  <2>4. QED  BY <2>1, <2>2, <2>3 DEF Placed, SetTypes
<1>4. ASSUME NEW l \in Loops, NEW i \in DOMAIN queue'[l]
      PROVE  \/ i \in DOMAIN queue[l] /\ queue'[l][i] = queue[l][i]
             \/ (\A j \in DOMAIN queue[l] : j < i) /\ queue'[l][i] \in Posted(l)
  <2> DEFINE s == queue[l]
             t == SetToSeq(Posted(l))
  <2>1. /\ s \in Seq(Functor) /\ t \in Seq(Functor) /\ queue'[l] = s \o t
    BY <1>1
  <2>2. t \in [1..Cardinality(Posted(l)) -> Posted(l)]
    <3>1. IsFiniteSet(Posted(l))
      BY PostedType
    <3>2. QED  BY <3>1, SetToSeqProperties
  <2>3. s \o t \in Seq(Functor) /\ i \in DOMAIN (s \o t)
    BY <2>1, ConcatProperties
  <2> HIDE DEF s, t
  <2>4. /\ DOMAIN s = 1..Len(s) /\ Len(s) \in Nat /\ DOMAIN t = 1..Len(t) /\ Len(t) \in Nat
        /\ Len(s \o t) = Len(s) + Len(t)
        /\ \A k \in 1..(Len(s) + Len(t)) : (s \o t)[k] = IF k <= Len(s) THEN s[k] ELSE t[k - Len(s)]
    BY <2>1, ConcatProperties, LenProperties
  <2>5. i \in 1..(Len(s) + Len(t))
    BY <2>3, <2>4, LenProperties
  <2>6. CASE i <= Len(s)
    <3>1. i \in DOMAIN s /\ (s \o t)[i] = s[i]
      BY <2>4, <2>5, <2>6
    <3>2. QED  BY <2>1, <3>1 DEF s
  <2>7. CASE ~(i <= Len(s))
    <3>1. (s \o t)[i] = t[i - Len(s)] /\ i - Len(s) \in 1..Len(t)
      BY <2>4, <2>5, <2>7
    <3>2. t[i - Len(s)] \in Posted(l)
      BY <2>2, <2>4, <3>1
    <3>3. \A j \in DOMAIN s : j < i
      BY <2>4, <2>5, <2>7
    <3>4. QED  BY <2>1, <3>1, <3>2, <3>3 DEF s
  <2>8. QED  BY <2>6, <2>7
<1>5. AllPlaced(queue')
  <2> SUFFICES ASSUME NEW l \in Loops, NEW i \in DOMAIN queue'[l]
               PROVE  Placed(l, queue'[l][i])
    BY DEF AllPlaced
  <2>1. CASE i \in DOMAIN queue[l] /\ queue'[l][i] = queue[l][i]
    BY <1>0, <2>1 DEF AllPlaced
  <2>2. CASE queue'[l][i] \in Posted(l)
    BY <1>3, <2>2
  <2>3. QED  BY <1>4, <2>1, <2>2
<1>6. AllFirst(queue')
  <2> SUFFICES ASSUME NEW c \in Conns, NEW i \in DOMAIN queue'[LoopOf(c)],
                      NEW j \in DOMAIN queue'[LoopOf(c)],
                      queue'[LoopOf(c)][i] = F("established", c), queue'[LoopOf(c)][j].conn = c
               PROVE  i <= j
    BY DEF AllFirst, First
  <2>1. LoopOf(c) \in Loops
    BY <1>0, LoopOfType
  <2>2. i \in DOMAIN queue[LoopOf(c)] /\ queue[LoopOf(c)][i] = F("established", c)
    BY <1>3, <1>4, <2>1
  <2>3. CASE j \in DOMAIN queue[LoopOf(c)] /\ queue'[LoopOf(c)][j] = queue[LoopOf(c)][j]
    BY <1>0, <2>2, <2>3 DEF AllFirst, First
  <2>4. CASE \A k \in DOMAIN queue[LoopOf(c)] : k < j
    <3>1. i < j
      BY <2>2, <2>4
    <3>2. i \in Int /\ j \in Int
      <4>1. queue'[LoopOf(c)] \in Seq(Functor)
        BY <1>1, <2>1
      <4>2. QED  BY <4>1, LenProperties
    <3>3. QED  BY <3>1, <3>2
  <2>5. QED  BY <1>4, <2>1, <2>3, <2>4
<1>7. ASSUME NEW c \in Conns
      PROVE  /\ Est(queue', c) = Est(queue, c) /\ Rem(queue', c) = Rem(queue, c)
             /\ Des(queue', c) = Des(queue, c) + (IF c \in connections THEN 1 ELSE 0)
  <2>1. LoopOf(c) \in Loops /\ Base \in Loops
    BY <1>0, LoopOfType
  <2>2. Est(queue, c) \in Nat /\ Rem(queue, c) \in Nat /\ Des(queue, c) \in Nat
    BY <1>0, UnderWayType
  <2>3. F("established", c) \notin Posted(LoopOf(c)) /\ F("remove", c) \notin Posted(Base)
    <3>1. F("established", c).op = "established" /\ F("remove", c).op = "remove"
      BY DEF F
    <3>2. QED  BY <1>3, <2>1, <3>1
  <2>4. F("destroyed", c) \in Posted(LoopOf(c)) <=> c \in connections
    <3>1. \A d : F("destroyed", c) = F("destroyed", d) => c = d
      BY FunctorEqual
    <3>2. QED  BY <3>1 DEF Posted
  <2>5. QED  BY <1>1, <2>1, <2>2, <2>3, <2>4 DEF Est, Rem, Des
<1>8. QED  BY <1>4, <1>2, <1>5, <1>6, <1>7 DEF Shape

LEMMA DestroyKeeps == ASSUME IInv, fault = {}, Destroy PROVE IInv'
<1>0. /\ TInv /\ LInv(queue) /\ Shape(queue) /\ queue \in Queues /\ LoopTypes /\ SetTypes
      /\ numThreads \in 0..MaxThreads /\ Created \subseteq Conns
  BY CreatedConns DEF IInv, LInv, TInv, LoopTypes, QueueTypes
<1>1. /\ server = "alive" /\ connections' = {}
      /\ UNCHANGED <<numAccepted, delayed, numThreads, loopPhase, held, userAt>>
      /\ server' = IF numThreads = 0 THEN "gone" ELSE "dying"
  BY DEF Destroy, userVars
<1>2. /\ LoopTypes' /\ UserTypes' /\ Created' = Created
      /\ \A d : LoopOf(d)' = LoopOf(d) /\ Calling(d)' = Calling(d)
  BY <1>0, <1>1 DEF TInv, LoopTypes, UserTypes, Created, LoopOf, Calling
<1>3. CASE numThreads = 0
  <2>1. ConnectDestroyed(connections) /\ UNCHANGED queue /\ server' = "gone"
    BY <1>3 DEF Destroy
  <2>2. ConnTypes' /\ CountTypes' /\ ReadTypes' /\ misused' \subseteq Created
    BY <1>0, <1>1, <2>1, DestroyedTypes DEF SetTypes
  <2>3. TInv'
    BY <1>0, <1>1, <1>2, <2>1, <2>2 DEF TInv, SetTypes, QueueTypes
  <2>4. Shape(queue)'
    BY <1>0, <1>1, <1>2, <2>1, ShapeNext
  <2>5. \A d \in Conns :
          Est(queue, d)' = Est(queue, d) /\ Rem(queue, d)' = Rem(queue, d) /\ Des(queue, d)' = Des(queue, d)
    BY <1>1, <2>1, UnderWayNext
  <2>6. ASSUME NEW d \in connections
        PROVE  /\ d \in misused \/ Up(queue, d)
               /\ d \in Conns /\ d \in Created /\ LoopOf(d) = Base
    <3>1. d \in Conns /\ d \in Created
      BY <1>0 DEF SetTypes
    <3>2. LoopOf(d) = Base
      BY <1>0, <1>3, <3>1, LoopOfType
    <3>3. Life(queue, d)
      BY <1>0, <3>1 DEF LInv
    <3>4. QED  BY <2>6, <3>1, <3>2, <3>3 DEF Life, Pending, Down
  <2>7. ASSUME NEW d \in connections
        PROVE  /\ channel'[d] = "removed" /\ ~reading'[d] /\ ups'[d] = ups[d]
               /\ state[d] = "connected" =>
                    state'[d] = "disconnected" /\ downs'[d] = downs[d] + 1
               /\ state[d] # "connected" => state'[d] = state[d] /\ downs'[d] = downs[d]
               /\ (d \in misused') <=> (d \in misused \/ state[d] = "disconnecting")
    <3>1. connections \in SUBSET Conns
      BY <1>0 DEF SetTypes
    <3>2. QED  BY <1>0, <2>1, <3>1, DestroyedOne
  <2>8. ASSUME NEW d \in connections PROVE Life(queue, d)'
    <3>1. CASE d \in misused
      <4>1. Worn(queue, d)
        BY <1>0, <2>6, <3>1 DEF LInv, Life
      <4>2. \/ IsUp(d)' /\ IsUp(d) /\ downs'[d] = downs[d]
            \/ ~IsUp(d)' /\ IsUp(d) /\ downs'[d] = downs[d] + 1
            \/ ~IsUp(d)' /\ downs'[d] = downs[d]
        BY <2>7 DEF IsUp
      <4>3. Est(queue, d)' = 0
        BY <2>5, <2>6, <4>1 DEF Worn
      <4>4. Worn(queue, d)'
        BY <1>0, <1>2, <2>6, <4>1, <4>2, <4>3, StaysWorn
      <4>5. QED  BY <1>2, <2>6, <2>7, <3>1, <4>4 DEF Life
    <3>2. CASE d \notin misused /\ state[d] = "disconnecting"
      <4>1. downs'[d] = 0 /\ Est(queue, d)' = 0
        BY <2>5, <2>6, <2>7, <3>2 DEF Up
      <4>2. Worn(queue, d)'
        BY <1>2, <2>6, <4>1, BecomesWorn, CallingType
      <4>3. QED  BY <1>2, <2>6, <2>7, <3>2, <4>2 DEF Life
    <3>3. CASE d \notin misused /\ state[d] # "disconnecting"
      <4>1. Up(queue, d) /\ state[d] = "connected"
        BY <2>6, <3>3 DEF Up, IsUp
      <4>2. Est(queue, d) = 0 /\ Des(queue, d) = 0 /\ ups[d] = 1 /\ downs[d] = 0
        BY <2>8, <4>1 DEF Up, Tabled
      <4>3. Est(queue, d)' = 0 /\ Des(queue, d)' = 0
        BY <2>5, <2>6, <4>2
      <4>4. /\ state'[d] = "disconnected" /\ channel'[d] = "removed" /\ ~reading'[d]
            /\ ups'[d] = 1 /\ downs'[d] = 1 /\ d \notin misused'
        BY <2>7, <3>3, <4>1, <4>2
      <4>5. Down(queue, d)'
        BY <1>1, <2>1, <4>3, <4>4 DEF Down
      <4>6. QED  BY <1>2, <2>6, <4>4, <4>5 DEF Life
    <3>4. QED  BY <3>1, <3>2, <3>3
  <2>9. ASSUME NEW d \in Conns, d \notin connections PROVE Life(queue, d)'
    <3>1. /\ state'[d] = state[d] /\ channel'[d] = channel[d] /\ reading'[d] = reading[d]
          /\ ups'[d] = ups[d] /\ downs'[d] = downs[d]
          /\ (d \in misused') <=> d \in misused
      BY <1>0, <2>1, <2>9, DestroyedOthers
    <3>2. Life(queue, d)
      BY <1>0 DEF LInv
    <3>3. ~Pending(queue, d) /\ ~Up(queue, d)
      BY <1>1, <2>9 DEF Pending, Up, Tabled
    <3>4. Unborn(d) => Unborn(d)'
      BY <3>1 DEF Unborn
    <3>5. Down(queue, d) => Down(queue, d)'
      BY <1>1, <2>1, <2>5, <2>9, <3>1 DEF Down
    <3>6. Worn(queue, d) => Worn(queue, d)'
      <4>1. Open(d)' = Open(d)
        BY <3>1 DEF Open, IsUp
      <4>2. QED  BY <1>2, <2>5, <3>1, <4>1 DEF Worn
    <3>7. QED  BY <1>2, <3>1, <3>2, <3>3, <3>4, <3>5, <3>6 DEF Life
  <2>10. NoFault'
    <3> SUFFICES ASSUME NEW f \in fault' PROVE f[2] \in misused'
      BY DEF NoFault
    <3>1. PICK d \in connections : /\ f = <<"remove", d>> /\ state[d] # "connected"
                                   /\ reading[d] \/ channel[d] # "added"
      BY <1>0, <2>1, DestroyedFaults
    <3>2. d \in misused \/ state[d] = "disconnecting"
      BY <2>6, <3>1 DEF Up, IsUp
    <3>3. QED  BY <2>7, <3>1, <3>2
  <2>11. \A d \in Conns : Life(queue, d)'
    BY <2>8, <2>9
  <2>12. QED  BY <2>3, <2>4, <2>10, <2>11 DEF IInv, LInv
<1>4. CASE numThreads # 0
  <2>1. /\ queue' = [l \in Loops |-> queue[l] \o SetToSeq(Posted(l))]
        /\ UNCHANGED <<state, channel, reading, wantsRead, ups, downs, misused, fault>>
        /\ server' = "dying"
    BY <1>4 DEF Destroy, Posted, connVars
  <2>2. /\ Shape(queue')
        /\ \A c \in Conns :
             /\ Est(queue, c)' = Est(queue, c) /\ Rem(queue, c)' = Rem(queue, c)
             /\ Des(queue, c)' = Des(queue, c) + (IF c \in connections THEN 1 ELSE 0)
    BY <1>0, <1>1, <2>1, DestroyPosts, UnderWayNext
  <2>3. Shape(queue)'
    BY <1>1, <1>2, <2>2, ShapeNext
  <2>4. TInv'
    <3>1. ConnTypes' /\ CountTypes' /\ ReadTypes' /\ SetTypes' /\ QueueTypes'
      BY <1>0, <1>1, <1>2, <2>1, <2>2
         DEF TInv, ConnTypes, CountTypes, ReadTypes, SetTypes, QueueTypes, Shape
    <3>2. QED  BY <1>2, <3>1 DEF TInv
  <2>5. ASSUME NEW d \in Conns PROVE Life(queue, d)'
    <3>1. Life(queue, d)
      BY <1>0 DEF LInv
    <3>2. LoopOf(d) # Base
      BY <1>0, <1>4, LoopOfType
    <3>3. Tabled(queue, d) => Tabled(queue, d)'
      BY <1>1, <1>2, <2>1, <2>2, <3>2 DEF Tabled
    <3>4. Unborn(d) => Unborn(d)'
      BY <2>1 DEF Unborn
    <3>5. Pending(queue, d) => Pending(queue, d)'
      BY <1>1, <1>2, <2>2, <3>3, <3>4 DEF Pending
    <3>6. IsUp(d)' = IsUp(d) /\ Open(d)' = Open(d)
      BY <2>1 DEF IsUp, Open
    <3>7. Up(queue, d) => Up(queue, d)'
      BY <2>1, <2>2, <3>3, <3>6 DEF Up
    <3>8. Down(queue, d) => Down(queue, d)'
      <4> SUFFICES ASSUME Down(queue, d) PROVE Down(queue, d)'
        OBVIOUS
      <4>1. Des(queue, d)' = IF channel[d] = "removed" THEN 0 ELSE 1
        BY <2>2 DEF Down
      <4>2. QED  BY <1>1, <2>1, <2>2, <4>1 DEF Down
    <3>9. Worn(queue, d) => Worn(queue, d)'
      BY <1>2, <2>1, <2>2, <3>6 DEF Worn
    <3>10. QED  BY <1>2, <2>1, <3>1, <3>4, <3>5, <3>7, <3>8, <3>9 DEF Life
  <2>6. QED  BY <2>1, <2>3, <2>4, <2>5 DEF IInv, NoFault, LInv
<1>5. QED  BY <1>3, <1>4

------------------------------------------------------------------------------
(* Other threads.                                                             *)

\* A step of a thread that changes only what threads hold and are about to do:
\* Share, Release and TestState.
LEMMA ThreadStep ==
  ASSUME TInv, fault = {}, LInv(queue), UserTypes',
         UNCHANGED <<numAccepted, connections, queue, delayed, connVars, lifeVars, misused, fault>>,
         \A d \in Created :
           /\ Pending(queue, d) => \A u \in Users : d \notin held'[u]
           /\ d \in misused => Calling(d)' = Calling(d)
  PROVE  IInv'
<1>0. Created \subseteq Conns
  BY CreatedConns DEF TInv
<1>1. UNCHANGED <<connections, state, channel, reading, wantsRead, ups, downs, misused, loopPhase,
                  numAccepted, numThreads, server, fault, delayed, queue>>
  BY DEF connVars, lifeVars
<1>2. TInv'
  BY <1>1 DEF TInv, LoopTypes, SetTypes, QueueTypes, ConnTypes, ReadTypes, CountTypes, Created
<1>3. Shape(queue)'
  BY <1>1, ShapeNext DEF Created, LInv
<1>4. ASSUME NEW d \in Conns PROVE Life(queue, d)'
  <2>1. Life(queue, d)
    BY DEF LInv
  <2>2. /\ Est(queue, d)' = Est(queue, d) /\ Rem(queue, d)' = Rem(queue, d)
        /\ Des(queue, d)' = Des(queue, d)
    BY <1>1, UnderWayNext
  <2>3. IsUp(d)' = IsUp(d) /\ LoopOf(d)' = LoopOf(d) /\ Open(d)' = Open(d)
    BY <1>1 DEF IsUp, LoopOf, Open
  <2>4. Unborn(d)' = Unborn(d)
    BY <1>1 DEF Unborn
  <2>5. Tabled(queue, d) => Tabled(queue, d)'
    BY <1>1, <2>2, <2>3 DEF Tabled
  <2>6. d \in Created /\ Pending(queue, d) => Pending(queue, d)'
    BY <1>1, <2>2, <2>3, <2>4, <2>5 DEF Pending
  <2>7. Up(queue, d) => Up(queue, d)'
    BY <1>1, <2>2, <2>3, <2>5 DEF Up
  <2>8. Down(queue, d) => Down(queue, d)'
    BY <1>1, <2>2, <2>3 DEF Down
  <2>9. d \in Created /\ d \in misused /\ Worn(queue, d) => Worn(queue, d)'
    BY <1>1, <2>2, <2>3 DEF Worn
  <2>10. QED  BY <1>1, <2>1, <2>4, <2>6, <2>7, <2>8, <2>9 DEF Life, Created
<1>5. QED  BY <1>1, <1>2, <1>3, <1>4 DEF IInv, NoFault, LInv

LEMMA ShareKeeps ==
  ASSUME IInv, fault = {}, NEW u \in Users, NEW c \in Conns, Share(u, c)
  PROVE  IInv'
<1>1. /\ TInv /\ LInv(queue) /\ UserTypes /\ c \in Created /\ ups[c] > downs[c]
      /\ held' = [held EXCEPT ![u] = @ \cup {c}] /\ UNCHANGED userAt
      /\ UNCHANGED <<numAccepted, connections, queue, delayed, connVars, lifeVars, misused, fault>>
  BY DEF IInv, Share, TInv
<1>2. UserTypes'
  <2>1. UNCHANGED numAccepted
    BY <1>1
  <2>2. QED  BY <1>1, <2>1 DEF UserTypes, Created
<1>3. ~Pending(queue, c)
  BY <1>1 DEF Pending, Unborn
<1>4. \A d \in Created : Pending(queue, d) => \A w \in Users : d \notin held'[w]
  BY <1>1, <1>3 DEF Pending, UserTypes
<1>5. \A d : Calling(d)' = Calling(d)
  BY <1>1 DEF Calling
<1>6. QED  BY <1>1, <1>2, <1>4, <1>5, ThreadStep

LEMMA ReleaseKeeps ==
  ASSUME IInv, fault = {}, NEW u \in Users, NEW c \in Conns, Release(u, c)
  PROVE  IInv'
<1>1. /\ TInv /\ LInv(queue) /\ UserTypes /\ userAt[u] = Idle
      /\ held' = [held EXCEPT ![u] = @ \ {c}] /\ UNCHANGED userAt
      /\ UNCHANGED <<numAccepted, connections, queue, delayed, connVars, lifeVars, misused, fault>>
  BY DEF IInv, Release, TInv
<1>2. UserTypes'
  <2>1. UNCHANGED numAccepted
    BY <1>1
  <2>2. QED  BY <1>1, <2>1 DEF UserTypes, Created
<1>3. \A d \in Created : Pending(queue, d) => \A w \in Users : d \notin held'[w]
  BY <1>1 DEF Pending, UserTypes
<1>4. \A d : Calling(d)' = Calling(d)
  BY <1>1 DEF Calling
<1>5. QED  BY <1>1, <1>2, <1>3, <1>4, ThreadStep

LEMMA CallType ==
  ASSUME NEW op \in {"forceClose", "delay", "shutdown"}, NEW c \in Conns
  PROVE  /\ [at |-> op, conn |-> c] \in Calls
         /\ [at |-> op, conn |-> c] # Idle
         /\ [at |-> op, conn |-> c].conn = c
<1>1. [at |-> op, conn |-> c] \in Calls /\ [at |-> op, conn |-> c].conn = c
  BY DEF Calls
<1>2. [at |-> op, conn |-> c].at = op /\ Idle.at = "idle" /\ op # "idle"
  BY DEF Idle
<1>3. QED  BY <1>1, <1>2

LEMMA TestStateKeeps ==
  ASSUME IInv, fault = {}, NEW u \in Users, NEW c \in Conns, TestState(u, c)
  PROVE  IInv'
<1>1. PICK op \in {"forceClose", "delay", "shutdown"} :
        userAt' = [userAt EXCEPT ![u] = [at |-> op, conn |-> c]]
  BY DEF TestState
<1> DEFINE call == [at |-> op, conn |-> c]
<1>2. call \in Calls /\ call # Idle /\ call.conn = c
  BY CallType
<1>3. /\ TInv /\ LInv(queue) /\ UserTypes /\ userAt[u] = Idle /\ c \in held[u] \ misused
      /\ userAt' = [userAt EXCEPT ![u] = call] /\ UNCHANGED held
      /\ UNCHANGED <<numAccepted, connections, queue, delayed, connVars, lifeVars, misused, fault>>
  BY <1>1 DEF IInv, TestState, MayCall, TInv
<1> HIDE DEF call
<1>4. /\ userAt'[u] = call
      /\ \A w \in Users \ {u} : userAt'[w] = userAt[w]
      /\ userAt' \in [Users -> {Idle} \cup Calls]
  BY <1>2, <1>3 DEF UserTypes
<1>5. UserTypes'
  <2>1. UNCHANGED numAccepted
    BY <1>3
  <2>2. QED  BY <1>2, <1>3, <1>4, <2>1 DEF UserTypes, Created
<1>6. \A d \in Created : Pending(queue, d) => \A w \in Users : d \notin held'[w]
  BY <1>3 DEF Pending
<1>7. \A d \in misused : Calling(d)' = Calling(d)
  BY <1>2, <1>3, <1>4 DEF Calling
<1>8. QED  BY <1>3, <1>5, <1>6, <1>7, ThreadStep

\* The second half of a call: m_state is assigned, whatever it is by now.
LEMMA SetStateKeeps == ASSUME IInv, fault = {}, NEW u \in Users, SetState(u) PROVE IInv'
<1>1. PICK c : c = userAt[u].conn
  OBVIOUS
<1>2. PICK op : op = userAt[u].at
  OBVIOUS
<1>3. /\ TInv /\ LInv(queue) /\ Shape(queue) /\ queue \in Queues /\ LoopTypes /\ SetTypes /\ UserTypes
      /\ numThreads \in 0..MaxThreads
  BY DEF IInv, LInv, TInv, LoopTypes, QueueTypes
<1>4. userAt[u] # Idle /\ userAt[u] \in Calls /\ c \in held[u] /\ c \in Created /\ c \in Conns
  <2>1. userAt[u] # Idle
    BY DEF SetState
  <2>2. userAt[u] \in Calls /\ c \in held[u]
    BY <1>1, <1>3, <2>1 DEF UserTypes
  <2>3. QED  BY <1>3, <2>1, <2>2, CreatedConns DEF UserTypes
<1>5. op \in {"forceClose", "delay", "shutdown"}
  BY <1>2, <1>4 DEF Calls
<1>6. /\ state' = [state EXCEPT ![c] = "disconnecting"]
      /\ misused' = IF IsUp(c) THEN misused ELSE misused \cup {c}
      /\ userAt' = [userAt EXCEPT ![u] = Idle]
      /\ UNCHANGED <<numAccepted, connections, channel, reading, wantsRead, ups, downs,
                     held, numThreads, server, loopPhase, fault>>
      /\ delayed' \subseteq delayed \cup {c}
  BY <1>1 DEF SetState, Misuse, lifeVars
<1>7. /\ Shape(queue')
      /\ \A d \in Conns :
           /\ Est(queue, d)' = Est(queue, d) /\ Rem(queue, d)' = Rem(queue, d)
           /\ Des(queue, d)' = Des(queue, d)
      /\ UNCHANGED numThreads
  <2>1. CASE op = "delay"
    <3>1. UNCHANGED <<queue, numThreads>>
      BY <1>2, <1>6, <2>1 DEF SetState
    <3>2. QED  BY <1>3, <3>1, UnderWayNext
  <2>2. CASE op # "delay"
    <3>1. queue' = Post(queue, LoopOf(c), F(op, c)) /\ UNCHANGED numThreads
      BY <1>1, <1>2, <1>6, <2>2 DEF SetState, Post
    <3>2. op \in {"forceClose", "shutdown", "startRead", "stopRead"}
      BY <1>5, <2>2
    <3>3. LInv(Post(queue, LoopOf(c), F(op, c)))
      BY <1>3, <1>4, <3>2, PostOther
    <3>4. ASSUME NEW d \in Conns
          PROVE  /\ Est(queue', d) = Est(queue, d) /\ Rem(queue', d) = Rem(queue, d)
                 /\ Des(queue', d) = Des(queue, d)
      <4>1. /\ F(op, c) # F("established", d) /\ F(op, c) # F("remove", d)
            /\ F(op, c) # F("destroyed", d)
        BY <3>2, FunctorEqual
      <4>2. LoopOf(c) \in Loops /\ F(op, c) \in Functor
        BY <1>3, <1>4, <3>2, LoopOfType, FunctorType DEF SharedOps, RawOps
      <4>3. Est(queue, d) \in Nat /\ Rem(queue, d) \in Nat /\ Des(queue, d) \in Nat
        BY <1>3, UnderWayType
      <4>4. QED  BY <1>3, <3>1, <4>1, <4>2, <4>3, PostUnderWay
    <3>5. QED  BY <3>1, <3>3, <3>4, UnderWayNext DEF LInv
  <2>3. QED  BY <2>1, <2>2
<1>8. /\ state'[c] = "disconnecting" /\ \A d \in Conns \ {c} : state'[d] = state[d]
      /\ userAt'[u] = Idle /\ \A w \in Users \ {u} : userAt'[w] = userAt[w]
      /\ userAt' \in [Users -> {Idle} \cup Calls]
  BY <1>3, <1>4, <1>6 DEF TInv, ConnTypes, UserTypes
<1>9. TInv'
  <2>1. LoopTypes' /\ ReadTypes' /\ CountTypes'
    BY <1>3, <1>6 DEF TInv, LoopTypes, ReadTypes, CountTypes
  <2>2. QueueTypes'
    BY <1>7 DEF QueueTypes, Shape
  <2>3. SetTypes'
    BY <1>3, <1>4, <1>6 DEF SetTypes, Created
  <2>4. ConnTypes'
    BY <1>3, <1>4, <1>6 DEF TInv, ConnTypes, States
  <2>5. UserTypes'
    BY <1>3, <1>6, <1>8 DEF UserTypes, Created
  <2>6. QED  BY <2>1, <2>2, <2>3, <2>4, <2>5 DEF TInv
<1>10. /\ \A d \in Conns \ {c} : Calling(d)' = Calling(d)
       /\ Calling(c)' = Calling(c) \ {u} /\ u \in Calling(c)
  BY <1>1, <1>4, <1>8 DEF Calling
<1>11. /\ Cardinality(Calling(c))' = Cardinality(Calling(c)) - 1
       /\ Cardinality(Calling(c)) \in Nat /\ Cardinality(Calling(c)) <= Cardinality(Users)
       /\ Cardinality(Calling(c))' \in Nat /\ Cardinality(Users) \in Nat
  <2>1. /\ IsFiniteSet(Calling(c)) /\ Cardinality(Calling(c)) \in Nat
        /\ Cardinality(Calling(c)) <= Cardinality(Users) /\ Cardinality(Users) \in Nat
    BY CallingType
  <2>2. /\ Cardinality(Calling(c) \ {u}) = Cardinality(Calling(c)) - 1
        /\ IsFiniteSet(Calling(c) \ {u})
    BY <1>10, <2>1, FS_RemoveElement
  <2>3. Cardinality(Calling(c) \ {u}) \in Nat
    BY <2>2, FS_CardinalityType
  <2>4. QED  BY <1>10, <2>1, <2>2, <2>3
<1>12. \A d \in Conns \ {c} : Same(queue, d)
  BY <1>6, <1>7, <1>8, <1>10 DEF Same
<1>13. Life(queue, c) /\ IsUp(c)' /\ LoopOf(c)' = LoopOf(c) /\ Open(c)' = 1
  BY <1>3, <1>4, <1>6, <1>8 DEF LInv, IsUp, LoopOf, Open
<1>14. Life(queue, c)'
  <2>1. CASE c \in misused
    <3>1. Worn(queue, c) /\ c \in misused'
      BY <1>4, <1>6, <1>13, <2>1 DEF Life
    <3>2. Open(c) \in {0, 1} /\ downs[c] \in Nat
      BY <1>3, <1>4, CallingType DEF Open, TInv, CountTypes
    <3>3. downs[c] + Cardinality(Calling(c)) + Open(c) <= 1 + Cardinality(Users) /\ Est(queue, c) = 0
      BY <3>1 DEF Worn
    <3>4. downs'[c] + Cardinality(Calling(c))' + Open(c)' <= 1 + Cardinality(Users)
      <4>1. downs'[c] = downs[c]
        BY <1>6
      <4>2. QED  BY <1>11, <1>13, <3>2, <3>3, <4>1
    <3>5. Worn(queue, c)'
      BY <1>4, <1>7, <3>3, <3>4 DEF Worn
    <3>6. QED  BY <1>4, <1>6, <3>1, <3>5 DEF Life, Created
  <2>2. CASE c \notin misused /\ IsUp(c)
    <3>1. Up(queue, c) /\ c \notin misused'
      BY <1>4, <1>6, <1>13, <2>2, UpIfOpen
    <3>2. Tabled(queue, c)'
      BY <1>4, <1>6, <1>7, <1>13, <3>1 DEF Up, Tabled
    <3>3. Up(queue, c)'
      BY <1>4, <1>6, <1>7, <1>13, <3>1, <3>2 DEF Up
    <3>4. QED  BY <1>4, <1>6, <3>1, <3>3 DEF Life, Created
  <2>3. CASE c \notin misused /\ ~IsUp(c)
    <3>1. Down(queue, c) /\ c \in misused'
      BY <1>4, <1>6, <1>13, <2>3 DEF Life, Pending, Up
    <3>2. downs'[c] = 1 /\ Est(queue, c)' = 0
      BY <1>4, <1>6, <1>7, <3>1 DEF Down
    <3>3. Cardinality(Calling(c))' <= Cardinality(Users) - 1
      BY <1>11
    <3>4. Worn(queue, c)'
      BY <1>4, <1>11, <3>2, <3>3, BecomesWorn
    <3>5. QED  BY <1>4, <1>6, <3>1, <3>4 DEF Life, Created
  <2>4. QED  BY <2>1, <2>2, <2>3
<1>15. LInv(queue)'
  BY <1>3, <1>4, <1>6, <1>7, <1>12, <1>14, OneConnection
<1>16. QED  BY <1>6, <1>9, <1>15 DEF IInv, NoFault

LEMMA CallReadKeeps ==
  ASSUME IInv, fault = {}, NEW u \in Users, NEW c \in Conns, CallRead(u, c)
  PROVE  IInv'
<1>1. PICK op \in {"startRead", "stopRead"} : queue' = [queue EXCEPT ![LoopOf(c)] = Append(@, F(op, c))]
  BY DEF CallRead
<1>2. /\ TInv /\ LInv(queue) /\ LoopTypes /\ c \in Created /\ delayed \subseteq Created
      /\ loopPhase \in [Loops -> {"looping", "quit", "drain", "ended"}]
      /\ UNCHANGED <<numAccepted, connections, delayed, connVars, userVars, lifeVars, misused, fault>>
  BY DEF IInv, TInv, SetTypes, UserTypes, LoopTypes, CallRead, MayCall
<1> DEFINE q == Post(queue, LoopOf(c), F(op, c))
<1>3. queue' = q
  BY <1>1 DEF Post
<1>4. LInv(q)
  BY <1>2, PostOther
<1> HIDE DEF q
<1>5. UNCHANGED <<numThreads, server, loopPhase>>
  BY <1>2 DEF lifeVars
<1>6. /\ Shape(queue')
      /\ \A d \in Conns : /\ Est(queue, d)' = Est(q, d) /\ Rem(queue, d)' = Rem(q, d)
                          /\ Des(queue, d)' = Des(q, d)
  BY <1>3, <1>4, <1>5, UnderWayNext DEF LInv
<1>7. /\ loopPhase' \in [Loops -> {"looping", "quit", "drain", "ended"}]
      /\ server = "alive" => loopPhase' = loopPhase
      /\ delayed' \subseteq Created
  BY <1>2, <1>5
<1>8. QED  BY <1>2, <1>4, <1>5, <1>6, <1>7, QuietStep

------------------------------------------------------------------------------
(* The theorems.                                                              *)

LEMMA InitInv == Init => IInv
<1> SUFFICES ASSUME Init PROVE IInv
  OBVIOUS
<1>1. MaxThreads \in Nat /\ MaxConns \in Nat /\ Cardinality(Users) \in Nat
  BY TcpServerAssumption, CallingType
<1>2. numThreads \in 0..MaxThreads /\ numAccepted = 0 /\ Created = {}
  BY <1>1 DEF Init, Created
<1>3. queue = [l \in Loops |-> <<>>] /\ queue \in Queues
  BY DEF Init, Queues
<1>4. TInv
  <2>1. LoopTypes /\ SetTypes /\ QueueTypes /\ ConnTypes /\ ReadTypes
    BY <1>1, <1>2, <1>3
       DEF Init, LoopTypes, SetTypes, QueueTypes, ConnTypes, ReadTypes, States, Channels
  <2>2. CountTypes
    <3>1. 0 \in 0..1 /\ 0 \in 0..(3 + Cardinality(Users))
      BY <1>1
    <3>2. QED  BY <3>1 DEF Init, CountTypes
  <2>3. UserTypes
    BY DEF Init, UserTypes
  <2>4. QED  BY <2>1, <2>2, <2>3 DEF TInv
<1>5. Shape(queue)
  <2>1. \A l \in Loops : DOMAIN queue[l] = {}
    BY <1>3
  <2>2. AllPlaced(queue)
    BY <2>1 DEF AllPlaced
  <2>3. AllFirst(queue)
    BY <1>2, <2>1, LoopOfType DEF AllFirst, First
  <2>4. QED  BY <1>3, <2>2, <2>3 DEF Shape
<1>6. \A c \in Conns : Life(queue, c)
  BY <1>2 DEF Init, Life, Unborn
<1>7. QED  BY <1>4, <1>5, <1>6 DEF IInv, NoFault, LInv, Init

LEMMA StepInv == IInv /\ [Next]_vars => IInv'
<1> SUFFICES ASSUME IInv, [Next]_vars PROVE IInv'
  OBVIOUS
<1>1. CASE UNCHANGED vars
  <2>1. UNCHANGED <<numThreads, numAccepted, server, connections, loopPhase, queue, state, channel,
                    reading, wantsRead, delayed, userAt, held, ups, downs, misused, fault>>
    BY <1>1 DEF vars, connVars, userVars, lifeVars
  <2>2. TInv' /\ NoFault'
    BY <2>1 DEF IInv, TInv, LoopTypes, SetTypes, QueueTypes, ConnTypes, ReadTypes, CountTypes,
                UserTypes, Created, NoFault, LoopOf
  <2>3. fault' = {} => LInv(queue)'
    <3> SUFFICES ASSUME fault = {} PROVE LInv(queue)'
      BY <2>1
    <3>1. LInv(queue)
      BY DEF IInv
    <3>2. \A d : /\ Est(queue, d)' = Est(queue, d) /\ Rem(queue, d)' = Rem(queue, d)
                 /\ Des(queue, d)' = Des(queue, d)
      BY <2>1, UnderWayNext
    <3>3. \A d \in Conns : Same(queue, d)
      BY <2>1, <3>2 DEF Same, Calling
    <3>4. \A d \in Conns : Life(queue, d)'
      BY <2>1, <3>1, <3>3, Untouched DEF LInv, Created
    <3>5. Shape(queue)'
      BY <2>1, <3>1, ShapeNext DEF LInv, Created
    <3>6. QED  BY <3>4, <3>5 DEF LInv
  <2>4. QED  BY <2>2, <2>3 DEF IInv
<1>2. CASE Next
  <2>1. fault = {}
    BY <1>2 DEF Next
  <2>2. CASE NewConnection
    BY <2>1, <2>2, NewConnectionKeeps
  <2>3. CASE Destroy
    BY <2>1, <2>3, DestroyKeeps
  <2>4. CASE \E c \in Conns : HandleRead(c)
    BY <2>1, <2>4, HandleReadKeeps
  <2>5. CASE \E c \in Conns : LoopCall(c)
    BY <2>1, <2>5, LoopCallKeeps
  <2>6. CASE \E c \in Conns : DelayOver(c)
    BY <2>1, <2>6, DelayOverKeeps
  <2>7. CASE \E l \in Loops : RunFunctor(l)
    BY <2>1, <2>7, RunFunctorKeeps
  <2>8. CASE \E l \in Loops : QuitLoop(l) \/ LeaveLoop(l)
    BY <2>1, <2>8, QuitLoopKeeps
  <2>9. CASE \E l \in Loops : EndLoop(l)
    BY <2>1, <2>9, EndLoopKeeps
  <2>10. CASE \E u \in Users : SetState(u)
    BY <2>1, <2>10, SetStateKeeps
  <2>11. CASE \E u \in Users, c \in Conns : Share(u, c)
    BY <2>1, <2>11, ShareKeeps
  <2>12. CASE \E u \in Users, c \in Conns : Release(u, c)
    BY <2>1, <2>12, ReleaseKeeps
  <2>13. CASE \E u \in Users, c \in Conns : TestState(u, c)
    BY <2>1, <2>13, TestStateKeeps
  <2>14. CASE \E u \in Users, c \in Conns : CallRead(u, c)
    BY <2>1, <2>14, CallReadKeeps
  <2>15. QED
    BY <1>2, <2>2, <2>3, <2>4, <2>5, <2>6, <2>7, <2>8, <2>9, <2>10, <2>11, <2>12, <2>13, <2>14
       DEF Next, Events, Loop, User
<1>3. QED  BY <1>1, <1>2

LEMMA Invariant == Spec => []IInv
  BY InitInv, StepInv, PTL DEF Spec

\* The state is of its types, and nothing fails and nothing is used after its
\* destruction but what NoFault names, however many threads call.
THEOREM ServerSound == Spec => []Sound
<1>1. IInv => Sound
  BY TypeParts DEF IInv, Sound
<1>2. QED  BY <1>1, Invariant, PTL

LEMMA NumQueuedCount == \A l, f : NumQueued(l, f) = Count(queue[l], f)
  BY DEF NumQueued, Count, Positions

\* The table and the connections' own states agree: each half of a removal is
\* under way exactly as often as it has still to be done.
THEOREM TableAlwaysAgrees == Spec => []TableAgrees
<1>1. IInv => TableAgrees
  <2> SUFFICES ASSUME IInv, server = "alive", fault = {}, NEW c \in Created \ misused
               PROVE  IF c \in connections
                      THEN /\ NumQueued(Base, F("remove", c)) = downs[c]
                           /\ NumQueued(LoopOf(c), F("destroyed", c)) = 0 /\ channel[c] # "removed"
                           /\ downs[c] = 1 => LoopOf(c) # Base
                      ELSE /\ downs[c] = 1 /\ NumQueued(Base, F("remove", c)) = 0
                           /\ NumQueued(LoopOf(c), F("destroyed", c))
                                = IF channel[c] = "removed" THEN 0 ELSE 1
    BY DEF TableAgrees
  <2>1. /\ NumQueued(Base, F("remove", c)) = Rem(queue, c)
        /\ NumQueued(LoopOf(c), F("destroyed", c)) = Des(queue, c)
    BY NumQueuedCount DEF Rem, Des
  <2>2. c \in Conns
    BY CreatedConns DEF IInv, TInv
  <2>3. Pending(queue, c) \/ Up(queue, c) \/ Down(queue, c)
    BY <2>2 DEF IInv, LInv, Life
  <2>4. QED  BY <2>1, <2>3 DEF Pending, Unborn, Up, Down, Tabled
<1>2. QED  BY <1>1, Invariant, PTL
------------------------------------------------------------------------------
(* The life of a connection, step by step.                                    *)

\* The phase of a connection that has not been misused, told by its history and
\* by whether it exists.
StageIs(c) ==
  Phase(c) = IF ups[c] = 0 THEN "new"
             ELSE IF downs[c] = 0 THEN "up"
             ELSE IF Alive(c) THEN "down" ELSE "destroyed"
Ordered(c) ==
  /\ ups[c] \in 0..1 /\ downs[c] \in 0..ups[c]
  /\ c \notin Created => ups[c] = 0
  /\ downs[c] = 1 => state[c] = "disconnected"
PhaseInv == fault = {} => \A c \in Conns \ misused : StageIs(c) /\ Ordered(c)

LEMMA Phases == IInv => PhaseInv
<1> SUFFICES ASSUME IInv, fault = {}, NEW c \in Conns \ misused
             PROVE  StageIs(c) /\ Ordered(c)
  BY DEF PhaseInv
<1>1. LoopTypes /\ queue \in Queues /\ Life(queue, c)
  BY DEF IInv, TInv, QueueTypes, LInv
<1>2. CASE c \notin Created
  BY <1>1, <1>2 DEF Life, Unborn, Phase, StageIs, Ordered
<1>3. CASE c \in Created /\ Pending(queue, c)
  <2>1. Alive(c)
    BY <1>1, <1>3, TabledAlive DEF Pending
  <2>2. QED  BY <1>3, <2>1 DEF Pending, Unborn, Phase, StageIs, Ordered
<1>4. CASE c \in Created /\ Up(queue, c)
  <2>1. Alive(c)
    BY <1>1, <1>4, TabledAlive DEF Up
  <2>2. QED  BY <1>4, <2>1 DEF Up, Phase, StageIs, Ordered
<1>5. CASE c \in Created /\ Down(queue, c)
  <2>1. ~Alive(c) => channel[c] = "removed"
    <3> SUFFICES ASSUME ~Alive(c) PROVE channel[c] = "removed"
      OBVIOUS
    <3>1. c \notin connections
      BY DEF Alive
    <3>2. Des(queue, c) = 0
      <4>1. LoopOf(c) \in Loops /\ queue[LoopOf(c)] \in Seq(Functor)
        BY <1>1, LoopOfType DEF LoopTypes, Queues
      <4>2. Refers(F("destroyed", c), c)
        BY DEF Refers, F, SharedOps
      <4>3. \A i \in DOMAIN queue[LoopOf(c)] : queue[LoopOf(c)][i] # F("destroyed", c)
        BY <4>1, <4>2 DEF Alive
      <4>4. QED  BY <4>1, <4>3, CountPositive DEF Des
    <3>3. QED  BY <1>5, <3>1, <3>2 DEF Down
  <2>2. QED  BY <1>5, <2>1 DEF Down, Phase, StageIs, Ordered
<1>6. QED  BY <1>1, <1>2, <1>3, <1>4, <1>5 DEF Life

\* What no step takes back, for a connection that has not been misused.
Forward(c) ==
  /\ c \in misused => c \in misused'
  /\ \/ ups'[c] = ups[c] /\ downs'[c] = downs[c]
     \/ ups'[c] = ups[c] + 1 /\ downs'[c] = downs[c]
     \/ ups'[c] = ups[c] /\ downs'[c] = downs[c] + 1

LEMMA StepForward ==
  ASSUME TInv, Next, NEW c \in Conns
  PROVE  Forward(c)
<1>0. ups \in [Conns -> 0..1] /\ downs \in [Conns -> 0..(3 + Cardinality(Users))]
  BY DEF TInv, CountTypes
<1>a. ASSUME NEW d, ConnectEstablished(d) PROVE Forward(c)
  BY <1>0, <1>a DEF ConnectEstablished, Forward
<1>b. ASSUME NEW d, NEW q, HandleClose(d, q) PROVE Forward(c)
  BY <1>0, <1>b DEF HandleClose, Forward
<1>c. ASSUME NEW cs, ConnectDestroyed(cs) PROVE Forward(c)
  BY <1>0, <1>c DEF ConnectDestroyed, Forward
<1>d. ASSUME UNCHANGED <<ups, downs>>, misused \subseteq misused' PROVE Forward(c)
  BY <1>d DEF Forward
<1>1. CASE NewConnection
  BY <1>1, <1>a, <1>d DEF NewConnection, connVars
<1>2. CASE Destroy
  BY <1>2, <1>c, <1>d DEF Destroy, connVars
<1>3. ASSUME NEW d, HandleRead(d) PROVE Forward(c)
  BY <1>3, <1>b DEF HandleRead
<1>4. ASSUME NEW d, LoopCall(d) \/ DelayOver(d) PROVE Forward(c)
  <2>1. UNCHANGED <<ups, downs, misused>>
    BY <1>4 DEF LoopCall, DelayOver, SetReading
  <2>2. QED  BY <2>1, <1>d
<1>5. ASSUME NEW l, RunFunctor(l) PROVE Forward(c)
  <2> DEFINE f == Head(queue[l])
             q == [queue EXCEPT ![l] = Tail(@)]
  <2>1. CASE ConnectEstablished(f.conn)
    BY <2>1, <1>a
  <2>2. CASE ConnectDestroyed({f.conn})
    BY <2>2, <1>c
  <2>3. CASE UNCHANGED <<connVars, misused>>
    BY <2>3, <1>d DEF connVars
  <2>4. CASE HandleClose(f.conn, q)
    BY <2>4, <1>b
  <2>5. CASE Misuse(f.conn) /\ (UNCHANGED connVars \/ \E on \in BOOLEAN : SetReading(f.conn, on))
    <3>1. UNCHANGED <<ups, downs>> /\ misused \subseteq misused'
      BY <2>5 DEF Misuse, SetReading, connVars
    <3>2. QED  BY <3>1, <1>d
  <2> HIDE DEF f, q
  <2>6. QED
    BY <1>5, <2>1, <2>2, <2>3, <2>4, <2>5 DEF RunFunctor, ForceCloseInLoop, f, q
<1>6. ASSUME NEW l, QuitLoop(l) \/ LeaveLoop(l) \/ EndLoop(l) PROVE Forward(c)
  BY <1>6, <1>d DEF QuitLoop, LeaveLoop, EndLoop, connVars
<1>7. ASSUME NEW u \in Users, NEW d, Share(u, d) \/ Release(u, d) \/ TestState(u, d) \/ CallRead(u, d)
      PROVE  Forward(c)
  BY <1>7, <1>d DEF Share, Release, TestState, CallRead, connVars
<1>8. ASSUME NEW u \in Users, SetState(u) PROVE Forward(c)
  BY <1>8, <1>d DEF SetState, Misuse
<1>9. QED
  BY <1>1, <1>2, <1>3, <1>4, <1>5, <1>6, <1>7, <1>8 DEF Next, Events, Loop, User

\* Somebody refers to c from a queue.
Referred(q, c) == \E l \in Loops : \E i \in DOMAIN q[l] : Refers(q[l][i], c)

LEMMA PopRefers ==
  ASSUME NEW q \in Queues, NEW l \in Loops, q[l] # <<>>, NEW c, ~Referred(q, c)
  PROVE  ~Referred(Pop(q, l), c) /\ ~Refers(Head(q[l]), c)
<1>1. q[l] \in Seq(Functor)
  BY DEF Queues
<1>2. /\ DOMAIN q[l] = 1..Len(q[l]) /\ Len(q[l]) \in Nat \ {0}
      /\ DOMAIN Tail(q[l]) = 1..(Len(q[l]) - 1)
      /\ \A i \in 1..(Len(q[l]) - 1) : Tail(q[l])[i] = q[l][i + 1] /\ i + 1 \in 1..Len(q[l])
      /\ Head(q[l]) = q[l][1] /\ 1 \in 1..Len(q[l])
  <2>1. /\ DOMAIN q[l] = 1..Len(q[l]) /\ Len(q[l]) \in Nat \ {0}
        /\ DOMAIN Tail(q[l]) = 1..(Len(q[l]) - 1)
        /\ \A i \in 1..(Len(q[l]) - 1) : Tail(q[l])[i] = q[l][i + 1]
        /\ Head(q[l]) = q[l][1]
    BY <1>1, HeadTailProperties, LenProperties, EmptySeq
  <2>2. QED  BY <2>1
<1>3. \A k \in Loops : Pop(q, l)[k] = IF k = l THEN Tail(q[l]) ELSE q[k]
  BY DEF Pop, Queues
<1>4. ASSUME NEW k \in Loops, NEW i \in DOMAIN Pop(q, l)[k] PROVE ~Refers(Pop(q, l)[k][i], c)
  BY <1>2, <1>3, <1>4 DEF Referred
<1>5. QED  BY <1>2, <1>4 DEF Referred

LEMMA PostRefers ==
  ASSUME NEW q \in Queues, NEW l \in Loops, NEW f \in Functor, NEW c,
         ~Referred(q, c), ~Refers(f, c)
  PROVE  ~Referred(Post(q, l, f), c)
<1>1. q[l] \in Seq(Functor)
  BY DEF Queues
<1>2. /\ DOMAIN q[l] = 1..Len(q[l]) /\ Len(q[l]) \in Nat
      /\ DOMAIN Append(q[l], f) = 1..(Len(q[l]) + 1)
      /\ \A i \in 1..Len(q[l]) : Append(q[l], f)[i] = q[l][i]
      /\ Append(q[l], f)[Len(q[l]) + 1] = f
  BY <1>1, AppendProperties, LenProperties
<1>3. \A k \in Loops : Post(q, l, f)[k] = IF k = l THEN Append(q[l], f) ELSE q[k]
  BY <1>1 DEF Post, Queues
<1>4. ASSUME NEW k \in Loops, NEW i \in DOMAIN Post(q, l, f)[k] PROVE ~Refers(Post(q, l, f)[k][i], c)
  <2>1. CASE k # l
    BY <1>3, <1>4, <2>1 DEF Referred
  <2>2. CASE k = l
    <3>1. i \in 1..(Len(q[l]) + 1) /\ Post(q, l, f)[k] = Append(q[l], f)
      BY <1>2, <1>3, <2>2
    <3>2. i \in 1..Len(q[l]) \/ i = Len(q[l]) + 1
      BY <1>2, <3>1
    <3>3. \A j \in DOMAIN q[l] : ~Refers(q[l][j], c)
      BY DEF Referred
    <3>4. QED  BY <1>2, <3>1, <3>2, <3>3
  <2>3. QED  BY <2>1, <2>2
<1>5. QED  BY <1>4 DEF Referred

LEMMA AliveIf ==
  \A c : Alive(c) <=> \/ c \in connections
                      \/ Referred(queue, c)
                      \/ \E u \in Users : c \in held[u]
  BY DEF Alive, Referred

\* Nobody comes by a TcpConnectionPtr to a connection that has gone.
LEMMA GoneForGood ==
  ASSUME IInv, Next, NEW c \in Created, state[c] = "disconnected", ups[c] = downs[c], ~Alive(c)
  PROVE  ~Alive(c)'
<1>0. /\ LoopTypes /\ SetTypes /\ UserTypes /\ numThreads \in 0..MaxThreads /\ c \in Conns
      /\ queue \in Queues
      /\ c \notin connections /\ ~Referred(queue, c) /\ \A u \in Users : c \notin held[u]
  BY AliveIf, CreatedConns DEF IInv, TInv, LoopTypes, QueueTypes
<1>a. ASSUME c \notin connections', ~Referred(queue', c), \A u \in Users : c \notin held'[u]
      PROVE  ~Alive(c)'
  BY <1>a DEF Alive, Referred
<1>b. ASSUME NEW op \in SharedOps \cup RawOps, NEW d \in Conns, NEW l \in Loops, NEW q \in Queues,
             ~Referred(q, c), d # c \/ op \in RawOps
      PROVE  ~Referred(Post(q, l, F(op, d)), c)
  <2>1. F(op, d) \in Functor /\ F(op, d).op = op /\ F(op, d).conn = d
    BY FunctorType
  <2>2. ~Refers(F(op, d), c)
    BY <1>b, <2>1 DEF Refers, SharedOps, RawOps
  <2>3. QED  BY <1>b, <2>1, <2>2, PostRefers
<1>c. \A d \in Conns : LoopOf(d) \in Loops /\ Base \in Loops
  BY <1>0, LoopOfType
<1>d. ASSUME NEW d \in Conns \ {c}, NEW q \in Queues, ~Referred(q, c),
             \/ queue' = Post(q, LoopOf(d), F("destroyed", d))
             \/ queue' = Post(q, LoopOf(d), F("forceClose", d))
             \/ queue' = Post(q, LoopOf(d), F("established", d))
             \/ queue' = Post(q, Base, F("remove", d))
             \/ queue' = q
      PROVE  ~Referred(queue', c)
  <2>1. {"destroyed", "forceClose", "established", "remove"} \subseteq SharedOps \cup RawOps
    BY DEF SharedOps
  <2>2. QED  BY <1>b, <1>c, <1>d, <2>1
<1>1. CASE NewConnection
  <2>1. PICK d : d = numAccepted + 1
    OBVIOUS
  <2>2. d \in Conns \ {c} /\ connections' = connections \cup {d} /\ UNCHANGED held
    BY <1>0, <1>1, <2>1, TcpServerAssumption
       DEF NewConnection, Conns, Created, userVars, LoopTypes
  <2>3. queue' = queue \/ queue' = Post(queue, LoopOf(d), F("established", d))
    BY <1>1, <2>1 DEF NewConnection, Post
  <2>4. ~Referred(queue', c)
    BY <1>0, <1>d, <2>2, <2>3
  <2>5. QED  BY <1>0, <1>a, <2>2, <2>4
<1>2. CASE Destroy
  <2>1. connections' = {} /\ UNCHANGED held
    BY <1>2 DEF Destroy, userVars
  <2>2. ~Referred(queue', c)
    <3>1. CASE numThreads = 0
      BY <1>0, <1>2, <3>1 DEF Destroy
    <3>2. CASE numThreads # 0
      <4>1. queue' = [l \in Loops |-> queue[l] \o SetToSeq(Posted(l))]
        BY <1>2, <3>2 DEF Destroy, Posted
      <4>2. Shape(queue)
        BY <1>2 DEF IInv, LInv, Next
      <4>3. \A l \in Loops : \A i \in DOMAIN queue'[l] :
              (i \in DOMAIN queue[l] /\ queue'[l][i] = queue[l][i]) \/ queue'[l][i] \in Posted(l)
        BY <1>0, <4>1, <4>2, DestroyPosts
      <4>4. \A l \in Loops : \A f \in Posted(l) : ~Refers(f, c)
        <5> SUFFICES ASSUME NEW l \in Loops, NEW f \in Posted(l) PROVE f.conn # c
          BY DEF Refers
        <5>1. PICK d \in connections : f = F("destroyed", d)
          BY DEF Posted
        <5>2. QED  BY <1>0, <5>1 DEF F
      <4>5. ASSUME NEW l \in Loops, NEW i \in DOMAIN queue'[l] PROVE ~Refers(queue'[l][i], c)
        <5>1. CASE queue'[l][i] \in Posted(l)
          BY <4>4, <5>1
        <5>2. CASE i \in DOMAIN queue[l] /\ queue'[l][i] = queue[l][i]
          BY <1>0, <5>2 DEF Referred
        <5>3. QED  BY <4>3, <4>5, <5>1, <5>2
      <4>6. QED  BY <4>5 DEF Referred
    <3>3. QED  BY <3>1, <3>2
  <2>3. QED  BY <1>0, <1>a, <2>1, <2>2
<1>3. ASSUME NEW d \in Conns, HandleRead(d) PROVE ~Alive(c)'
  <2>1. d # c /\ UNCHANGED held /\ HandleClose(d, queue)
    BY <1>3 DEF HandleRead, userVars
  <2>2. connections' \subseteq connections
    BY <2>1 DEF HandleClose, RemoveConnectionInLoop
  <2>3. queue' = Post(queue, LoopOf(d), F("destroyed", d)) \/ queue' = Post(queue, Base, F("remove", d))
    BY <2>1 DEF HandleClose, RemoveConnectionInLoop, Post
  <2>4. ~Referred(queue', c)
    BY <1>0, <1>d, <2>1, <2>3
  <2>5. QED  BY <1>0, <1>a, <2>1, <2>2, <2>4
<1>4. ASSUME NEW d \in Conns, LoopCall(d) \/ DelayOver(d) PROVE ~Alive(c)'
  <2>1. UNCHANGED <<connections, held>>
    BY <1>4 DEF LoopCall, DelayOver, userVars
  <2>2. queue' = queue \/ (d # c /\ queue' = Post(queue, LoopOf(d), F("forceClose", d)))
    BY <1>4 DEF LoopCall, DelayOver, ForceClose, IsUp, Post
  <2>3. ~Referred(queue', c)
    BY <1>0, <1>4, <1>d, <2>2
  <2>4. QED  BY <1>0, <1>a, <2>1, <2>3
<1>5. ASSUME NEW l \in Loops, RunFunctor(l) PROVE ~Alive(c)'
  <2>1. PICK f : f = Head(queue[l])
    OBVIOUS
  <2>2. PICK d : d = f.conn
    OBVIOUS
  <2>3. PICK q : q = Pop(queue, l)
    OBVIOUS
  <2>4. queue[l] # <<>> /\ queue[l] \in Seq(Functor) /\ UNCHANGED held
    BY <1>0, <1>5 DEF RunFunctor, Queues, userVars
  <2>5. f \in Functor /\ d \in Conns /\ q \in Queues /\ ~Referred(q, c) /\ ~Refers(f, c)
    <3>1. f \in Functor
      BY <2>1, <2>4, HeadTailProperties
    <3>2. d \in Conns
      BY <2>2, <3>1, FunctorType
    <3>3. QED  BY <1>0, <2>1, <2>3, <2>4, <3>1, <3>2, PopCounts, PopRefers
  <2>6. CASE queue' = q /\ UNCHANGED connections
    BY <1>0, <1>a, <2>4, <2>5, <2>6
  <2>7. CASE f.op \in {"remove", "forceClose"} /\ (RemoveConnectionInLoop(d, q) \/ HandleClose(d, q))
    <3>1. d # c
      BY <2>2, <2>5, <2>7 DEF Refers, SharedOps
    <3>2. connections' \subseteq connections
      BY <2>7 DEF HandleClose, RemoveConnectionInLoop
    <3>3. queue' = Post(q, LoopOf(d), F("destroyed", d)) \/ queue' = Post(q, Base, F("remove", d))
      BY <2>7 DEF HandleClose, RemoveConnectionInLoop, Post
    <3>4. ~Referred(queue', c)
      BY <1>d, <2>5, <3>1, <3>3
    <3>5. QED  BY <1>0, <1>a, <2>4, <3>2, <3>4
  <2>8. QED
    BY <1>5, <2>1, <2>2, <2>3, <2>6, <2>7 DEF RunFunctor, ForceCloseInLoop, Pop
<1>6. ASSUME NEW l, QuitLoop(l) \/ LeaveLoop(l) \/ EndLoop(l) PROVE ~Alive(c)'
  <2>1. UNCHANGED <<connections, queue, held>>
    BY <1>6 DEF QuitLoop, LeaveLoop, EndLoop, userVars
  <2>2. QED  BY <1>0, <1>a, <2>1
<1>7. ASSUME NEW u \in Users, NEW d \in Conns, Share(u, d) \/ Release(u, d) \/ TestState(u, d)
      PROVE  ~Alive(c)'
  <2>1. UNCHANGED <<connections, queue>>
    BY <1>7 DEF Share, Release, TestState
  <2>2. \A w \in Users : c \notin held'[w]
    <3>1. CASE Share(u, d)
      <4>1. ups[d] > downs[d] /\ held' = [held EXCEPT ![u] = @ \cup {d}]
        BY <3>1 DEF Share
      <4>2. d # c
        <5>1. ups[c] \in Nat
          BY <1>0 DEF IInv, TInv, CountTypes
        <5>2. QED  BY <4>1, <5>1
      <4>3. QED  BY <1>0, <4>1, <4>2 DEF UserTypes
    <3>2. CASE Release(u, d) \/ TestState(u, d)
      BY <1>0, <3>2 DEF Release, TestState, UserTypes
    <3>3. QED  BY <1>7, <3>1, <3>2
  <2>3. QED  BY <1>0, <1>a, <2>1, <2>2
<1>8. ASSUME NEW u \in Users, NEW d \in Conns, CallRead(u, d) PROVE ~Alive(c)'
  <2>1. UNCHANGED <<connections, held>>
    BY <1>8 DEF CallRead, userVars
  <2>2. PICK op \in {"startRead", "stopRead"} : queue' = Post(queue, LoopOf(d), F(op, d))
    BY <1>8 DEF CallRead, Post
  <2>3. op \in RawOps
    BY DEF RawOps
  <2>4. ~Referred(queue', c)
    BY <1>0, <1>b, <1>c, <2>2, <2>3
  <2>5. QED  BY <1>0, <1>a, <2>1, <2>4
<1>9. ASSUME NEW u \in Users, SetState(u) PROVE ~Alive(c)'
  <2>1. PICK d : d = userAt[u].conn
    OBVIOUS
  <2>2. PICK op : op = userAt[u].at
    OBVIOUS
  <2>3. userAt[u] \in Calls /\ d \in Conns /\ d # c /\ op \in {"forceClose", "delay", "shutdown"}
    <3>1. userAt[u] # Idle
      BY <1>9 DEF SetState
    <3>2. userAt[u] \in Calls /\ d \in held[u]
      BY <1>0, <2>1, <3>1 DEF UserTypes
    <3>3. QED  BY <1>0, <2>1, <2>2, <3>2 DEF Calls
  <2>4. UNCHANGED <<connections, held>>
    BY <1>9 DEF SetState
  <2>5. queue' = queue \/ (op # "delay" /\ queue' = Post(queue, LoopOf(d), F(op, d)))
    BY <1>9, <2>1, <2>2 DEF SetState, Post
  <2>6. op # "delay" => op \in SharedOps \cup RawOps
    BY <2>3 DEF SharedOps, RawOps
  <2>7. ~Referred(queue', c)
    BY <1>0, <1>b, <1>c, <2>3, <2>5, <2>6
  <2>8. QED  BY <1>0, <1>a, <2>4, <2>7
<1>10. QED
  BY <1>1, <1>2, <1>3, <1>4, <1>5, <1>6, <1>7, <1>8, <1>9 DEF Next, Events, Loop, User

\* A connection comes up, goes down and is destroyed, in this order: no step of
\* any thread skips or repeats one of them, or goes back.
THEOREM LifeAlwaysInOrder == Spec => LifeInOrder
<1> DEFINE Ordering ==
             \A c \in Conns \ misused' :
               fault' = {} /\ Phase(c)' # Phase(c) =>
                 <<Phase(c), Phase(c)'>> \in {<<"new", "up">>, <<"up", "down">>,
                                              <<"down", "destroyed">>, <<"up", "destroyed">>}
<1>1. ASSUME IInv, PhaseInv, PhaseInv', Next PROVE Ordering
  <2> SUFFICES ASSUME NEW c \in Conns, c \notin misused', fault' = {}, Phase(c)' # Phase(c)
               PROVE  <<Phase(c), Phase(c)'>> \in {<<"new", "up">>, <<"up", "down">>,
                                                   <<"down", "destroyed">>, <<"up", "destroyed">>}
    OBVIOUS
  <2>1. fault = {} /\ TInv
    BY <1>1 DEF Next, IInv
  <2>2. Forward(c)
    BY <1>1, <2>1, StepForward
  <2>3. StageIs(c) /\ Ordered(c)
    BY <1>1, <2>1, <2>2 DEF PhaseInv, Forward
  <2>4. StageIs(c)' /\ Ordered(c)'
    BY <1>1 DEF PhaseInv
  <2>5. ups[c] = 1 /\ downs[c] = 1 /\ ~Alive(c) => ~Alive(c)'
    <3> SUFFICES ASSUME ups[c] = 1, downs[c] = 1, ~Alive(c) PROVE ~Alive(c)'
      OBVIOUS
    <3>1. c \in Created /\ state[c] = "disconnected"
      BY <2>3 DEF Ordered
    <3>2. QED  BY <1>1, <3>1, GoneForGood
  <2>6. /\ ups[c] \in 0..1 /\ downs[c] \in 0..ups[c]
        /\ ups'[c] \in 0..1 /\ downs'[c] \in 0..ups'[c]
    BY <2>3, <2>4 DEF Ordered
  <2>7. \/ ups'[c] = ups[c] /\ downs'[c] = downs[c]
        \/ ups'[c] = ups[c] + 1 /\ downs'[c] = downs[c]
        \/ ups'[c] = ups[c] /\ downs'[c] = downs[c] + 1
    BY <2>2 DEF Forward
  <2>8. CASE ups[c] = 0
    <3>1. Phase(c) = "new"
      BY <2>3, <2>8 DEF StageIs
    <3>2. ups'[c] = 0 \/ (ups'[c] = 1 /\ downs'[c] = 0)
      BY <2>6, <2>7, <2>8
    <3>3. Phase(c)' \in {"new", "up"}
      BY <2>4, <3>2 DEF StageIs
    <3>4. QED  BY <3>1, <3>3
  <2>9. CASE ups[c] = 1 /\ downs[c] = 0
    <3>1. Phase(c) = "up"
      BY <2>3, <2>9 DEF StageIs
    <3>2. ups'[c] = 1
      BY <2>6, <2>7, <2>9
    <3>3. Phase(c)' \in {"up", "down", "destroyed"}
      BY <2>4, <3>2 DEF StageIs
    <3>4. QED  BY <3>1, <3>3
  <2>10. CASE ups[c] = 1 /\ downs[c] = 1
    <3>1. Phase(c) = IF Alive(c) THEN "down" ELSE "destroyed"
      BY <2>3, <2>10 DEF StageIs
    <3>2. ups'[c] = 1 /\ downs'[c] = 1
      BY <2>6, <2>7, <2>10
    <3>3. Phase(c)' = IF Alive(c)' THEN "down" ELSE "destroyed"
      BY <2>4, <3>2 DEF StageIs
    <3>4. CASE Alive(c)
      <4>1. Phase(c) = "down" /\ Phase(c)' \in {"down", "destroyed"}
        BY <3>1, <3>3, <3>4
      <4>2. QED  BY <4>1
    <3>5. CASE ~Alive(c)
      BY <2>5, <2>10, <3>1, <3>3, <3>5
    <3>6. QED  BY <3>4, <3>5
  <2>11. QED  BY <2>6, <2>8, <2>9, <2>10
<1>2. ASSUME IInv, PhaseInv, PhaseInv', [Next]_vars PROVE [Ordering]_vars
  BY <1>1, <1>2
<1>3. Spec => [](IInv /\ PhaseInv)
  BY Invariant, Phases, PTL
<1> HIDE DEF Ordering
<1>4. Spec => [][Ordering]_vars
  BY <1>2, <1>3, PTL DEF Spec
<1>5. QED  BY <1>4 DEF LifeInOrder, Ordering

=============================================================================

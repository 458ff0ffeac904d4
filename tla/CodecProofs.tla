----------------------------- MODULE CodecProofs -----------------------------
(* Proofs about Buffer and Codec for every size of buffer, byte and message. *)
EXTENDS Codec, SequenceTheorems, TLAPS

\* The indices of a buffer are in order, with or without a header in front.
InOrder(b) ==
  /\ b \in BufferType
  /\ b.reader <= b.writer /\ b.writer <= Len(b.cells)
  /\ Len(b.cells) <= b.capacity
  /\ b.wrapSize = WrapSize(b.capacity)
  /\ b.sound

------------------------------------------------------------------------------
(* Slices of sequences and of buffers.                                        *)

\* What SubSeq returns within the bounds of its sequence.
LEMMA Slice ==
  ASSUME NEW S, NEW s \in Seq(S), NEW m \in Nat \ {0}, NEW n \in Nat, m <= n + 1, n <= Len(s)
  PROVE  /\ SubSeq(s, m, n) \in Seq(S)
         /\ Len(SubSeq(s, m, n)) = n - m + 1
         /\ \A i \in 1..(n - m + 1) : SubSeq(s, m, n)[i] = s[m + i - 1]
<1>1. \A i \in m..n : s[i] \in S
  BY ElementOfSeq, LenProperties
<1>2. QED  BY <1>1, SubSeqProperties

\* A sequence is what comes before an index and what comes after it.
LEMMA Split ==
  ASSUME NEW S, NEW s \in Seq(S), NEW n \in Nat, n <= Len(s)
  PROVE  /\ SubSeq(s, 1, n) \in Seq(S) /\ SubSeq(s, n + 1, Len(s)) \in Seq(S)
         /\ Len(SubSeq(s, 1, n)) = n /\ Len(SubSeq(s, n + 1, Len(s))) = Len(s) - n
         /\ SubSeq(s, 1, n) \o SubSeq(s, n + 1, Len(s)) = s
<1>1. Len(s) \in Nat
  BY LenProperties
<1> DEFINE t == SubSeq(s, 1, n)
           u == SubSeq(s, n + 1, Len(s))
<1>2. /\ t \in Seq(S) /\ Len(t) = n
      /\ \A i \in 1..n : t[i] = s[i]
  BY <1>1, Slice
<1>3. /\ u \in Seq(S) /\ Len(u) = Len(s) - n
      /\ \A i \in 1..(Len(s) - n) : u[i] = s[n + i]
  <2>1. n + 1 \in Nat \ {0} /\ n + 1 <= Len(s) + 1
    BY <1>1
  <2>2. QED  BY <2>1, <1>1, Slice
<1> HIDE DEF t, u
<1>4. /\ t \o u \in Seq(S) /\ Len(t \o u) = Len(s)
      /\ \A i \in 1..Len(s) : (t \o u)[i] = IF i <= n THEN t[i] ELSE u[i - n]
  BY <1>1, <1>2, <1>3, ConcatProperties
<1>5. ASSUME NEW i \in 1..Len(t \o u) PROVE (t \o u)[i] = s[i]
  <2>1. CASE i <= n
    BY <2>1, <1>1, <1>2, <1>4
  <2>2. CASE ~(i <= n)
    <3>1. i - n \in 1..(Len(s) - n) /\ n + (i - n) = i
      BY <2>2, <1>1, <1>4
    <3>2. QED  BY <3>1, <2>2, <1>3, <1>4
  <2>3. QED  BY <2>1, <2>2
<1>6. t \o u = s
  BY <1>4, <1>5, SeqEqual
<1>7. QED  BY <1>2, <1>3, <1>6 DEF t, u

\* The readable bytes of a buffer.
LEMMA ContentsFacts ==
  ASSUME NEW b, InOrder(b)
  PROVE  /\ Contents(b) \in Seq(Byte)
         /\ Len(Contents(b)) = b.writer - b.reader
         /\ b.writer - b.reader \in Nat
         /\ \A i \in 1..(b.writer - b.reader) : Contents(b)[i] = b.cells[b.reader + i]
<1> DEFINE c == b.cells
           r == b.reader
           w == b.writer
<1>1. c \in Seq(Byte) /\ r \in Nat /\ w \in Nat /\ r <= w /\ w <= Len(c)
  BY DEF InOrder, BufferType
<1>2. Contents(b) = SubSeq(c, r + 1, w)
  BY DEF Contents
<1> HIDE DEF c, r, w
<1>3. r + 1 \in Nat \ {0} /\ r + 1 <= w + 1 /\ w - (r + 1) + 1 = w - r /\ w - r \in Nat
  BY <1>1
<1>4. /\ SubSeq(c, r + 1, w) \in Seq(Byte)
      /\ Len(SubSeq(c, r + 1, w)) = w - (r + 1) + 1
      /\ \A i \in 1..(w - (r + 1) + 1) : SubSeq(c, r + 1, w)[i] = c[r + 1 + i - 1]
  BY <1>1, <1>3, Slice
<1>5. \A i \in 1..(w - r) : SubSeq(c, r + 1, w)[i] = c[r + i]
  <2>1. \A i \in 1..(w - r) : r + 1 + i - 1 = r + i
    BY <1>1
  <2>2. QED  BY <2>1, <1>3, <1>4
<1>6. QED  BY <1>2, <1>3, <1>4, <1>5 DEF c, r, w

\* Buffers with equal bytes in the same place hold the same.
LEMMA SameContents ==
  ASSUME NEW b, InOrder(b), NEW c \in Seq(Byte), Len(c) = b.writer - b.reader,
         \A i \in 1..(b.writer - b.reader) : b.cells[b.reader + i] = c[i]
  PROVE  Contents(b) = c
  BY ContentsFacts, SeqEqual

\* What memcpy changes and what it leaves.
LEMMA CopiedFacts ==
  ASSUME NEW cells \in Seq(Byte), NEW n \in Nat, NEW bytes \in Seq(Byte),
         n + Len(bytes) <= Len(cells)
  PROVE  /\ Copied(cells, n, bytes) \in Seq(Byte)
         /\ Len(Copied(cells, n, bytes)) = Len(cells)
         /\ \A i \in 1..Len(cells) :
              Copied(cells, n, bytes)[i] =
                IF i <= n THEN cells[i]
                ELSE IF i <= n + Len(bytes) THEN bytes[i - n] ELSE cells[i]
<1>1. Len(cells) \in Nat /\ Len(bytes) \in Nat
  BY LenProperties
<1> DEFINE m == n + Len(bytes)
           t == SubSeq(cells, 1, n)
           u == SubSeq(cells, m + 1, Len(cells))
<1>2. /\ t \in Seq(Byte) /\ Len(t) = n
      /\ \A i \in 1..n : t[i] = cells[i]
  BY <1>1, Slice
<1>3. /\ u \in Seq(Byte) /\ Len(u) = Len(cells) - m
      /\ \A i \in 1..(Len(cells) - m) : u[i] = cells[m + i]
  <2>1. m + 1 \in Nat \ {0} /\ m + 1 <= Len(cells) + 1
    BY <1>1
  <2>2. QED  BY <2>1, <1>1, Slice
<1> HIDE DEF t, u
<1>4. /\ t \o bytes \in Seq(Byte) /\ Len(t \o bytes) = m
      /\ \A i \in 1..m : (t \o bytes)[i] = IF i <= n THEN t[i] ELSE bytes[i - n]
  BY <1>1, <1>2, ConcatProperties
<1>5. /\ (t \o bytes) \o u \in Seq(Byte) /\ Len((t \o bytes) \o u) = Len(cells)
      /\ \A i \in 1..Len(cells) :
           ((t \o bytes) \o u)[i] = IF i <= m THEN (t \o bytes)[i] ELSE u[i - m]
  BY <1>1, <1>3, <1>4, ConcatProperties
<1>6. ASSUME NEW i \in 1..Len(cells)
      PROVE  ((t \o bytes) \o u)[i] =
               IF i <= n THEN cells[i] ELSE IF i <= m THEN bytes[i - n] ELSE cells[i]
  <2>1. CASE i <= n
    BY <2>1, <1>1, <1>2, <1>4, <1>5
  <2>2. CASE ~(i <= n) /\ i <= m
    BY <2>2, <1>1, <1>4, <1>5
  <2>3. CASE ~(i <= m)
    <3>1. i - m \in 1..(Len(cells) - m) /\ m + (i - m) = i
      BY <2>3, <1>1
    <3>2. QED  BY <3>1, <2>3, <1>1, <1>3, <1>5
  <2>4. QED  BY <2>1, <2>2, <2>3, <1>1
<1>7. Copied(cells, n, bytes) = (t \o bytes) \o u
  BY DEF Copied, t, u
<1>8. QED  BY <1>5, <1>6, <1>7

------------------------------------------------------------------------------
(* What each function of the class does to a buffer in use.                   *)

LEMMA InUseInOrder ==
  ASSUME NEW b
  PROVE  InUse(b) <=> InOrder(b) /\ NCheapPrepend <= b.reader
  BY DEF InUse, InOrder

LEMMA WrapSizeType == ASSUME NEW n \in Nat PROVE WrapSize(n) \in Nat
  BY DEF WrapSize

LEMMA ByteZero == 0 \in Byte
  BY BufferAssumption DEF Byte

LEMMA ZerosFacts ==
  ASSUME NEW n \in Nat
  PROVE  Zeros(n) \in Seq(Byte) /\ Len(Zeros(n)) = n
<1>1. Zeros(n) \in [1..n -> Byte]
  BY ByteZero DEF Zeros
<1>2. Zeros(n) \in Seq(Byte)
  BY <1>1, SeqDef
<1>3. DOMAIN Zeros(n) = 1..n
  BY DEF Zeros
<1>4. Len(Zeros(n)) \in Nat /\ DOMAIN Zeros(n) = 1..Len(Zeros(n))
  BY <1>2, LenProperties
<1>5. QED  BY <1>2, <1>3, <1>4

\* An assertion that holds changes nothing.
LEMMA AssertHolds ==
  ASSUME NEW b, b \in BufferType, NEW c, c = TRUE
  PROVE  Assert(b, c) = b
  BY DEF Assert, BufferType

\* The constructor.
LEMMA NewBufferFacts ==
  /\ InUse(NewBuffer)
  /\ ReadableBytes(NewBuffer) = 0 /\ Contents(NewBuffer) = <<>>
  /\ NewBuffer.reader = NCheapPrepend
<1> DEFINE size == NCheapPrepend + InitialSize
<1>1. size \in Nat /\ NCheapPrepend \in Nat /\ NCheapPrepend <= size
  BY BufferAssumption
<1>2. Zeros(size) \in Seq(Byte) /\ Len(Zeros(size)) = size
  BY <1>1, ZerosFacts
<1>3. WrapSize(size) \in Nat
  BY <1>1, WrapSizeType
<1>4. NewBuffer = [cells |-> Zeros(size), capacity |-> size,
                   reader |-> NCheapPrepend, writer |-> NCheapPrepend,
                   wrapSize |-> WrapSize(size), sound |-> TRUE]
  BY DEF NewBuffer
<1> HIDE DEF size
<1>5. InUse(NewBuffer)
  BY <1>1, <1>2, <1>3, <1>4 DEF InUse, BufferType
<1>6. ReadableBytes(NewBuffer) = 0 /\ NewBuffer.reader = NCheapPrepend
  BY <1>1, <1>4 DEF ReadableBytes
<1>7. Contents(NewBuffer) \in Seq(Byte) /\ Len(Contents(NewBuffer)) = 0
  BY <1>5, <1>6, ContentsFacts, InUseInOrder DEF ReadableBytes
<1>8. QED  BY <1>5, <1>6, <1>7, EmptySeq

\* retrieve takes bytes off the front.
LEMMA RetrieveFacts ==
  ASSUME NEW b, InUse(b), NEW n \in Nat, n <= ReadableBytes(b)
  PROVE  /\ InUse(Retrieve(b, n))
         /\ ReadableBytes(Retrieve(b, n)) = ReadableBytes(b) - n
         /\ Contents(Retrieve(b, n)) = SubSeq(Contents(b), n + 1, Len(Contents(b)))
<1> DEFINE c == Contents(b)
           d == SubSeq(c, n + 1, Len(c))
           r == Retrieve(b, n)
<1>1. /\ b \in BufferType /\ b.cells \in Seq(Byte) /\ b.reader \in Nat /\ b.writer \in Nat
      /\ NCheapPrepend <= b.reader /\ b.reader <= b.writer /\ b.writer <= Len(b.cells)
      /\ ReadableBytes(b) = b.writer - b.reader
  BY DEF InUse, BufferType, ReadableBytes
<1>2. /\ c \in Seq(Byte) /\ Len(c) = b.writer - b.reader
      /\ \A i \in 1..(b.writer - b.reader) : c[i] = b.cells[b.reader + i]
  BY ContentsFacts, InUseInOrder
<1>3. /\ d \in Seq(Byte) /\ Len(d) = b.writer - b.reader - n
      /\ \A i \in 1..(b.writer - b.reader - n) : d[i] = c[n + i]
  <2> HIDE DEF c
  <2>1. n + 1 \in Nat \ {0} /\ n + 1 <= Len(c) + 1 /\ Len(c) - (n + 1) + 1 = b.writer - b.reader - n
    BY <1>1, <1>2
  <2>2. /\ d \in Seq(Byte) /\ Len(d) = Len(c) - (n + 1) + 1
        /\ \A i \in 1..(Len(c) - (n + 1) + 1) : d[i] = c[n + 1 + i - 1]
    BY <2>1, <1>1, <1>2, Slice
  <2>3. \A i \in 1..(b.writer - b.reader - n) : n + 1 + i - 1 = n + i
    BY <1>1
  <2> HIDE DEF d
  <2>4. QED  BY <2>1, <2>2, <2>3
<1> HIDE DEF c, d
<1>4. CASE n < ReadableBytes(b)
  <2>1. r = [b EXCEPT !.reader = @ + n]
    BY <1>4 DEF Retrieve
  <2>2. /\ r \in BufferType /\ r.cells = b.cells /\ r.capacity = b.capacity
        /\ r.reader = b.reader + n /\ r.writer = b.writer
        /\ r.wrapSize = b.wrapSize /\ r.sound = b.sound
    BY <2>1, <1>1 DEF BufferType
  <2> HIDE DEF r
  <2>3. InUse(r)
    BY <2>2, <1>1, <1>4, BufferAssumption DEF InUse
  <2>4. ReadableBytes(r) = ReadableBytes(b) - n
    BY <2>2, <1>1 DEF ReadableBytes
  <2>5. ASSUME NEW i \in 1..(r.writer - r.reader) PROVE r.cells[r.reader + i] = d[i]
    <3>1. i \in 1..(b.writer - b.reader - n) /\ n + i \in 1..(b.writer - b.reader)
          /\ b.reader + (n + i) = r.reader + i
      BY <2>2, <1>1
    <3>2. QED  BY <3>1, <2>2, <1>2, <1>3
  <2>6. Len(d) = r.writer - r.reader
    BY <2>2, <1>1, <1>3
  <2>7. Contents(r) = d
    BY <2>3, <2>5, <2>6, <1>3, SameContents, InUseInOrder
  <2>8. QED  BY <2>3, <2>4, <2>7 DEF r, d, c
<1>5. CASE ~(n < ReadableBytes(b))
  <2>1. Assert(b, n <= ReadableBytes(b)) = b
    BY <1>1, AssertHolds
  <2>2. r = [b EXCEPT !.reader = NCheapPrepend, !.writer = NCheapPrepend]
    BY <1>5, <2>1 DEF Retrieve, RetrieveAll
  <2>3. /\ r \in BufferType /\ r.cells = b.cells /\ r.capacity = b.capacity
        /\ r.reader = NCheapPrepend /\ r.writer = NCheapPrepend
        /\ r.wrapSize = b.wrapSize /\ r.sound = b.sound
    BY <2>2, <1>1, BufferAssumption DEF BufferType
  <2> HIDE DEF r
  <2>4. InUse(r)
    BY <2>3, <1>1, BufferAssumption, LenProperties DEF InUse
  <2>5. ReadableBytes(r) = 0 /\ n = ReadableBytes(b)
    BY <2>3, <1>1, <1>5, BufferAssumption DEF ReadableBytes
  <2>6. Len(d) = r.writer - r.reader /\ 1..(r.writer - r.reader) = {}
    BY <2>3, <2>5, <1>1, <1>3, BufferAssumption
  <2>7. Contents(r) = d
    BY <2>4, <2>6, <1>3, SameContents, InUseInOrder
  <2>8. QED  BY <2>4, <2>5, <2>7, <1>1 DEF r, d, c
<1>6. QED  BY <1>4, <1>5

\* wrapBuffer moves the bytes to the front and changes none.
LEMMA WrapFacts ==
  ASSUME NEW b, InUse(b)
  PROVE  /\ InUse(WrapBuffer(b))
         /\ Contents(WrapBuffer(b)) = Contents(b)
         /\ ReadableBytes(WrapBuffer(b)) = ReadableBytes(b)
         /\ Len(WrapBuffer(b).cells) = Len(b.cells)
         /\ WrapBuffer(b).reader = NCheapPrepend
<1> DEFINE c == Contents(b)
           r == WrapBuffer(b)
           k == Copied(b.cells, NCheapPrepend, c)
<1>1. /\ b \in BufferType /\ b.cells \in Seq(Byte) /\ b.reader \in Nat /\ b.writer \in Nat
      /\ NCheapPrepend <= b.reader /\ b.reader <= b.writer /\ b.writer <= Len(b.cells)
      /\ ReadableBytes(b) = b.writer - b.reader /\ Len(b.cells) \in Nat /\ NCheapPrepend \in Nat
  BY BufferAssumption, LenProperties DEF InUse, BufferType, ReadableBytes
<1>2. /\ c \in Seq(Byte) /\ Len(c) = b.writer - b.reader
      /\ \A i \in 1..(b.writer - b.reader) : c[i] = b.cells[b.reader + i]
  BY ContentsFacts, InUseInOrder
<1>3. CASE b.reader = NCheapPrepend
  BY <1>3, <1>1 DEF WrapBuffer
<1>4. CASE b.reader # NCheapPrepend
  <2>1. /\ k \in Seq(Byte) /\ Len(k) = Len(b.cells)
        /\ \A i \in 1..Len(b.cells) :
             k[i] = IF i <= NCheapPrepend THEN b.cells[i]
                    ELSE IF i <= NCheapPrepend + Len(c) THEN c[i - NCheapPrepend] ELSE b.cells[i]
    <3>1. NCheapPrepend + Len(c) <= Len(b.cells)
      BY <1>1, <1>2
    <3> HIDE DEF c
    <3>2. QED  BY <3>1, <1>1, <1>2, CopiedFacts
  <2>2. r = [b EXCEPT !.cells = k, !.reader = NCheapPrepend,
                      !.writer = NCheapPrepend + ReadableBytes(b)]
    BY <1>4 DEF WrapBuffer
  <2> DEFINE w == NCheapPrepend + (b.writer - b.reader)
  <2> HIDE DEF c, k
  <2>a. k \in Seq(Byte) /\ w \in Nat
    BY <2>1, <1>1
  <2>b. r = [b EXCEPT !.cells = k, !.reader = NCheapPrepend, !.writer = w]
    BY <2>2, <1>1
  <2> HIDE DEF w
  <2>3. /\ r \in BufferType /\ r.cells = k /\ r.capacity = b.capacity
        /\ r.reader = NCheapPrepend /\ r.writer = w
        /\ r.wrapSize = b.wrapSize /\ r.sound = b.sound
    BY <2>a, <2>b, <1>1 DEF BufferType
  <2> USE DEF w
  <2> HIDE DEF r
  <2>4. InUse(r)
    BY <2>1, <2>3, <1>1 DEF InUse
  <2>5. ReadableBytes(r) = ReadableBytes(b)
    BY <2>3, <1>1 DEF ReadableBytes
  <2>6. ASSUME NEW i \in 1..(r.writer - r.reader) PROVE r.cells[r.reader + i] = c[i]
    <3>1. /\ i \in 1..(b.writer - b.reader)
          /\ NCheapPrepend + i \in 1..Len(b.cells) /\ ~(NCheapPrepend + i <= NCheapPrepend)
          /\ NCheapPrepend + i <= NCheapPrepend + Len(c) /\ NCheapPrepend + i - NCheapPrepend = i
      BY <2>3, <1>1, <1>2
    <3>2. k[NCheapPrepend + i] = c[NCheapPrepend + i - NCheapPrepend]
      BY <3>1, <2>1, <1>1
    <3>3. QED  BY <3>1, <3>2, <2>3
  <2>7. Len(c) = r.writer - r.reader
    BY <2>3, <1>1, <1>2
  <2>8. Contents(r) = c
    BY <2>4, <2>6, <2>7, <1>2, SameContents, InUseInOrder
  <2>9. QED  BY <2>1, <2>3, <2>4, <2>5, <2>8 DEF r, c
<1>5. QED  BY <1>3, <1>4

\* Growing keeps the bytes where they are.
LEMMA ResizedFacts ==
  ASSUME NEW b, InUse(b), NEW size \in Nat, Len(b.cells) <= size
  PROVE  /\ InUse(Resized(b, size))
         /\ Contents(Resized(b, size)) = Contents(b)
         /\ ReadableBytes(Resized(b, size)) = ReadableBytes(b)
         /\ WritableBytes(Resized(b, size)) = size - b.writer
<1> DEFINE n == Len(b.cells)
           z == Zeros(size - n)
           k == b.cells \o z
           capacity == IF size <= b.capacity THEN b.capacity ELSE IF 2 * n > size THEN 2 * n ELSE size
           r == Resized(b, size)
<1>1. /\ b \in BufferType /\ b.cells \in Seq(Byte) /\ b.reader \in Nat /\ b.writer \in Nat
      /\ NCheapPrepend <= b.reader /\ b.reader <= b.writer /\ b.writer <= n
      /\ b.capacity \in Nat /\ n \in Nat /\ n <= b.capacity
  BY LenProperties DEF InUse, BufferType
<1>2. size - n \in Nat
  BY <1>1
<1>3. z \in Seq(Byte) /\ Len(z) = size - n
  BY <1>2, ZerosFacts
<1>4. /\ k \in Seq(Byte) /\ Len(k) = size
      /\ \A i \in 1..n : k[i] = b.cells[i]
  <2> HIDE DEF z
  <2>1. /\ k \in Seq(Byte) /\ Len(k) = n + (size - n)
        /\ \A i \in 1..(n + (size - n)) : k[i] = IF i <= n THEN b.cells[i] ELSE z[i - n]
    BY <1>1, <1>3, ConcatProperties
  <2>2. n + (size - n) = size
    BY <1>1
  <2> HIDE DEF k
  <2>3. ASSUME NEW i \in 1..n PROVE k[i] = b.cells[i]
    <3>1. i \in 1..size /\ i <= n
      BY <1>1
    <3>2. QED  BY <3>1, <2>1, <2>2
  <2>4. QED  BY <2>1, <2>2, <2>3
<1>5. capacity \in Nat /\ size <= capacity
  BY <1>1
<1>6. WrapSize(capacity) \in Nat
  BY <1>5, WrapSizeType
<1>7. r = [b EXCEPT !.cells = k, !.capacity = capacity, !.wrapSize = WrapSize(capacity)]
  BY DEF Resized
<1> HIDE DEF k, z, capacity
<1>8. /\ r \in BufferType /\ r.cells = k /\ r.capacity = capacity
      /\ r.reader = b.reader /\ r.writer = b.writer
      /\ r.wrapSize = WrapSize(capacity) /\ r.sound = b.sound
  BY <1>1, <1>4, <1>5, <1>6, <1>7 DEF BufferType
<1> HIDE DEF r
<1>9. InUse(r)
  BY <1>1, <1>4, <1>5, <1>8 DEF InUse
<1>10. ReadableBytes(r) = ReadableBytes(b) /\ WritableBytes(r) = size - b.writer
  BY <1>4, <1>8 DEF ReadableBytes, WritableBytes
<1>11. /\ Contents(b) \in Seq(Byte) /\ Len(Contents(b)) = b.writer - b.reader
       /\ \A i \in 1..(b.writer - b.reader) : Contents(b)[i] = b.cells[b.reader + i]
  BY ContentsFacts, InUseInOrder
<1>12. ASSUME NEW i \in 1..(r.writer - r.reader) PROVE r.cells[r.reader + i] = Contents(b)[i]
  <2>1. b.reader + i \in 1..n /\ i \in 1..(b.writer - b.reader)
    BY <1>1, <1>8
  <2>2. QED  BY <2>1, <1>4, <1>8, <1>11
<1>13. Contents(r) = Contents(b)
  BY <1>8, <1>9, <1>11, <1>12, SameContents, InUseInOrder
<1>14. QED  BY <1>9, <1>10, <1>13 DEF r

\* ensureWritableBytes makes room and changes no byte; the assertion of
\* makeSpace holds, because there is room in front of the data.
LEMMA EnsureFacts ==
  ASSUME NEW b, InUse(b), NEW n \in Nat
  PROVE  /\ InUse(EnsureWritableBytes(b, n))
         /\ Contents(EnsureWritableBytes(b, n)) = Contents(b)
         /\ ReadableBytes(EnsureWritableBytes(b, n)) = ReadableBytes(b)
         /\ n <= WritableBytes(EnsureWritableBytes(b, n))
<1>1. /\ b \in BufferType /\ b.cells \in Seq(Byte) /\ b.reader \in Nat /\ b.writer \in Nat
      /\ NCheapPrepend <= b.reader /\ b.reader <= b.writer /\ b.writer <= Len(b.cells)
      /\ Len(b.cells) \in Nat /\ NCheapPrepend \in Nat
  BY BufferAssumption, LenProperties DEF InUse, BufferType
<1>2. /\ ReadableBytes(b) = b.writer - b.reader /\ WritableBytes(b) = Len(b.cells) - b.writer
      /\ PrependableBytes(b) = b.reader
  BY DEF ReadableBytes, WritableBytes, PrependableBytes
<1>3. CASE n <= WritableBytes(b)
  BY <1>1, <1>2, <1>3 DEF EnsureWritableBytes
<1>4. CASE WritableBytes(b) < n /\ WritableBytes(b) + PrependableBytes(b) < n + NCheapPrepend
  <2>1. EnsureWritableBytes(b, n) = Resized(b, b.writer + n)
    BY <1>4 DEF EnsureWritableBytes, MakeSpace
  <2>2. b.writer + n \in Nat /\ Len(b.cells) <= b.writer + n /\ b.writer + n - b.writer = n
    BY <1>1, <1>2, <1>4
  <2> DEFINE size == b.writer + n
             r == Resized(b, size)
  <2>3. size \in Nat /\ Len(b.cells) <= size /\ size - b.writer = n
    BY <1>1, <2>2
  <2> HIDE DEF size
  <2>4. /\ InUse(r) /\ Contents(r) = Contents(b) /\ ReadableBytes(r) = ReadableBytes(b)
        /\ WritableBytes(r) = size - b.writer
    BY <2>3, ResizedFacts
  <2>5. n <= WritableBytes(r)
    BY <2>3, <2>4
  <2>6. QED  BY <2>1, <2>4, <2>5 DEF size
<1>5. CASE WritableBytes(b) < n /\ ~(WritableBytes(b) + PrependableBytes(b) < n + NCheapPrepend)
  <2>1. NCheapPrepend < b.reader
    BY <1>1, <1>2, <1>5
  <2>2. EnsureWritableBytes(b, n) = WrapBuffer(Assert(b, NCheapPrepend < b.reader))
    BY <1>5 DEF EnsureWritableBytes, MakeSpace
  <2>3. Assert(b, NCheapPrepend < b.reader) = b
    <3>1. (NCheapPrepend < b.reader) = TRUE
      BY <2>1
    <3>2. QED  BY <3>1, <1>1, AssertHolds
  <2> DEFINE r == WrapBuffer(b)
  <2>4. /\ InUse(r) /\ Contents(r) = Contents(b) /\ ReadableBytes(r) = ReadableBytes(b)
        /\ Len(r.cells) = Len(b.cells) /\ r.reader = NCheapPrepend
    BY WrapFacts
  <2> HIDE DEF r
  <2>5. r.writer \in Nat /\ r.writer - r.reader = ReadableBytes(b)
    BY <2>4 DEF ReadableBytes, InUse, BufferType
  <2>6. n <= WritableBytes(r)
    BY <2>4, <2>5, <1>1, <1>2, <1>5 DEF WritableBytes
  <2>7. QED  BY <2>2, <2>3, <2>4, <2>6 DEF r
<1>6. QED  BY <1>1, <1>2, <1>3, <1>4, <1>5

\* Bytes that are written behind the data, where there is room for them.
Filled(b, bytes) ==
  [b EXCEPT !.cells = Copied(@, b.writer, bytes), !.writer = @ + Len(bytes)]

LEMMA FilledFacts ==
  ASSUME NEW b, InUse(b), NEW bytes \in Seq(Byte), Len(bytes) <= WritableBytes(b)
  PROVE  /\ InUse(Filled(b, bytes))
         /\ Contents(Filled(b, bytes)) = Contents(b) \o bytes
         /\ ReadableBytes(Filled(b, bytes)) = ReadableBytes(b) + Len(bytes)
         /\ WritableBytes(Filled(b, bytes)) = WritableBytes(b) - Len(bytes)
<1> DEFINE c == Contents(b)
           k == Copied(b.cells, b.writer, bytes)
           w == b.writer + Len(bytes)
           r == Filled(b, bytes)
<1>1. /\ b \in BufferType /\ b.cells \in Seq(Byte) /\ b.reader \in Nat /\ b.writer \in Nat
      /\ NCheapPrepend <= b.reader /\ b.reader <= b.writer /\ b.writer <= Len(b.cells)
      /\ Len(b.cells) \in Nat /\ NCheapPrepend \in Nat /\ Len(bytes) \in Nat
      /\ w \in Nat /\ w <= Len(b.cells)
  BY BufferAssumption, LenProperties DEF InUse, BufferType, WritableBytes
<1>2. /\ c \in Seq(Byte) /\ Len(c) = b.writer - b.reader
      /\ \A i \in 1..(b.writer - b.reader) : c[i] = b.cells[b.reader + i]
  BY ContentsFacts, InUseInOrder
<1>3. /\ k \in Seq(Byte) /\ Len(k) = Len(b.cells)
      /\ \A i \in 1..Len(b.cells) :
           k[i] = IF i <= b.writer THEN b.cells[i]
                  ELSE IF i <= b.writer + Len(bytes) THEN bytes[i - b.writer] ELSE b.cells[i]
  BY <1>1, CopiedFacts
<1>4. r = [b EXCEPT !.cells = k, !.writer = w]
  BY DEF Filled
<1> HIDE DEF c, k, w
<1>5. /\ r \in BufferType /\ r.cells = k /\ r.capacity = b.capacity
      /\ r.reader = b.reader /\ r.writer = w
      /\ r.wrapSize = b.wrapSize /\ r.sound = b.sound
  BY <1>1, <1>3, <1>4 DEF BufferType
<1> HIDE DEF r
<1> USE DEF w
<1>6. InUse(r)
  BY <1>1, <1>3, <1>5 DEF InUse
<1>7. /\ ReadableBytes(r) = ReadableBytes(b) + Len(bytes)
      /\ WritableBytes(r) = WritableBytes(b) - Len(bytes)
  BY <1>1, <1>3, <1>5, SMTT(30) DEF ReadableBytes, WritableBytes
<1>8. /\ c \o bytes \in Seq(Byte) /\ Len(c \o bytes) = r.writer - r.reader
      /\ \A i \in 1..(r.writer - r.reader) :
           (c \o bytes)[i] = IF i <= Len(c) THEN c[i] ELSE bytes[i - Len(c)]
  <2>1. Len(c) + Len(bytes) = r.writer - r.reader
    BY <1>1, <1>2, <1>5
  <2>2. /\ c \o bytes \in Seq(Byte) /\ Len(c \o bytes) = Len(c) + Len(bytes)
        /\ \A i \in 1..(Len(c) + Len(bytes)) :
             (c \o bytes)[i] = IF i <= Len(c) THEN c[i] ELSE bytes[i - Len(c)]
    BY <1>2, ConcatProperties
  <2>3. QED  BY <2>1, <2>2
<1>9. ASSUME NEW i \in 1..(r.writer - r.reader) PROVE r.cells[r.reader + i] = (c \o bytes)[i]
  <2> DEFINE j == b.reader + i
  <2>1. j \in 1..Len(b.cells) /\ j <= w /\ j \in Nat
    BY <1>1, <1>5
  <2>2. k[j] = IF j <= b.writer THEN b.cells[j] ELSE bytes[j - b.writer]
    BY <2>1, <1>1, <1>3
  <2>3. CASE i <= Len(c)
    <3>1. i \in 1..(b.writer - b.reader) /\ j <= b.writer
      BY <2>3, <1>1, <1>2, <1>5
    <3>2. QED  BY <3>1, <2>2, <2>3, <1>2, <1>5, <1>8
  <2>4. CASE ~(i <= Len(c))
    <3>1. ~(j <= b.writer) /\ j - b.writer = i - Len(c)
      BY <2>4, <1>1, <1>2, <1>5
    <3>2. QED  BY <3>1, <2>2, <2>4, <1>5, <1>8
  <2>5. QED  BY <2>3, <2>4
<1>10. Contents(r) = c \o bytes
  BY <1>6, <1>8, <1>9, SameContents, InUseInOrder
<1>11. QED  BY <1>6, <1>7, <1>10 DEF r, c

\* append, whether there is room, has to be made by moving or by growing.
LEMMA AppendFacts ==
  ASSUME NEW b, InUse(b), NEW bytes \in Seq(Byte)
  PROVE  /\ InUse(AppendBytes(b, bytes))
         /\ Contents(AppendBytes(b, bytes)) = Contents(b) \o bytes
         /\ ReadableBytes(AppendBytes(b, bytes)) = ReadableBytes(b) + Len(bytes)
<1> DEFINE e == EnsureWritableBytes(b, Len(bytes))
<1>1. Len(bytes) \in Nat
  BY LenProperties
<1>2. /\ InUse(e) /\ Contents(e) = Contents(b) /\ ReadableBytes(e) = ReadableBytes(b)
      /\ Len(bytes) <= WritableBytes(e)
  BY <1>1, EnsureFacts
<1>3. /\ InUse(Filled(e, bytes)) /\ Contents(Filled(e, bytes)) = Contents(e) \o bytes
      /\ ReadableBytes(Filled(e, bytes)) = ReadableBytes(e) + Len(bytes)
  BY <1>2, FilledFacts
<1>4. AppendBytes(b, bytes) = Assert(Filled(e, bytes), Len(bytes) <= WritableBytes(e))
  BY DEF AppendBytes, Filled
<1>5. AppendBytes(b, bytes) = Filled(e, bytes)
  <2>1. (Len(bytes) <= WritableBytes(e)) = TRUE
    BY <1>2
  <2>2. Filled(e, bytes) \in BufferType
    BY <1>3 DEF InUse
  <2>3. QED  BY <2>1, <2>2, <1>4, AssertHolds
<1>6. QED  BY <1>2, <1>3, <1>5

\* prepend, within the room in front.
LEMMA PrependFacts ==
  ASSUME NEW b, InUse(b), NEW bytes \in Seq(Byte), Len(bytes) <= b.reader
  PROVE  Contents(Prepend(b, bytes)) = bytes \o Contents(b)
<1> DEFINE c == Contents(b)
           m == b.reader - Len(bytes)
           k == Copied(b.cells, m, bytes)
           r == Prepend(b, bytes)
<1>1. /\ b \in BufferType /\ b.cells \in Seq(Byte) /\ b.reader \in Nat /\ b.writer \in Nat
      /\ b.reader <= b.writer /\ b.writer <= Len(b.cells)
      /\ Len(b.cells) \in Nat /\ Len(bytes) \in Nat /\ m \in Nat /\ m + Len(bytes) = b.reader
  BY LenProperties DEF InUse, BufferType
<1>2. /\ c \in Seq(Byte) /\ Len(c) = b.writer - b.reader
      /\ \A i \in 1..(b.writer - b.reader) : c[i] = b.cells[b.reader + i]
  BY ContentsFacts, InUseInOrder
<1>3. Assert(b, Len(bytes) <= PrependableBytes(b)) = b
  BY <1>1, AssertHolds DEF PrependableBytes
<1>4. r = [b EXCEPT !.reader = m, !.cells = k]
  BY <1>1, <1>3 DEF Prepend
<1> HIDE DEF m
<1>5. /\ k \in Seq(Byte) /\ Len(k) = Len(b.cells)
      /\ \A i \in 1..Len(b.cells) :
           k[i] = IF i <= m THEN b.cells[i]
                  ELSE IF i <= m + Len(bytes) THEN bytes[i - m] ELSE b.cells[i]
  <2>1. m + Len(bytes) <= Len(b.cells)
    BY <1>1
  <2>2. QED  BY <2>1, <1>1, CopiedFacts
<1> HIDE DEF c, k
<1>6. /\ r \in BufferType /\ r.cells = k /\ r.capacity = b.capacity
      /\ r.reader = m /\ r.writer = b.writer
      /\ r.wrapSize = b.wrapSize /\ r.sound = b.sound
  BY <1>1, <1>4, <1>5 DEF BufferType
<1> HIDE DEF r
<1>7. InOrder(r)
  BY <1>1, <1>5, <1>6 DEF InUse, InOrder
<1>8. /\ bytes \o c \in Seq(Byte) /\ Len(bytes \o c) = r.writer - r.reader
      /\ \A i \in 1..(r.writer - r.reader) :
           (bytes \o c)[i] = IF i <= Len(bytes) THEN bytes[i] ELSE c[i - Len(bytes)]
  <2>1. Len(bytes) + Len(c) = r.writer - r.reader
    BY <1>1, <1>2, <1>6
  <2>2. /\ bytes \o c \in Seq(Byte) /\ Len(bytes \o c) = Len(bytes) + Len(c)
        /\ \A i \in 1..(Len(bytes) + Len(c)) :
             (bytes \o c)[i] = IF i <= Len(bytes) THEN bytes[i] ELSE c[i - Len(bytes)]
    BY <1>2, ConcatProperties
  <2>3. QED  BY <2>1, <2>2
<1>9. ASSUME NEW i \in 1..(r.writer - r.reader) PROVE r.cells[r.reader + i] = (bytes \o c)[i]
  <2> DEFINE j == m + i
  <2>1. j \in 1..Len(b.cells) /\ ~(j <= m)
    BY <1>1, <1>6
  <2>2. k[j] = IF j <= m + Len(bytes) THEN bytes[j - m] ELSE b.cells[j]
    BY <2>1, <1>5
  <2>3. CASE i <= Len(bytes)
    <3>1. j <= m + Len(bytes) /\ j - m = i
      BY <2>3, <1>1, <1>6
    <3>2. QED  BY <3>1, <2>2, <2>3, <1>6, <1>8
  <2>4. CASE ~(i <= Len(bytes))
    <3>1. /\ ~(j <= m + Len(bytes)) /\ i - Len(bytes) \in 1..(b.writer - b.reader)
          /\ b.reader + (i - Len(bytes)) = j
      BY <2>4, <1>1, <1>6
    <3>2. c[i - Len(bytes)] = b.cells[j]
      BY <3>1, <1>2
    <3>3. QED  BY <3>1, <3>2, <2>2, <2>4, <1>6, <1>8
  <2>5. QED  BY <2>3, <2>4
<1>10. Contents(r) = bytes \o c
  BY <1>7, <1>8, <1>9, SameContents
<1>11. QED  BY <1>10 DEF r, c

\* shrink: a new buffer with the same bytes.
LEMMA ShrinkFacts ==
  ASSUME NEW b, InUse(b), NEW reserve \in Nat
  PROVE  /\ InUse(Shrink(b, reserve))
         /\ Contents(Shrink(b, reserve)) = Contents(b)
         /\ ReadableBytes(Shrink(b, reserve)) = ReadableBytes(b)
<1> DEFINE c == Contents(b)
           e == EnsureWritableBytes(NewBuffer, ReadableBytes(b) + reserve)
           other == AppendBytes(e, c)
<1>1. /\ c \in Seq(Byte) /\ Len(c) = ReadableBytes(b) /\ ReadableBytes(b) \in Nat /\ b.sound
  BY ContentsFacts, InUseInOrder DEF ReadableBytes, InUse
<1>2. /\ InUse(e) /\ Contents(e) = <<>> /\ ReadableBytes(e) = 0
  <2>1. ReadableBytes(b) + reserve \in Nat
    BY <1>1
  <2>2. QED  BY <2>1, NewBufferFacts, EnsureFacts
<1> HIDE DEF c, e
<1>3. /\ InUse(other) /\ Contents(other) = <<>> \o c /\ ReadableBytes(other) = 0 + Len(c)
  BY <1>1, <1>2, AppendFacts
<1>4. <<>> \o c = c /\ 0 + Len(c) = Len(c)
  BY <1>1, ConcatEmptySeq
<1>5. Shrink(b, reserve) = [other EXCEPT !.wrapSize = WrapSize(other.capacity), !.sound = @ /\ b.sound]
  BY DEF Shrink, e, c
<1> HIDE DEF other
<1>6. Shrink(b, reserve) = other
  BY <1>1, <1>3, <1>5 DEF InUse, BufferType
<1>7. QED  BY <1>1, <1>3, <1>4, <1>6 DEF c

\* readvFd of as many bytes as it asks for, or fewer: all of them come after
\* what was there, those of extrabuf too.
LEMMA ReadvFacts ==
  ASSUME NEW b, InUse(b), NEW bytes \in Seq(Byte)
  PROVE  /\ InUse(ReadvFd(b, bytes))
         /\ Contents(ReadvFd(b, bytes)) = Contents(b) \o bytes
         /\ ReadableBytes(ReadvFd(b, bytes)) = ReadableBytes(b) + Len(bytes)
<1> DEFINE w == Wrapped(b)
           n == WritableBytes(w)
           first == SubSeq(bytes, 1, n)
           rest == SubSeq(bytes, n + 1, Len(bytes))
<1>1. InUse(w) /\ Contents(w) = Contents(b) /\ ReadableBytes(w) = ReadableBytes(b)
  BY WrapFacts DEF Wrapped
<1>2. n \in Nat /\ Len(bytes) \in Nat
  BY <1>1, LenProperties DEF InUse, BufferType, WritableBytes
<1> HIDE DEF w, n
<1>3. CASE Len(bytes) <= n
  <2>1. SubSeq(bytes, 1, Len(bytes)) = bytes
    BY SubSeqFull
  <2>2. ReadvFd(b, bytes) = Filled(w, bytes)
    BY <2>1, <1>3 DEF ReadvFd, Filled, w, n
  <2>3. /\ InUse(Filled(w, bytes)) /\ Contents(Filled(w, bytes)) = Contents(w) \o bytes
        /\ ReadableBytes(Filled(w, bytes)) = ReadableBytes(w) + Len(bytes)
    BY <1>1, <1>3, FilledFacts DEF n
  <2>4. QED  BY <2>2, <2>3, <1>1
<1>4. CASE ~(Len(bytes) <= n)
  <2>1. /\ first \in Seq(Byte) /\ rest \in Seq(Byte)
        /\ Len(first) = n /\ Len(rest) = Len(bytes) - n /\ first \o rest = bytes
    <3>1. n <= Len(bytes)
      BY <1>2, <1>4
    <3>2. QED  BY <3>1, <1>2, Split
  <2> DEFINE f == Filled(w, first)
  <2>2. ReadvFd(b, bytes) = AppendBytes(f, rest)
    <3>1. [w EXCEPT !.cells = Copied(@, w.writer, first), !.writer = @ + n] = f
      BY <2>1 DEF Filled
    <3> HIDE DEF f
    <3>2. QED  BY <3>1, <1>4 DEF ReadvFd, w, n
  <2> HIDE DEF first, rest
  <2>3. /\ InUse(f) /\ Contents(f) = Contents(w) \o first
        /\ ReadableBytes(f) = ReadableBytes(w) + Len(first)
    <3>1. Len(first) <= WritableBytes(w)
      BY <2>1, <1>2 DEF n
    <3>2. QED  BY <3>1, <2>1, <1>1, FilledFacts
  <2> HIDE DEF f
  <2>4. /\ InUse(AppendBytes(f, rest)) /\ Contents(AppendBytes(f, rest)) = Contents(f) \o rest
        /\ ReadableBytes(AppendBytes(f, rest)) = ReadableBytes(f) + Len(rest)
    BY <2>1, <2>3, AppendFacts
  <2>5. Contents(w) \in Seq(Byte) /\ ReadableBytes(w) \in Nat
    BY <1>1, ContentsFacts, InUseInOrder DEF ReadableBytes
  <2>6. (Contents(w) \o first) \o rest = Contents(w) \o bytes
    <3> DEFINE c == Contents(w)
    <3>1. c \in Seq(Byte) /\ first \in Seq(Byte) /\ rest \in Seq(Byte)
      BY <2>1, <2>5
    <3> HIDE DEF c
    <3>2. (c \o first) \o rest = c \o (first \o rest)
      BY <3>1, ConcatAssociative, SMTT(60)
    <3>3. QED  BY <3>2, <2>1 DEF c
  <2>7. ReadableBytes(w) + Len(first) + Len(rest) = ReadableBytes(w) + Len(bytes)
    BY <2>1, <2>5, <1>2
  <2>8. QED  BY <2>2, <2>3, <2>4, <2>6, <2>7, <1>1
<1>5. QED  BY <1>3, <1>4

------------------------------------------------------------------------------
(* Codec.                                                                     *)

\* A length has its two bytes.
LEMMA HeaderType ==
  ASSUME NEW n \in Nat, n < Lengths
  PROVE  Header(n) \in Seq(Byte) /\ Len(Header(n)) = HeaderLen
<1>1. Base \in Nat \ {0}
  BY BufferAssumption
<1> DEFINE q == n \div Base
           r == n % Base
<1>2. r \in 0..(Base - 1)
  BY <1>1
<1>3. q \in Nat /\ n = Base * q + r
  BY <1>1
<1> HIDE DEF q, r
<1>4. q < Base
  <2>1. ASSUME q >= Base PROVE FALSE
    <3>1. Base * q >= Base * Base
      BY <2>1, <1>1, <1>3
    <3>2. QED  BY <3>1, <1>1, <1>2, <1>3 DEF Lengths
  <2>2. QED  BY <2>1, <1>1, <1>3
<1>5. Header(n) = <<r, q>> /\ r \in Byte /\ q \in Byte
  BY <1>1, <1>2, <1>3, <1>4 DEF Header, Byte, q, r
<1>6. QED  BY <1>5 DEF HeaderLen

\* The packet of a message is its length and the message.
LEMMA PackFacts ==
  ASSUME NEW m \in Messages
  PROVE  Pack(m) = Header(Len(m)) \o m /\ Pack(m) \in Seq(Byte)
<1> DEFINE h == Header(Len(m))
           b == AppendBytes(NewBuffer, m)
<1>1. m \in Seq(Byte) /\ Len(m) \in Nat /\ Len(m) < Lengths
  BY CodecAssumption, LenProperties
<1>2. h \in Seq(Byte) /\ Len(h) = HeaderLen
  BY <1>1, HeaderType
<1>3. InUse(b) /\ Contents(b) = <<>> \o m
  BY <1>1, NewBufferFacts, AppendFacts
<1> HIDE DEF h, b
<1>4. Len(h) <= b.reader
  BY <1>2, <1>3, CodecAssumption, BufferAssumption DEF InUse, BufferType, HeaderLen
<1>5. Contents(Prepend(b, h)) = h \o Contents(b)
  BY <1>2, <1>3, <1>4, PrependFacts
<1>6. Contents(b) = m
  BY <1>1, <1>3, ConcatEmptySeq
<1>7. Pack(m) = h \o m
  BY <1>5, <1>6 DEF Pack, h, b
<1>8. QED  BY <1>1, <1>2, <1>7, ConcatProperties DEF h

\* Bytes that change from the second of two sequences to the first.
LEMMA Move ==
  ASSUME NEW s \in Seq(Byte), NEW t \in Seq(Byte), NEW u \in Seq(Byte), NEW v \in Seq(Byte)
  PROVE  (s \o t) \o (u \o v) = (s \o (t \o u)) \o v
<1>1. /\ s \o t \in Seq(Byte)
  BY ConcatProperties
<1>2. (s \o t) \o u = s \o (t \o u)
  BY ConcatAssociative, SMTT(60)
<1>3. ((s \o t) \o u) \o v = (s \o t) \o (u \o v)
  <2> DEFINE w == s \o t
  <2>1. w \in Seq(Byte)
    BY <1>1
  <2> HIDE DEF w
  <2>2. (w \o u) \o v = w \o (u \o v)
    BY <2>1, ConcatAssociative, SMTT(60)
  <2>3. QED  BY <2>2 DEF w
<1>4. QED  BY <1>2, <1>3

LEMMA LeastFacts ==
  ASSUME NEW a \in Nat, NEW b \in Nat
  PROVE  Least(a, b) \in Nat /\ Least(a, b) <= a /\ Least(a, b) <= b
  BY DEF Least

Inductive == WellFormed /\ BytesKept /\ taken \in Seq(Byte)

\* The facts about a state that all the steps need.
LEMMA StateFacts ==
  ASSUME Inductive
  PROVE  /\ Contents(output) \in Seq(Byte) /\ Contents(input) \in Seq(Byte)
         /\ Len(Contents(output)) = ReadableBytes(output)
         /\ Len(Contents(input)) = ReadableBytes(input)
         /\ ReadableBytes(output) \in Nat /\ ReadableBytes(input) \in Nat
         /\ Len(wire) \in Nat /\ Room \in Nat
         /\ stream = ((taken \o Contents(input)) \o wire) \o Contents(output)
<1>1. InOrder(output) /\ InOrder(input)
  BY InUseInOrder DEF Inductive, WellFormed
<1>2. /\ Contents(output) \in Seq(Byte) /\ Contents(input) \in Seq(Byte)
      /\ Len(Contents(output)) = ReadableBytes(output)
      /\ Len(Contents(input)) = ReadableBytes(input)
      /\ ReadableBytes(output) \in Nat /\ ReadableBytes(input) \in Nat
  BY <1>1, ContentsFacts DEF ReadableBytes
<1>3. Len(wire) \in Nat /\ Room \in Nat
  BY LenProperties, CodecAssumption DEF Inductive, WellFormed, Room
<1>4. QED  BY <1>2, <1>3 DEF Inductive, BytesKept

LEMMA InductiveInit == Init => Inductive
<1> SUFFICES ASSUME Init PROVE Inductive
  OBVIOUS
<1>1. InUse(output) /\ InUse(input) /\ Contents(output) = <<>> /\ Contents(input) = <<>>
  BY NewBufferFacts DEF Init
<1>2. <<>> \in Seq(Byte) /\ Len(<<>>) = 0 /\ <<>> \o <<>> = <<>>
  BY ConcatEmptySeq, EmptySeq
<1>3. WellFormed
  <2>1. wire \in Seq(Byte) /\ Len(wire) <= KernelRoom
    BY <1>2, CodecAssumption DEF Init
  <2>2. QED  BY <2>1, <1>1 DEF Init, WellFormed
<1>4. BytesKept
  BY <1>1, <1>2 DEF Init, BytesKept
<1>5. QED  BY <1>2, <1>3, <1>4 DEF Init, Inductive

\* What is the same for all steps: the parts of the invariant after a step.
LEMMA StepInductive ==
  ASSUME InUse(output'), InUse(input'), wire' \in Seq(Byte), Len(wire') <= KernelRoom,
         at' \in {"idle", "read", "onMessage", "callback"}, len' \in Nat,
         at' = "callback" => len' <= ReadableBytes(input'),
         closing' \in BOOLEAN, closed' \in BOOLEAN, taken' \in Seq(Byte),
         stream' = ((taken' \o Contents(input')) \o wire') \o Contents(output')
  PROVE  Inductive'
  BY DEF Inductive, WellFormed, BytesKept

\* Sending: what the kernel takes at once comes behind what it has, because
\* nothing waits in the buffer.
LEMMA SendStep ==
  ASSUME Inductive, NEW m \in Messages, Send(m)
  PROVE  Inductive'
<1> DEFINE p == Pack(m)
           n == IF ReadableBytes(output) = 0 THEN Least(Len(p), Room) ELSE 0
           f == SubSeq(p, 1, n)
           r == SubSeq(p, n + 1, Len(p))
           x == taken \o Contents(input)
           c == Contents(output)
<1>1. /\ c \in Seq(Byte) /\ Contents(input) \in Seq(Byte) /\ Len(c) = ReadableBytes(output)
      /\ Len(wire) \in Nat /\ Room \in Nat /\ stream = (x \o wire) \o c
  BY StateFacts
<1>2. /\ InUse(output) /\ InUse(input) /\ wire \in Seq(Byte) /\ taken \in Seq(Byte)
  BY DEF Inductive, WellFormed
<1>3. p \in Seq(Byte) /\ Len(p) \in Nat
  BY PackFacts, LenProperties
<1>4. /\ wire' = wire \o f /\ output' = AppendBytes(output, r) /\ stream' = stream \o p
      /\ UNCHANGED recvVars
  BY DEF Send
<1>5. n \in Nat /\ n <= Len(p) /\ n <= Room /\ (n = 0 \/ Len(c) = 0)
  <2>1. /\ Least(Len(p), Room) \in Nat
        /\ Least(Len(p), Room) <= Len(p) /\ Least(Len(p), Room) <= Room
    BY <1>1, <1>3, LeastFacts
  <2> HIDE DEF p, c
  <2>2. QED  BY <2>1, <1>1, <1>3
<1> HIDE DEF p, n, c
<1>6. f \in Seq(Byte) /\ r \in Seq(Byte) /\ Len(f) = n /\ f \o r = p
  BY <1>3, <1>5, Split
<1>7. x \in Seq(Byte)
  BY <1>1, <1>2, ConcatProperties
<1> HIDE DEF f, r, x
<1>8. InUse(output') /\ Contents(output') = c \o r
  BY <1>2, <1>4, <1>6, AppendFacts DEF c
<1>9. wire' \in Seq(Byte) /\ Len(wire') <= KernelRoom
  <2>1. wire \o f \in Seq(Byte) /\ Len(wire \o f) = Len(wire) + n
    BY <1>2, <1>6, ConcatProperties
  <2>2. QED  BY <2>1, <1>1, <1>4, <1>5, CodecAssumption DEF Room
<1>10. stream' = (x \o wire') \o Contents(output')
  <2>1. CASE n = 0
    <3>1. f = <<>> /\ r = p
      <4>1. f = <<>>
        BY <2>1, <1>6, EmptySeq
      <4>2. QED  BY <4>1, <1>6, ConcatEmptySeq
    <3>2. wire \o f = wire
      BY <3>1, <1>2, ConcatEmptySeq
    <3>3. x \o wire \in Seq(Byte)
      BY <1>2, <1>7, ConcatProperties
    <3>4. ((x \o wire) \o c) \o p = (x \o wire) \o (c \o p)
      <4> DEFINE y == x \o wire
      <4>1. y \in Seq(Byte) /\ c \in Seq(Byte) /\ p \in Seq(Byte)
        BY <3>3, <1>1, <1>3
      <4> HIDE DEF y
      <4>2. (y \o c) \o p = y \o (c \o p)
        BY <4>1, ConcatAssociative, SMTT(60)
      <4>3. QED  BY <4>2 DEF y
    <3>5. QED  BY <3>1, <3>2, <3>4, <1>1, <1>4, <1>8
  <2>2. CASE Len(c) = 0
    <3>1. c = <<>>
      BY <2>2, <1>1, EmptySeq
    <3>2. x \o wire \in Seq(Byte)
      BY <1>2, <1>7, ConcatProperties
    <3>3. (x \o wire) \o c = x \o wire /\ c \o r = r
      BY <3>1, <3>2, <1>6, ConcatEmptySeq
    <3>4. (x \o wire) \o (f \o r) = (x \o (wire \o f)) \o r
      <4>1. x \in Seq(Byte) /\ wire \in Seq(Byte) /\ f \in Seq(Byte) /\ r \in Seq(Byte)
        BY <1>2, <1>6, <1>7
      <4>2. \A a, b, d, e \in Seq(Byte) : (a \o b) \o (d \o e) = (a \o (b \o d)) \o e
        BY Move
      <4>3. QED  BY <4>1, <4>2, SMTT(60)
    <3>5. QED  BY <3>3, <3>4, <1>1, <1>4, <1>6, <1>8
  <2>3. QED  BY <2>1, <2>2, <1>5
<1>11. /\ input' = input /\ at' = at /\ len' = len /\ closing' = closing /\ closed' = closed
       /\ taken' = taken /\ x = taken \o Contents(input)
  BY <1>4 DEF recvVars, x
<1>12. QED  BY <1>2, <1>8, <1>9, <1>10, <1>11, StepInductive DEF Inductive, WellFormed

\* handleWrite moves bytes from the front of the buffer to the end of the wire.
LEMMA HandleWriteStep ==
  ASSUME Inductive, HandleWrite
  PROVE  Inductive'
<1> DEFINE c == Contents(output)
           n == Least(ReadableBytes(output), Room)
           f == SubSeq(c, 1, n)
           r == SubSeq(c, n + 1, Len(c))
           x == taken \o Contents(input)
<1>1. /\ c \in Seq(Byte) /\ Contents(input) \in Seq(Byte) /\ Len(c) = ReadableBytes(output)
      /\ ReadableBytes(output) \in Nat
      /\ Len(wire) \in Nat /\ Room \in Nat /\ stream = (x \o wire) \o c
  BY StateFacts
<1>2. /\ InUse(output) /\ InUse(input) /\ wire \in Seq(Byte) /\ taken \in Seq(Byte)
  BY DEF Inductive, WellFormed
<1>3. /\ wire' = wire \o f /\ output' = Retrieve(output, n) /\ stream' = stream
      /\ UNCHANGED recvVars
  BY DEF HandleWrite
<1>4. n \in Nat /\ n <= ReadableBytes(output) /\ n <= Room
  BY <1>1, LeastFacts
<1> HIDE DEF n
<1>5. InUse(output') /\ Contents(output') = r
  BY <1>2, <1>3, <1>4, RetrieveFacts
<1> HIDE DEF c
<1>6. f \in Seq(Byte) /\ r \in Seq(Byte) /\ Len(f) = n /\ f \o r = c
  BY <1>1, <1>4, Split
<1>7. x \in Seq(Byte)
  BY <1>1, <1>2, ConcatProperties
<1> HIDE DEF f, r, x
<1>8. wire' \in Seq(Byte) /\ Len(wire') <= KernelRoom
  <2>1. wire \o f \in Seq(Byte) /\ Len(wire \o f) = Len(wire) + n
    BY <1>2, <1>6, ConcatProperties
  <2>2. QED  BY <2>1, <1>1, <1>3, <1>4, CodecAssumption DEF Room
<1>9. stream' = (x \o wire') \o Contents(output')
  <2>1. (x \o wire) \o (f \o r) = (x \o (wire \o f)) \o r
    <3>1. x \in Seq(Byte) /\ wire \in Seq(Byte) /\ f \in Seq(Byte) /\ r \in Seq(Byte)
      BY <1>2, <1>6, <1>7
    <3>2. QED  BY <3>1, Move, SMTT(30)
  <2>2. QED  BY <2>1, <1>1, <1>3, <1>5, <1>6
<1>10. /\ input' = input /\ at' = at /\ len' = len /\ closing' = closing /\ closed' = closed
       /\ taken' = taken /\ x = taken \o Contents(input)
  BY <1>3 DEF recvVars, x
<1>11. QED  BY <1>2, <1>5, <1>8, <1>9, <1>10, StepInductive DEF Inductive, WellFormed

\* handleRead moves bytes from the front of the wire to the end of the buffer.
LEMMA HandleReadStep ==
  ASSUME Inductive, HandleRead
  PROVE  Inductive'
<1> DEFINE i == Contents(input)
           n == Least(Len(wire), ReadRoom(input))
           f == SubSeq(wire, 1, n)
           r == SubSeq(wire, n + 1, Len(wire))
<1>1. /\ i \in Seq(Byte) /\ Contents(output) \in Seq(Byte) /\ Len(wire) \in Nat
      /\ stream = ((taken \o i) \o wire) \o Contents(output)
  BY StateFacts
<1>2. /\ InUse(output) /\ InUse(input) /\ wire \in Seq(Byte) /\ taken \in Seq(Byte)
  BY DEF Inductive, WellFormed
<1>3. /\ input' = ReadvFd(input, f) /\ wire' = r /\ at' = "read"
      /\ UNCHANGED <<sendVars, len, closing, closed, delivered, taken>>
  BY DEF HandleRead
<1>4. n \in Nat /\ n <= Len(wire)
  <2>1. InUse(Wrapped(input))
    BY <1>2, WrapFacts DEF Wrapped
  <2>2. ReadRoom(input) \in Nat
    BY <2>1, BufferAssumption, LenProperties DEF ReadRoom, WritableBytes, InUse, BufferType
  <2>3. QED  BY <2>2, <1>1, LeastFacts
<1> HIDE DEF n
<1>5. /\ f \in Seq(Byte) /\ r \in Seq(Byte) /\ Len(r) = Len(wire) - n /\ f \o r = wire
  BY <1>2, <1>4, Split
<1> HIDE DEF f, r
<1>6. InUse(input') /\ Contents(input') = i \o f
  BY <1>2, <1>3, <1>5, ReadvFacts
<1> HIDE DEF i
<1>7. Len(wire') <= KernelRoom
  BY <1>1, <1>3, <1>4, <1>5, CodecAssumption DEF Inductive, WellFormed
<1>8. stream' = ((taken' \o Contents(input')) \o wire') \o Contents(output')
  <2>1. (taken \o i) \o (f \o r) = (taken \o (i \o f)) \o r
    <3>1. taken \in Seq(Byte) /\ i \in Seq(Byte) /\ f \in Seq(Byte) /\ r \in Seq(Byte)
      BY <1>1, <1>2, <1>5
    <3>2. QED  BY <3>1, Move, SMTT(30)
  <2>2. QED  BY <2>1, <1>1, <1>3, <1>5, <1>6 DEF sendVars
<1>9. QED  BY <1>2, <1>3, <1>5, <1>6, <1>7, <1>8, StepInductive DEF Inductive, WellFormed, sendVars

\* Bytes that onMessage takes off the front of the buffer are those that follow
\* the ones it has taken.
LEMMA Taken ==
  ASSUME Inductive, NEW n \in Nat, n <= ReadableBytes(input),
         input' = Retrieve(input, n), taken' = taken \o SubSeq(Contents(input), 1, n),
         output' = output, wire' = wire, stream' = stream
  PROVE  /\ InUse(input') /\ ReadableBytes(input') = ReadableBytes(input) - n
         /\ taken' \in Seq(Byte)
         /\ stream' = ((taken' \o Contents(input')) \o wire') \o Contents(output')
<1> DEFINE i == Contents(input)
           f == SubSeq(i, 1, n)
           r == SubSeq(i, n + 1, Len(i))
<1>1. /\ i \in Seq(Byte) /\ Len(i) = ReadableBytes(input)
      /\ stream = ((taken \o i) \o wire) \o Contents(output)
  BY StateFacts
<1>2. InUse(input) /\ taken \in Seq(Byte)
  BY DEF Inductive, WellFormed
<1>3. InUse(input') /\ ReadableBytes(input') = ReadableBytes(input) - n /\ Contents(input') = r
  BY <1>2, RetrieveFacts
<1> HIDE DEF i
<1>4. f \in Seq(Byte) /\ r \in Seq(Byte) /\ f \o r = i
  BY <1>1, Split
<1>5. taken' = taken \o f
  BY DEF i
<1> HIDE DEF f, r
<1>6. taken \o f \in Seq(Byte)
  BY <1>2, <1>4, ConcatProperties
<1>7. (taken \o f) \o r = taken \o (f \o r)
  <2>1. taken \in Seq(Byte) /\ f \in Seq(Byte) /\ r \in Seq(Byte)
    BY <1>2, <1>4
  <2>2. QED  BY <2>1, ConcatAssociative, SMTT(30)
<1>8. QED  BY <1>1, <1>3, <1>4, <1>5, <1>6, <1>7

\* A complete message leaves enough bytes for the callback.
LEMMA TakeMessageStep ==
  ASSUME Inductive, TakeMessage
  PROVE  Inductive'
<1>1. /\ Contents(input) \in Seq(Byte) /\ Len(Contents(input)) = ReadableBytes(input)
      /\ ReadableBytes(input) \in Nat
  BY StateFacts
<1>2. /\ ReadableBytes(input) >= HeaderLen /\ ReadableBytes(input) >= LengthIn(input) + HeaderLen
      /\ LengthIn(input) >= 0 /\ len' = LengthIn(input)
      /\ input' = Retrieve(input, HeaderLen)
      /\ taken' = taken \o SubSeq(Contents(input), 1, HeaderLen)
      /\ at' = "callback" /\ UNCHANGED <<sendVars, wire, closing, closed>>
  BY DEF TakeMessage, Complete
<1>3. LengthIn(input) \in Nat
  <2>1. Contents(input)[1] \in Byte /\ Contents(input)[2] \in Byte
    BY <1>1, <1>2, ElementOfSeq DEF HeaderLen
  <2>2. /\ Contents(input)[1] \in Int /\ Contents(input)[2] \in Int
        /\ Base * Contents(input)[2] \in Int /\ Lengths \in Int
    BY <2>1, BufferAssumption DEF Byte, Lengths
  <2>3. LengthIn(input) \in Int
    BY <2>2 DEF LengthIn
  <2>4. QED  BY <2>3, <1>2
<1>4. output' = output /\ stream' = stream
  BY <1>2 DEF sendVars
<1>5. /\ InUse(input') /\ ReadableBytes(input') = ReadableBytes(input) - HeaderLen
      /\ taken' \in Seq(Byte)
      /\ stream' = ((taken' \o Contents(input')) \o wire') \o Contents(output')
  <2>1. HeaderLen \in Nat /\ HeaderLen <= ReadableBytes(input)
    BY <1>1, <1>2 DEF HeaderLen
  <2>2. QED  BY <2>1, <1>2, <1>4, Taken
<1>6. len' <= ReadableBytes(input')
  BY <1>1, <1>2, <1>3, <1>5 DEF HeaderLen
<1>7. QED  BY <1>2, <1>3, <1>4, <1>5, <1>6, StepInductive DEF Inductive, WellFormed

\* After the callback the message is still there to be retrieved.
LEMMA EndMessageStep ==
  ASSUME Inductive, EndMessage
  PROVE  Inductive'
<1>1. len \in Nat /\ len <= ReadableBytes(input)
  BY DEF Inductive, WellFormed, EndMessage
<1>2. /\ input' = Retrieve(input, len) /\ taken' = taken \o SubSeq(Contents(input), 1, len)
      /\ len' = 0 /\ at' = "onMessage" /\ UNCHANGED <<sendVars, wire, closing, closed>>
  BY DEF EndMessage
<1>3. output' = output /\ stream' = stream
  BY <1>2 DEF sendVars
<1>4. /\ InUse(input') /\ taken' \in Seq(Byte)
      /\ stream' = ((taken' \o Contents(input')) \o wire') \o Contents(output')
  BY <1>1, <1>2, <1>3, Taken
<1>5. QED  BY <1>2, <1>3, <1>4, StepInductive DEF Inductive, WellFormed

\* Shrinking, in the callback as well, changes no byte.
LEMMA ShrinkStep ==
  ASSUME Inductive, ShrinkBuffers
  PROVE  Inductive'
<1>1. /\ InUse(output) /\ InUse(input) /\ wire \in Seq(Byte) /\ taken \in Seq(Byte)
      /\ stream = ((taken \o Contents(input)) \o wire) \o Contents(output)
  BY StateFacts DEF Inductive, WellFormed
<1>2. UNCHANGED <<stream, wire, at, len, closing, closed, taken>>
  BY DEF ShrinkBuffers
<1>3. CASE \E r \in Reserves : output' = Shrink(output, r) /\ UNCHANGED input
  <2>1. InUse(output') /\ Contents(output') = Contents(output)
    BY <1>1, <1>3, ShrinkFacts, CodecAssumption
  <2>2. QED  BY <2>1, <1>1, <1>2, <1>3, StepInductive DEF Inductive, WellFormed
<1>4. CASE \E r \in Reserves : input' = Shrink(input, r) /\ UNCHANGED output
  <2>1. /\ InUse(input') /\ Contents(input') = Contents(input)
        /\ ReadableBytes(input') = ReadableBytes(input)
    BY <1>1, <1>4, ShrinkFacts, CodecAssumption
  <2>2. QED  BY <2>1, <1>1, <1>2, <1>4, StepInductive DEF Inductive, WellFormed
<1>5. QED  BY <1>3, <1>4 DEF ShrinkBuffers

\* The steps that only change where the receiver is.
LEMMA OtherStep ==
  ASSUME Inductive,
         MessageCallback \/ RefuseMessage \/ AwaitMore \/ Close \/ UNCHANGED vars
  PROVE  Inductive'
<1>1. UNCHANGED <<output, stream, wire, input, len, taken>>
  BY DEF MessageCallback, RefuseMessage, AwaitMore, Close, vars, sendVars, recvVars
<1>2. /\ at' \in {"idle", "read", "onMessage", "callback"} /\ closing' \in BOOLEAN
      /\ closed' \in BOOLEAN /\ (at' = "callback" => at = "callback")
  BY DEF MessageCallback, RefuseMessage, AwaitMore, Close, vars, recvVars, Inductive, WellFormed
<1>3. QED  BY <1>1, <1>2, StepInductive DEF Inductive, WellFormed, BytesKept

LEMMA InductiveStep == Inductive /\ [Next]_vars => Inductive'
<1> SUFFICES ASSUME Inductive, [Next]_vars PROVE Inductive'
  OBVIOUS
<1>1. ASSUME NEW m \in Messages, Send(m) PROVE Inductive'
  BY <1>1, SendStep
<1>2. CASE HandleWrite
  BY <1>2, HandleWriteStep
<1>3. CASE HandleRead
  BY <1>3, HandleReadStep
<1>4. CASE TakeMessage
  BY <1>4, TakeMessageStep
<1>5. CASE EndMessage
  BY <1>5, EndMessageStep
<1>6. CASE ShrinkBuffers
  BY <1>6, ShrinkStep
<1>7. CASE MessageCallback \/ RefuseMessage \/ AwaitMore \/ Close \/ UNCHANGED vars
  BY <1>7, OtherStep
<1>8. QED  BY <1>1, <1>2, <1>3, <1>4, <1>5, <1>6, <1>7 DEF Next, OnMessage

LEMMA InductiveAlways == Spec => []Inductive
<1>1. QED  BY InductiveInit, InductiveStep, PTL DEF Spec

\* Buffer.h, Buffer.cpp and Codec.h: no assertion of a buffer ever fails and its
\* indices stay in order, for every size of buffer and every message.
THEOREM BuffersWellFormed == Spec => []WellFormed
<1>1. Inductive => WellFormed
  BY DEF Inductive
<1>2. QED  BY <1>1, InductiveAlways, PTL

\* No byte is lost, doubled or moved on the way through the two buffers, whatever
\* the pieces and whenever a buffer is wrapped, enlarged or shrunk.
THEOREM NoByteLost == Spec => []BytesKept
<1>1. Inductive => BytesKept
  BY DEF Inductive
<1>2. QED  BY <1>1, InductiveAlways, PTL

------------------------------------------------------------------------------
(* Messages.                                                                  *)

Fitting == {m \in Messages : Fits(m)}

\* After n bytes the stream has the packet of m.
PacketAt(n, m) ==
  /\ n + HeaderLen + Len(m) <= Len(stream)
  /\ \A i \in 1..(HeaderLen + Len(m)) : stream[n + i] = Pack(m)[i]

\* The packets of the messages sent follow each other in the stream, each up to
\* where "ends" says; behind them comes nothing, or a packet that is too long.
Packets(ends) ==
  /\ ends \in [0..Len(sent) -> Nat] /\ ends[0] = 0
  /\ \A k \in 1..Len(sent) :
       PacketAt(ends[k - 1], sent[k]) /\ ends[k] = ends[k - 1] + HeaderLen + Len(sent[k])
  /\ ~spoiled => Len(stream) = ends[Len(sent)]
  /\ spoiled => \E m \in Messages : ~Fits(m) /\ PacketAt(ends[Len(sent)], m)

\* The receiver is at the end of a packet, or behind the header of the one it
\* has just delivered.
Received(ends) ==
  /\ Len(delivered) <= Len(sent)
  /\ \A k \in 1..Len(delivered) : delivered[k] = sent[k]
  /\ at # "callback" => Len(taken) = ends[Len(delivered)]
  /\ at = "callback" =>
       /\ delivered # <<>> /\ len = Len(sent[Len(delivered)])
       /\ Len(taken) = ends[Len(delivered) - 1] + HeaderLen

MessagesKept ==
  /\ sent \in Seq(Fitting) /\ delivered \in Seq(Seq(Byte)) /\ spoiled \in BOOLEAN
  /\ stream \in Seq(Byte)
  /\ \E ends \in [0..Len(sent) -> Nat] : Packets(ends) /\ Received(ends)

\* The bytes of a length say the length, or a negative one if it is too long.
LEMMA HeaderRead ==
  ASSUME NEW n \in Nat, n < Lengths, NEW b,
         Contents(b)[1] = Header(n)[1], Contents(b)[2] = Header(n)[2]
  PROVE  LengthIn(b) = IF 2 * n < Lengths THEN n ELSE n - Lengths
<1>1. Base \in Nat \ {0}
  BY BufferAssumption
<1> DEFINE q == n \div Base
           r == n % Base
<1>2. r + Base * q = n
  BY <1>1
<1>3. Header(n)[1] = r /\ Header(n)[2] = q
  BY DEF Header
<1> HIDE DEF q, r
<1>4. Contents(b)[1] + Base * Contents(b)[2] = n
  BY <1>2, <1>3
<1>5. QED  BY <1>4 DEF LengthIn

\* The bytes of a packet.
LEMMA PacketBytes ==
  ASSUME NEW m \in Messages
  PROVE  /\ m \in Seq(Byte) /\ Len(m) \in Nat /\ Len(m) < Lengths
         /\ Pack(m) \in Seq(Byte) /\ Len(Pack(m)) = HeaderLen + Len(m)
         /\ Pack(m)[1] = Header(Len(m))[1] /\ Pack(m)[2] = Header(Len(m))[2]
         /\ \A i \in 1..Len(m) : Pack(m)[HeaderLen + i] = m[i]
<1>1. m \in Seq(Byte) /\ Len(m) \in Nat /\ Len(m) < Lengths
  BY CodecAssumption, LenProperties
<1> DEFINE h == Header(Len(m))
<1>2. h \in Seq(Byte) /\ Len(h) = HeaderLen
  BY <1>1, HeaderType
<1>3. Pack(m) = h \o m
  BY PackFacts
<1> HIDE DEF h
<1>4. /\ h \o m \in Seq(Byte) /\ Len(h \o m) = HeaderLen + Len(m)
      /\ \A i \in 1..(HeaderLen + Len(m)) :
           (h \o m)[i] = IF i <= HeaderLen THEN h[i] ELSE m[i - HeaderLen]
  BY <1>1, <1>2, ConcatProperties
<1>5. \A i \in 1..HeaderLen : (h \o m)[i] = h[i]
  <2> SUFFICES ASSUME NEW i \in 1..HeaderLen PROVE (h \o m)[i] = h[i]
    OBVIOUS
  <2>1. HeaderLen \in Nat /\ i \in 1..(HeaderLen + Len(m)) /\ i <= HeaderLen
    BY <1>1 DEF HeaderLen
  <2>2. QED  BY <2>1, <1>4
<1>6. \A i \in 1..Len(m) : (h \o m)[HeaderLen + i] = m[i]
  <2> SUFFICES ASSUME NEW i \in 1..Len(m) PROVE (h \o m)[HeaderLen + i] = m[i]
    OBVIOUS
  <2> DEFINE j == HeaderLen + i
  <2>1. /\ j \in 1..(HeaderLen + Len(m)) /\ ~(j <= HeaderLen)
        /\ j - HeaderLen = i
    BY <1>1 DEF HeaderLen
  <2> HIDE DEF j
  <2>2. (h \o m)[j] = m[i]
    BY <2>1, <1>4
  <2>3. QED  BY <2>2 DEF j
<1>7. (h \o m)[1] = h[1] /\ (h \o m)[2] = h[2]
  <2>1. 1 \in 1..HeaderLen /\ 2 \in 1..HeaderLen
    BY DEF HeaderLen
  <2>2. QED  BY <2>1, <1>5
<1>8. QED  BY <1>1, <1>3, <1>4, <1>6, <1>7 DEF h

\* The input buffer holds what comes in the stream behind the bytes taken.
LEMMA InputInStream ==
  ASSUME Inductive
  PROVE  /\ stream \in Seq(Byte) /\ Len(stream) \in Nat /\ Len(taken) \in Nat
         /\ ReadableBytes(input) \in Nat
         /\ Len(taken) + ReadableBytes(input) <= Len(stream)
         /\ \A i \in 1..ReadableBytes(input) : stream[Len(taken) + i] = Contents(input)[i]
<1> DEFINE c == Contents(input)
           d == Contents(output)
           n == ReadableBytes(input)
<1>1. /\ c \in Seq(Byte) /\ d \in Seq(Byte) /\ Len(c) = n /\ n \in Nat
      /\ stream = ((taken \o c) \o wire) \o d
      /\ taken \in Seq(Byte) /\ wire \in Seq(Byte)
  BY StateFacts DEF Inductive, WellFormed
<1> HIDE DEF c, d, n
<1> DEFINE x == taken \o c
           y == x \o wire
<1>2. Len(taken) \in Nat /\ Len(wire) \in Nat /\ Len(d) \in Nat
  BY <1>1, LenProperties
<1>3. /\ x \in Seq(Byte) /\ Len(x) = Len(taken) + n
      /\ \A i \in 1..(Len(taken) + n) :
           x[i] = IF i <= Len(taken) THEN taken[i] ELSE c[i - Len(taken)]
  BY <1>1, <1>2, ConcatProperties
<1> HIDE DEF x
<1>4. /\ y \in Seq(Byte) /\ Len(y) = Len(x) + Len(wire)
      /\ \A i \in 1..(Len(x) + Len(wire)) : y[i] = IF i <= Len(x) THEN x[i] ELSE wire[i - Len(x)]
  <2>1. x \in Seq(Byte) /\ wire \in Seq(Byte)
    BY <1>1, <1>3
  <2>2. QED  BY <2>1, ConcatProperties
<1> HIDE DEF y
<1>5. /\ y \o d \in Seq(Byte) /\ Len(y \o d) = Len(y) + Len(d)
      /\ \A i \in 1..(Len(y) + Len(d)) : (y \o d)[i] = IF i <= Len(y) THEN y[i] ELSE d[i - Len(y)]
  BY <1>1, <1>4, ConcatProperties
<1>6. stream = y \o d
  BY <1>1 DEF x, y
<1>7. ASSUME NEW i \in 1..n PROVE stream[Len(taken) + i] = c[i]
  <2> DEFINE j == Len(taken) + i
  <2>1. /\ j \in 1..Len(x) /\ ~(j <= Len(taken)) /\ j - Len(taken) = i
        /\ j \in 1..Len(y) /\ j <= Len(x) /\ j <= Len(y)
        /\ j \in 1..(Len(y) + Len(d))
    BY <1>1, <1>2, <1>3, <1>4
  <2> HIDE DEF j
  <2>2. x[j] = c[i]
    BY <2>1, <1>3
  <2>3. y[j] = x[j]
    BY <2>1, <1>4
  <2>4. (y \o d)[j] = y[j]
    BY <2>1, <1>5
  <2>5. QED  BY <2>2, <2>3, <2>4, <1>6 DEF j
<1>8. Len(stream) = Len(taken) + n + Len(wire) + Len(d)
  BY <1>1, <1>2, <1>3, <1>4, <1>5, <1>6
<1>9. QED  BY <1>1, <1>2, <1>5, <1>6, <1>7, <1>8 DEF c, n

\* A packet behind the bytes taken is what onMessage finds, its length first.
LEMMA InputHasPacket ==
  ASSUME Inductive, NEW m \in Messages, PacketAt(Len(taken), m),
         ReadableBytes(input) >= HeaderLen
  PROVE  /\ LengthIn(input) = IF Fits(m) THEN Len(m) ELSE Len(m) - Lengths
         /\ ReadableBytes(input) >= HeaderLen + Len(m) =>
              SubSeq(Contents(Retrieve(input, HeaderLen)), 1, Len(m)) = m
<1> DEFINE c == Contents(input)
           p == Pack(m)
           n == ReadableBytes(input)
<1>1. /\ n \in Nat /\ c \in Seq(Byte) /\ Len(c) = n
      /\ \A i \in 1..n : stream[Len(taken) + i] = c[i]
  BY InputInStream, StateFacts
<1>2. /\ m \in Seq(Byte) /\ Len(m) \in Nat /\ Len(m) < Lengths
      /\ p[1] = Header(Len(m))[1] /\ p[2] = Header(Len(m))[2]
      /\ \A i \in 1..Len(m) : p[HeaderLen + i] = m[i]
  BY PacketBytes
<1>3. \A i \in 1..(HeaderLen + Len(m)) : stream[Len(taken) + i] = p[i]
  BY DEF PacketAt
<1>4. InUse(input)
  BY DEF Inductive, WellFormed
<1> HIDE DEF p
<1>5. LengthIn(input) = IF Fits(m) THEN Len(m) ELSE Len(m) - Lengths
  <2>1. /\ 1 \in 1..n /\ 2 \in 1..n
        /\ 1 \in 1..(HeaderLen + Len(m)) /\ 2 \in 1..(HeaderLen + Len(m))
    BY <1>1, <1>2 DEF HeaderLen
  <2>2. c[1] = p[1] /\ c[2] = p[2]
    BY <2>1, <1>1, <1>3
  <2>3. c[1] = Header(Len(m))[1] /\ c[2] = Header(Len(m))[2]
    BY <2>2, <1>2
  <2>4. LengthIn(input) = IF 2 * Len(m) < Lengths THEN Len(m) ELSE Len(m) - Lengths
    BY <2>3, <1>2, HeaderRead
  <2>5. QED  BY <2>4 DEF Fits
<1>6. ASSUME n >= HeaderLen + Len(m)
      PROVE  SubSeq(Contents(Retrieve(input, HeaderLen)), 1, Len(m)) = m
  <2> DEFINE d == SubSeq(c, HeaderLen + 1, Len(c))
  <2>1. /\ HeaderLen \in Nat /\ HeaderLen <= n
        /\ HeaderLen + 1 \in Nat \ {0} /\ HeaderLen + 1 <= Len(c) + 1
    BY <1>1 DEF HeaderLen
  <2>2. Contents(Retrieve(input, HeaderLen)) = d
    BY <2>1, <1>4, RetrieveFacts
  <2> HIDE DEF c, n
  <2>3. /\ d \in Seq(Byte) /\ Len(d) = n - HeaderLen
        /\ \A i \in 1..(n - HeaderLen) : d[i] = c[HeaderLen + i]
    <3>1. Len(c) - (HeaderLen + 1) + 1 = n - HeaderLen /\ Len(c) \in Nat
      BY <2>1, <1>1
    <3>2. /\ d \in Seq(Byte) /\ Len(d) = Len(c) - (HeaderLen + 1) + 1
          /\ \A i \in 1..(Len(c) - (HeaderLen + 1) + 1) : d[i] = c[HeaderLen + 1 + i - 1]
      BY <2>1, <3>1, <1>1, Slice
    <3>3. \A i \in 1..(n - HeaderLen) : HeaderLen + 1 + i - 1 = HeaderLen + i
      BY <2>1, <1>1
    <3>4. QED  BY <3>1, <3>2, <3>3
  <2> HIDE DEF d
  <2>4. ASSUME NEW i \in 1..Len(m) PROVE d[i] = m[i]
    <3> DEFINE j == HeaderLen + i
    <3>1. i \in 1..(n - HeaderLen) /\ j \in 1..n /\ j \in 1..(HeaderLen + Len(m))
      BY <1>1, <1>2, <1>6, <2>1
    <3>2. d[i] = c[j] /\ p[j] = m[i]
      BY <3>1, <2>3, <1>2
    <3> HIDE DEF j
    <3>3. c[j] = p[j]
      BY <3>1, <1>1, <1>3
    <3>4. QED  BY <3>2, <3>3
  <2>5. Len(m) <= Len(d)
    BY <2>1, <2>3, <1>1, <1>2, <1>6
  <2>6. /\ SubSeq(d, 1, Len(m)) \in Seq(Byte) /\ Len(SubSeq(d, 1, Len(m))) = Len(m)
        /\ \A i \in 1..Len(m) : SubSeq(d, 1, Len(m))[i] = d[i]
    <3>1. 1 \in Nat \ {0} /\ 1 <= Len(m) + 1 /\ Len(m) - 1 + 1 = Len(m)
      BY <1>2
    <3>2. /\ SubSeq(d, 1, Len(m)) \in Seq(Byte)
          /\ Len(SubSeq(d, 1, Len(m))) = Len(m) - 1 + 1
          /\ \A i \in 1..(Len(m) - 1 + 1) : SubSeq(d, 1, Len(m))[i] = d[1 + i - 1]
      BY <3>1, <2>3, <2>5, <1>2, Slice
    <3>3. \A i \in 1..Len(m) : 1 + i - 1 = i
      OBVIOUS
    <3>4. QED  BY <3>1, <3>2, <3>3
  <2> DEFINE e == SubSeq(d, 1, Len(m))
  <2>7. e \in Seq(Byte) /\ Len(e) = Len(m) /\ \A i \in 1..Len(e) : e[i] = m[i]
    BY <2>4, <2>6
  <2> HIDE DEF e
  <2>8. e = m
    BY <2>7, <1>2, SeqEqual
  <2>9. QED  BY <2>2, <2>8 DEF e
<1>7. QED  BY <1>5, <1>6

\* What has been appended leaves the packets that are there.
LEMMA PacketStays ==
  ASSUME NEW n \in Nat, NEW m \in Messages, PacketAt(n, m), NEW t \in Seq(Byte),
         stream \in Seq(Byte), stream' = stream \o t
  PROVE  PacketAt(n, m)'
<1>1. Len(m) \in Nat /\ HeaderLen \in Nat
  BY PacketBytes DEF HeaderLen
<1>2. /\ Len(stream') = Len(stream) + Len(t) /\ Len(stream) \in Nat /\ Len(t) \in Nat
      /\ \A i \in 1..Len(stream) : stream'[i] = stream[i]
  BY ConcatProperties, LenProperties
<1>3. n + HeaderLen + Len(m) <= Len(stream')
  BY <1>1, <1>2 DEF PacketAt
<1>4. ASSUME NEW i \in 1..(HeaderLen + Len(m)) PROVE stream'[n + i] = Pack(m)[i]
  <2>1. n + i \in 1..Len(stream)
    BY <1>1, <1>2 DEF PacketAt
  <2>2. stream[n + i] = Pack(m)[i]
    BY DEF PacketAt
  <2>3. QED  BY <2>1, <2>2, <1>2
<1>5. QED  BY <1>3, <1>4 DEF PacketAt

\* A packet appended is where the stream ended.
LEMMA PacketAppended ==
  ASSUME NEW m \in Messages, NEW n, n = Len(stream),
         stream \in Seq(Byte), stream' = stream \o Pack(m)
  PROVE  PacketAt(n, m)' /\ Len(stream') = n + HeaderLen + Len(m)
<1> DEFINE p == Pack(m)
<1>1. Len(m) \in Nat /\ HeaderLen \in Nat /\ p \in Seq(Byte) /\ Len(p) = HeaderLen + Len(m)
  BY PacketBytes DEF HeaderLen
<1> HIDE DEF p
<1>2. stream' = stream \o p
  BY DEF p
<1>3. /\ n \in Nat /\ Len(stream \o p) = n + Len(p)
      /\ \A i \in 1..(n + Len(p)) : (stream \o p)[i] = IF i <= n THEN stream[i] ELSE p[i - n]
  BY <1>1, ConcatProperties, LenProperties
<1>4. ASSUME NEW i \in 1..(HeaderLen + Len(m)) PROVE stream'[n + i] = p[i]
  <2> DEFINE j == n + i
  <2>1. j \in 1..(n + Len(p)) /\ ~(j <= n) /\ j - n = i
    BY <1>1, <1>3
  <2> HIDE DEF j
  <2>2. (stream \o p)[j] = p[i]
    BY <2>1, <1>3
  <2>3. QED  BY <2>2, <1>2 DEF j
<1>5. Len(stream') = n + HeaderLen + Len(m)
  BY <1>1, <1>2, <1>3
<1>6. n + HeaderLen + Len(m) <= Len(stream')
  BY <1>1, <1>3, <1>5
<1>7. QED  BY <1>4, <1>5, <1>6 DEF PacketAt, p

LEMMA MessagesKeptInit == Init => MessagesKept
<1> SUFFICES ASSUME Init PROVE MessagesKept
  OBVIOUS
<1> DEFINE ends == [k \in 0..0 |-> 0]
<1>1. /\ sent = <<>> /\ delivered = <<>> /\ spoiled = FALSE /\ stream = <<>>
      /\ taken = <<>> /\ at = "idle"
  BY DEF Init
<1>2. /\ Len(sent) = 0 /\ Len(delivered) = 0 /\ Len(stream) = 0 /\ Len(taken) = 0
      /\ sent \in Seq(Fitting) /\ delivered \in Seq(Seq(Byte)) /\ stream \in Seq(Byte)
  BY <1>1, EmptySeq
<1>3. ends \in [0..0 -> Nat] /\ ends[0] = 0
  OBVIOUS
<1> HIDE DEF ends
<1>4. \A k \in 1..0 : FALSE
  OBVIOUS
<1>5. Packets(ends)
  BY <1>1, <1>2, <1>3, <1>4 DEF Packets
<1>6. Received(ends)
  BY <1>1, <1>2, <1>3, <1>4 DEF Received
<1>7. ends \in [0..Len(sent) -> Nat]
  BY <1>2, <1>3
<1>8. \E e \in [0..Len(sent) -> Nat] : Packets(e) /\ Received(e)
  BY <1>5, <1>6, <1>7
<1>9. QED  BY <1>1, <1>2, <1>8 DEF MessagesKept

\* Steps that send nothing and deliver nothing.
LEMMA NothingDelivered ==
  ASSUME MessagesKept, UNCHANGED <<sent, spoiled, stream, delivered, taken, len>>,
         at' = "callback" <=> at = "callback"
  PROVE  MessagesKept'
<1>1. PICK ends \in [0..Len(sent) -> Nat] : Packets(ends) /\ Received(ends)
  BY DEF MessagesKept
<1>2. Packets(ends)'
  <2>1. sent' = sent /\ spoiled' = spoiled /\ stream' = stream
    OBVIOUS
  <2>2. QED  BY <2>1, <1>1 DEF Packets, PacketAt
<1>3. Received(ends)'
  BY <1>1 DEF Received
<1>4. \E e \in [0..Len(sent') -> Nat] : Packets(e)' /\ Received(e)'
  BY <1>1, <1>2, <1>3
<1>5. QED  BY <1>4 DEF MessagesKept

LEMMA TakenLonger ==
  ASSUME Inductive, NEW n \in Nat, n <= ReadableBytes(input),
         taken' = taken \o SubSeq(Contents(input), 1, n)
  PROVE  Len(taken') = Len(taken) + n
<1> DEFINE f == SubSeq(Contents(input), 1, n)
<1>1. f \in Seq(Byte) /\ Len(f) = n
  BY StateFacts, Split
<1>2. taken \in Seq(Byte)
  BY DEF Inductive
<1> HIDE DEF f
<1>3. Len(taken \o f) = Len(taken) + n
  BY <1>1, <1>2, ConcatProperties
<1>4. QED  BY <1>3 DEF f

\* After the callback the receiver is at the end of the packet.
LEMMA EndMessageKeeps ==
  ASSUME Inductive, MessagesKept, EndMessage
  PROVE  MessagesKept'
<1>1. PICK ends \in [0..Len(sent) -> Nat] : Packets(ends) /\ Received(ends)
  BY DEF MessagesKept
<1> DEFINE d == Len(delivered)
<1>2. /\ at = "callback" /\ at' = "onMessage" /\ taken' = taken \o SubSeq(Contents(input), 1, len)
      /\ UNCHANGED <<sent, spoiled, stream, delivered>>
  BY DEF EndMessage, sendVars
<1>3. len \in Nat /\ len <= ReadableBytes(input)
  BY <1>2 DEF Inductive, WellFormed
<1>4. Len(taken') = Len(taken) + len
  BY <1>2, <1>3, TakenLonger
<1>5. /\ delivered # <<>> /\ len = Len(sent[d]) /\ Len(taken) = ends[d - 1] + HeaderLen
      /\ d <= Len(sent) /\ \A k \in 1..d : delivered[k] = sent[k]
  BY <1>1, <1>2 DEF Received
<1>6. d \in 1..Len(sent) /\ Len(sent) \in Nat
  BY <1>5, EmptySeq, LenProperties DEF MessagesKept
<1> HIDE DEF d
<1>7. ends[d] = ends[d - 1] + HeaderLen + Len(sent[d])
  BY <1>1, <1>6 DEF Packets
<1>8. Len(taken') = ends[d]
  BY <1>4, <1>5, <1>7
<1>9. Received(ends)'
  BY <1>2, <1>5, <1>8 DEF Received, d
<1>10. Packets(ends)'
  <2>1. sent' = sent /\ spoiled' = spoiled /\ stream' = stream
    BY <1>2
  <2>2. QED  BY <2>1, <1>1 DEF Packets, PacketAt
<1>11. \E e \in [0..Len(sent') -> Nat] : Packets(e)' /\ Received(e)'
  BY <1>1, <1>2, <1>9, <1>10
<1>12. QED  BY <1>2, <1>11 DEF MessagesKept

\* A complete packet of a length that is not negative is the next message.
LEMMA NextMessage ==
  ASSUME Inductive, MessagesKept, TakeMessage,
         NEW ends \in [0..Len(sent) -> Nat], Packets(ends), Received(ends)
  PROVE  /\ Len(delivered) + 1 \in 1..Len(sent)
         /\ delivered' = Append(delivered, sent[Len(delivered) + 1])
         /\ len' = Len(sent[Len(delivered) + 1])
         /\ Len(taken') = ends[Len(delivered)] + HeaderLen
<1> DEFINE d == Len(delivered)
           l == Len(sent)
<1>1. /\ at = "onMessage" /\ ReadableBytes(input) >= HeaderLen
      /\ ReadableBytes(input) >= LengthIn(input) + HeaderLen
      /\ LengthIn(input) >= 0 /\ len' = LengthIn(input)
      /\ delivered' = Append(delivered, SubSeq(Contents(Retrieve(input, HeaderLen)), 1, len'))
      /\ taken' = taken \o SubSeq(Contents(input), 1, HeaderLen)
  BY DEF TakeMessage, Complete
<1>2. d \in Nat /\ l \in Nat /\ d <= l
  BY LenProperties DEF MessagesKept, Received
<1>3. Len(taken) = ends[d]
  BY <1>1 DEF Received
<1>4. HeaderLen \in Nat \ {0}
  BY DEF HeaderLen
<1>5. ReadableBytes(input) \in Nat /\ Len(taken) + ReadableBytes(input) <= Len(stream)
      /\ Len(taken) \in Nat /\ Len(stream) \in Nat
  BY InputInStream
<1> HIDE DEF d, l
<1>6. d < l
  <2> SUFFICES ASSUME d = l PROVE FALSE
    BY <1>2
  <2>1. CASE ~spoiled
    <3>1. Len(stream) = Len(taken)
      BY <2>1, <1>3 DEF Packets, l
    <3>2. QED  BY <3>1, <1>1, <1>4, <1>5
  <2>2. CASE spoiled
    <3>1. PICK m \in Messages : ~Fits(m) /\ PacketAt(ends[l], m)
      BY <2>2 DEF Packets, l
    <3>2. PacketAt(Len(taken), m)
      BY <3>1, <1>3
    <3>3. LengthIn(input) = Len(m) - Lengths
      BY <3>1, <3>2, <1>1, InputHasPacket
    <3>4. Len(m) \in Nat /\ Len(m) < Lengths
      BY PacketBytes
    <3>5. Lengths \in Int
      BY BufferAssumption DEF Lengths
    <3>6. QED  BY <3>3, <3>4, <3>5, <1>1
  <2>3. QED  BY <2>1, <2>2
<1>7. d + 1 \in 1..l /\ d + 1 - 1 = d
  BY <1>2, <1>6
<1>8. PICK m \in Fitting : m = sent[d + 1]
  BY <1>7, ElementOfSeq DEF MessagesKept, l
<1>9. PacketAt(Len(taken), m)
  <2>1. \A k \in 1..l : PacketAt(ends[k - 1], sent[k])
    BY DEF Packets, l
  <2>2. PICK e \in Nat : e = d + 1 /\ e - 1 = d
    BY <1>2
  <2>3. e \in 1..l /\ ends[e - 1] = Len(taken) /\ sent[e] = m
    BY <2>2, <1>3, <1>7, <1>8
  <2>4. PacketAt(ends[e - 1], sent[e])
    BY <2>1, <2>3
  <2>5. QED  BY <2>3, <2>4
<1>10. m \in Messages /\ Fits(m)
  BY DEF Fitting
<1>11. LengthIn(input) = Len(m)
  BY <1>1, <1>9, <1>10, InputHasPacket
<1>12. Len(m) \in Nat
  BY <1>10, PacketBytes
<1>13. ReadableBytes(input) >= HeaderLen + Len(m)
  BY <1>1, <1>4, <1>11, <1>12
<1>14. SubSeq(Contents(Retrieve(input, HeaderLen)), 1, Len(m)) = m
  BY <1>1, <1>9, <1>10, <1>13, InputHasPacket
<1>15. Len(taken') = Len(taken) + HeaderLen
  BY <1>1, <1>4, TakenLonger
<1>16. /\ len' = Len(sent[d + 1]) /\ delivered' = Append(delivered, sent[d + 1])
  BY <1>1, <1>8, <1>11, <1>14
<1>17. QED  BY <1>3, <1>7, <1>15, <1>16 DEF d, l

LEMMA TakeMessageKeeps ==
  ASSUME Inductive, MessagesKept, TakeMessage
  PROVE  MessagesKept'
<1>1. PICK ends \in [0..Len(sent) -> Nat] : Packets(ends) /\ Received(ends)
  BY DEF MessagesKept
<1> DEFINE d == Len(delivered)
<1>2. /\ d + 1 \in 1..Len(sent) /\ delivered' = Append(delivered, sent[d + 1])
      /\ len' = Len(sent[d + 1]) /\ Len(taken') = ends[d] + HeaderLen
  BY <1>1, NextMessage
<1>3. at' = "callback" /\ UNCHANGED <<sent, spoiled, stream>>
  BY DEF TakeMessage, sendVars
<1>4. /\ delivered \in Seq(Seq(Byte)) /\ d \in Nat
      /\ \A k \in 1..d : delivered[k] = sent[k]
  BY <1>1, LenProperties DEF MessagesKept, Received
<1> HIDE DEF d
<1>5. sent[d + 1] \in Seq(Byte)
  <2>1. sent[d + 1] \in Fitting
    BY <1>2, ElementOfSeq DEF MessagesKept
  <2>2. QED  BY <2>1, PacketBytes DEF Fitting
<1>6. /\ delivered' \in Seq(Seq(Byte)) /\ Len(delivered') = d + 1
      /\ \A k \in 1..d : delivered'[k] = delivered[k]
      /\ delivered'[d + 1] = sent[d + 1]
  BY <1>2, <1>4, <1>5, AppendProperties DEF d
<1>7. \A k \in 1..(d + 1) : delivered'[k] = sent[k]
  <2> SUFFICES ASSUME NEW k \in 1..(d + 1) PROVE delivered'[k] = sent[k]
    OBVIOUS
  <2>1. CASE k = d + 1
    BY <2>1, <1>6
  <2>2. CASE k # d + 1
    <3>1. k \in 1..d
      BY <2>2, <1>4
    <3>2. QED  BY <3>1, <1>4, <1>6
  <2>3. QED  BY <2>1, <2>2
<1>8. delivered' # <<>>
  BY <1>4, <1>6, EmptySeq
<1>9. d + 1 - 1 = d /\ d + 1 <= Len(sent)
  BY <1>2, <1>4
<1>10. Received(ends)'
  <2>1. PICK e : e = d + 1
    OBVIOUS
  <2>2. /\ Len(delivered') = e /\ e <= Len(sent) /\ e - 1 = d /\ delivered' # <<>>
        /\ \A k \in 1..e : delivered'[k] = sent[k]
        /\ len' = Len(sent[e]) /\ Len(taken') = ends[d] + HeaderLen
        /\ at' = "callback" /\ sent' = sent
    <3>1. Len(delivered') = e /\ e <= Len(sent) /\ e - 1 = d /\ delivered' # <<>>
      BY <2>1, <1>4, <1>6, <1>8, <1>9
    <3>2. \A k \in 1..e : delivered'[k] = sent[k]
      BY <2>1, <1>7
    <3>3. len' = Len(sent[e]) /\ Len(taken') = ends[d] + HeaderLen
      BY <2>1, <1>2
    <3>4. QED  BY <3>1, <3>2, <3>3, <1>3
  <2>3. QED  BY <2>2 DEF Received
<1>11. Packets(ends)'
  <2>1. sent' = sent /\ spoiled' = spoiled /\ stream' = stream
    BY <1>3
  <2>2. QED  BY <2>1, <1>1 DEF Packets, PacketAt
<1>12. \E e \in [0..Len(sent') -> Nat] : Packets(e)' /\ Received(e)'
  BY <1>1, <1>3, <1>10, <1>11
<1>13. QED  BY <1>3, <1>6, <1>12 DEF MessagesKept

\* Sending puts a packet behind all the others.
LEMMA SendKeeps ==
  ASSUME Inductive, MessagesKept, NEW m \in Messages, Send(m)
  PROVE  MessagesKept'
<1>1. PICK ends \in [0..Len(sent) -> Nat] : Packets(ends) /\ Received(ends)
  BY DEF MessagesKept
<1>2. /\ stream' = stream \o Pack(m) /\ spoiled' = (spoiled \/ ~Fits(m))
      /\ sent' = IF spoiled' THEN sent ELSE Append(sent, m)
      /\ UNCHANGED recvVars
  BY DEF Send
<1>3. /\ sent \in Seq(Fitting) /\ delivered \in Seq(Seq(Byte)) /\ spoiled \in BOOLEAN
      /\ stream \in Seq(Byte)
  BY DEF MessagesKept
<1>4. Pack(m) \in Seq(Byte) /\ HeaderLen \in Nat /\ Len(m) \in Nat
  BY PacketBytes DEF HeaderLen
<1> DEFINE L == Len(sent)
<1>5. PICK n \in Nat : n = Len(stream)
  BY <1>3, LenProperties
<1>6. /\ stream' \in Seq(Byte)
      /\ PacketAt(n, m)' /\ Len(stream') = n + HeaderLen + Len(m)
  BY <1>2, <1>3, <1>4, <1>5, ConcatProperties, PacketAppended
<1>7. \A i \in Nat : \A x \in Messages : PacketAt(i, x) => PacketAt(i, x)'
  BY <1>2, <1>3, <1>4, PacketStays
<1>8. PICK l \in Nat : l = Len(sent)
  BY <1>3, LenProperties
<1>9. /\ ends \in [0..l -> Nat] /\ ends[0] = 0
      /\ \A k \in 1..l :
           PacketAt(ends[k - 1], sent[k]) /\ ends[k] = ends[k - 1] + HeaderLen + Len(sent[k])
  BY <1>1, <1>8 DEF Packets
<1>10. ASSUME NEW k \in 1..l, NEW x, x = sent[k]
       PROVE  PacketAt(ends[k - 1], x)' /\ x \in Fitting
  <2>1. x \in Messages /\ x \in Fitting
    BY <1>3, <1>8, <1>10, ElementOfSeq DEF Fitting
  <2>2. ends[k - 1] \in Nat
    BY <1>8, <1>9
  <2>3. PacketAt(ends[k - 1], x)
    BY <1>9, <1>10
  <2>4. QED  BY <2>1, <2>2, <2>3, <1>7
<1>11. /\ Len(delivered) <= l
       /\ \A k \in 1..Len(delivered) : delivered[k] = sent[k]
       /\ at # "callback" => Len(taken) = ends[Len(delivered)]
       /\ at = "callback" =>
            /\ delivered # <<>> /\ len = Len(sent[Len(delivered)])
            /\ Len(taken) = ends[Len(delivered) - 1] + HeaderLen
  BY <1>1, <1>8 DEF Received
<1>12. /\ delivered' = delivered /\ at' = at /\ taken' = taken /\ len' = len
  BY <1>2 DEF recvVars
<1>13. CASE spoiled'
  <2>1. sent' = sent
    BY <1>2, <1>13
  <2>2. \A k \in 1..l : PacketAt(ends[k - 1], sent[k])'
    <3> SUFFICES ASSUME NEW k \in 1..l PROVE PacketAt(ends[k - 1], sent[k])'
      OBVIOUS
    <3>1. PICK x : x = sent[k]
      OBVIOUS
    <3>2. PacketAt(ends[k - 1], x)'
      BY <3>1, <1>10
    <3>3. QED  BY <3>1, <3>2, <2>1
  <2>3. \E x \in Messages : ~Fits(x) /\ PacketAt(ends[l], x)'
    <3>1. CASE spoiled
      <4>1. PICK x \in Messages : ~Fits(x) /\ PacketAt(ends[l], x)
        BY <3>1, <1>1, <1>8 DEF Packets
      <4>2. ends[l] \in Nat
        BY <1>8, <1>9
      <4>3. QED  BY <4>1, <4>2, <1>7
    <3>2. CASE ~spoiled
      <4>1. n = ends[l]
        BY <3>2, <1>1, <1>5, <1>8 DEF Packets
      <4>2. ~Fits(m)
        BY <3>2, <1>2, <1>13
      <4>3. QED  BY <4>1, <4>2, <1>6
    <3>3. QED  BY <3>1, <3>2
  <2>4. Packets(ends)'
    <3>1. Len(sent') = l
      BY <2>1, <1>8
    <3>2. QED  BY <3>1, <2>1, <2>2, <2>3, <1>9, <1>13 DEF Packets
  <2>5. Received(ends)'
    <3>1. Len(sent') = l
      BY <2>1, <1>8
    <3>2. QED  BY <3>1, <2>1, <1>11, <1>12 DEF Received
  <2>6. \E e \in [0..Len(sent') -> Nat] : Packets(e)' /\ Received(e)'
    BY <2>1, <2>4, <2>5, <1>1
  <2>7. spoiled' \in BOOLEAN
    BY <1>2, <1>3
  <2>8. QED  BY <2>1, <2>6, <2>7, <1>3, <1>6, <1>12 DEF MessagesKept
<1>14. CASE ~spoiled'
  <2>1. ~spoiled /\ Fits(m) /\ sent' = Append(sent, m)
    BY <1>2, <1>14
  <2>2. m \in Fitting
    BY <2>1 DEF Fitting
  <2>3. /\ sent' \in Seq(Fitting) /\ Len(sent') = l + 1 /\ sent'[l + 1] = m
        /\ \A k \in 1..l : sent'[k] = sent[k]
    BY <2>1, <2>2, <1>3, <1>8, AppendProperties
  <2>4. PICK e : e = [k \in 0..(l + 1) |-> IF k <= l THEN ends[k] ELSE n + HeaderLen + Len(m)]
    OBVIOUS
  <2>5. \A k \in 0..l : e[k] = ends[k] /\ ends[k] \in Nat
    BY <2>4, <1>8, <1>9
  <2>6. e[l + 1] = n + HeaderLen + Len(m)
    BY <2>4, <1>8
  <2>7. e \in [0..(l + 1) -> Nat]
    BY <2>4, <1>4, <1>5, <1>8, <1>9
  <2>8. n = ends[l]
    BY <2>1, <1>1, <1>5, <1>8 DEF Packets
  <2>9. ASSUME NEW k \in 1..(l + 1)
        PROVE  PacketAt(e[k - 1], sent[k])' /\ e[k] = e[k - 1] + HeaderLen + Len(sent'[k])
    <3>1. CASE k = l + 1
      <4>1. e[k - 1] = n
        BY <3>1, <2>5, <2>8, <1>8
      <4>2. PacketAt(e[k - 1], m)'
        BY <4>1, <1>6
      <4>3. QED  BY <3>1, <4>1, <4>2, <2>3, <2>6
    <3>2. CASE k # l + 1
      <4>1. k \in 1..l
        BY <3>2, <1>8
      <4>2. PICK x : x = sent[k]
        OBVIOUS
      <4>3. PacketAt(ends[k - 1], x)'
        BY <4>1, <4>2, <1>10
      <4>4. e[k - 1] = ends[k - 1] /\ e[k] = ends[k] /\ sent'[k] = x
        BY <4>1, <4>2, <2>3, <2>5, <1>8
      <4>5. ends[k] = ends[k - 1] + HeaderLen + Len(x)
        BY <4>1, <4>2, <1>9
      <4>6. QED  BY <4>3, <4>4, <4>5
    <3>3. QED  BY <3>1, <3>2
  <2>10. Packets(e)'
    <3>1. e[0] = 0 /\ Len(stream') = e[Len(sent')]
      BY <2>3, <2>5, <2>6, <1>6, <1>8, <1>9
    <3>2. QED  BY <3>1, <2>3, <2>7, <2>9, <1>14 DEF Packets
  <2>11. Received(e)'
    <3> DEFINE d == Len(delivered)
    <3>1. d \in Nat /\ d <= l
      BY <1>3, <1>11, LenProperties
    <3>2. \A k \in 1..d : sent'[k] = sent[k] /\ k \in 1..l
      BY <3>1, <2>3, <1>8
    <3>3. e[d] = ends[d]
      BY <3>1, <2>5, <1>8
    <3>4. delivered # <<>> => d \in 1..d /\ e[d - 1] = ends[d - 1]
      <4> SUFFICES ASSUME delivered # <<>> PROVE d \in 1..d /\ e[d - 1] = ends[d - 1]
        OBVIOUS
      <4>1. d # 0
        BY <1>3, EmptySeq
      <4>2. d \in 1..d /\ d - 1 \in 0..l
        BY <4>1, <3>1, <1>8
      <4>3. QED  BY <4>2, <2>5
    <3>5. Len(delivered') = d /\ delivered' = delivered
      BY <1>12
    <3>6. /\ \A k \in 1..d : delivered[k] = sent[k]
          /\ at # "callback" => Len(taken) = ends[d]
          /\ at = "callback" =>
               /\ delivered # <<>> /\ len = Len(sent[d])
               /\ Len(taken) = ends[d - 1] + HeaderLen
      BY <1>11
    <3> HIDE DEF d
    <3>7. d <= Len(sent') /\ \A k \in 1..d : delivered'[k] = sent'[k]
      BY <3>1, <3>2, <3>5, <3>6, <2>3, <1>8
    <3>8. at' # "callback" => Len(taken') = e[d]
      BY <3>3, <3>6, <1>12
    <3>9. at' = "callback" =>
            delivered' # <<>> /\ len' = Len(sent'[d]) /\ Len(taken') = e[d - 1] + HeaderLen
      BY <3>2, <3>4, <3>5, <3>6, <1>12
    <3>10. QED  BY <3>5, <3>7, <3>8, <3>9 DEF Received
  <2>12. \E f \in [0..Len(sent') -> Nat] : Packets(f)' /\ Received(f)'
    BY <2>3, <2>7, <2>10, <2>11
  <2>13. spoiled' \in BOOLEAN
    BY <1>14
  <2>14. QED  BY <2>3, <2>12, <2>13, <1>3, <1>6, <1>12 DEF MessagesKept
<1>15. QED  BY <1>13, <1>14

LEMMA MessagesKeptStep == Inductive /\ MessagesKept /\ [Next]_vars => MessagesKept'
<1> SUFFICES ASSUME Inductive, MessagesKept, [Next]_vars PROVE MessagesKept'
  OBVIOUS
<1>1. ASSUME NEW m \in Messages, Send(m) PROVE MessagesKept'
  BY <1>1, SendKeeps
<1>2. CASE TakeMessage
  BY <1>2, TakeMessageKeeps
<1>3. CASE EndMessage
  BY <1>3, EndMessageKeeps
<1>4. CASE HandleWrite \/ HandleRead
  <2>1. /\ UNCHANGED <<sent, spoiled, stream, delivered, taken, len>>
        /\ at' = "callback" <=> at = "callback"
    BY <1>4 DEF HandleWrite, HandleRead, sendVars, recvVars
  <2>2. QED  BY <2>1, NothingDelivered
<1>5. CASE MessageCallback \/ RefuseMessage \/ AwaitMore
  <2>1. /\ UNCHANGED <<sent, spoiled, stream, delivered, taken, len>>
        /\ at' = "callback" <=> at = "callback"
    BY <1>5 DEF MessageCallback, RefuseMessage, AwaitMore, sendVars
  <2>2. QED  BY <2>1, NothingDelivered
<1>6. CASE Close \/ ShrinkBuffers \/ UNCHANGED vars
  <2>1. /\ UNCHANGED <<sent, spoiled, stream, delivered, taken, len>>
        /\ at' = "callback" <=> at = "callback"
    BY <1>6 DEF Close, ShrinkBuffers, vars, sendVars, recvVars
  <2>2. QED  BY <2>1, NothingDelivered
<1>7. QED  BY <1>1, <1>2, <1>3, <1>4, <1>5, <1>6 DEF Next, OnMessage

LEMMA MessagesKeptAlways == Spec => [](Inductive /\ MessagesKept)
<1>1. QED  BY InductiveInit, InductiveStep, MessagesKeptInit, MessagesKeptStep, PTL DEF Spec

------------------------------------------------------------------------------
(* Codec implements ByteStream.                                               *)

\* Messages with their numbers.
LEMMA NumberedFacts ==
  ASSUME NEW S, NEW s \in Seq(S)
  PROVE  /\ Numbered(s) \in Seq(Nat \X S) /\ Len(Numbered(s)) = Len(s) /\ Len(s) \in Nat
         /\ \A i \in 1..Len(s) : Numbered(s)[i] = <<i, s[i]>>
<1>1. Len(s) \in Nat /\ DOMAIN s = 1..Len(s) /\ \A i \in 1..Len(s) : s[i] \in S
  BY LenProperties, ElementOfSeq
<1>2. Numbered(s) = [i \in 1..Len(s) |-> <<i, s[i]>>]
  BY <1>1 DEF Numbered
<1>3. \A i \in 1..Len(s) : <<i, s[i]>> \in Nat \X S
  BY <1>1
<1>4. QED  BY <1>1, <1>2, <1>3, IsASeq, LenProperties

\* A sequence of messages that is the beginning of another one is so with its numbers.
LEMMA NumberedPrefix ==
  ASSUME NEW S, NEW p \in Seq(S), NEW s \in Seq(S), Len(p) <= Len(s),
         \A k \in 1..Len(p) : p[k] = s[k]
  PROVE  MS!IsPrefix(Numbered(p), Numbered(s))
<1> DEFINE u == Numbered(p)
           v == Numbered(s)
           w == SubSeq(v, 1, Len(u))
<1>1. /\ u \in Seq(Nat \X S) /\ Len(u) = Len(p) /\ Len(p) \in Nat
      /\ v \in Seq(Nat \X S) /\ Len(v) = Len(s) /\ Len(s) \in Nat
      /\ \A i \in 1..Len(p) : u[i] = <<i, p[i]>>
      /\ \A i \in 1..Len(s) : v[i] = <<i, s[i]>>
  BY NumberedFacts
<1> HIDE DEF u, v
<1>2. ASSUME NEW i \in 1..Len(u) PROVE u[i] = v[i]
  <2>1. i \in 1..Len(p) /\ i \in 1..Len(s)
    BY <1>1
  <2>2. u[i] = <<i, p[i]>> /\ v[i] = <<i, s[i]>> /\ p[i] = s[i]
    BY <1>1, <2>1
  <2>3. QED  BY <2>2, Zenon
<1>3. /\ w \in Seq(Nat \X S) /\ Len(w) = Len(u) - 1 + 1
      /\ \A i \in 1..(Len(u) - 1 + 1) : w[i] = v[1 + i - 1]
  <2>1. 1 \in Nat \ {0} /\ 1 <= Len(u) + 1 /\ Len(u) <= Len(v) /\ Len(u) \in Nat
    BY <1>1
  <2>2. QED  BY <1>1, <2>1, Slice
<1>4. Len(w) = Len(u) /\ \A i \in 1..Len(u) : w[i] = u[i]
  BY <1>1, <1>2, <1>3
<1> HIDE DEF w
<1>5. w = u
  BY <1>1, <1>3, <1>4, SeqEqual
<1>6. SubSeq(u, 1, Len(u)) = u
  BY <1>1, SubSeqFull
<1>7. QED  BY <1>1, <1>5, <1>6 DEF MS!IsPrefix, u, v, w

\* One message more.
LEMMA NumberedAppend ==
  ASSUME NEW S, NEW s \in Seq(S), NEW m \in S
  PROVE  Numbered(s \o <<m>>) = Numbered(s) \o <<<<Len(s) + 1, m>>>>
<1> DEFINE t == s \o <<m>>
           u == Numbered(s)
           e == <<Len(s) + 1, m>>
           v == u \o <<e>>
<1>1. Len(s) \in Nat /\ u \in Seq(Nat \X S) /\ Len(u) = Len(s) /\ \A i \in 1..Len(s) : u[i] = <<i, s[i]>>
  BY NumberedFacts
<1>2. e \in Nat \X S /\ <<e>> \in Seq(Nat \X S) /\ <<m>> \in Seq(S)
  BY <1>1
<1>3. /\ t \in Seq(S) /\ Len(t) = Len(s) + 1 /\ t[Len(s) + 1] = m
      /\ \A i \in 1..Len(s) : t[i] = s[i]
  BY <1>1
<1> HIDE DEF u, e
<1>4. /\ v \in Seq(Nat \X S) /\ Len(v) = Len(s) + 1 /\ v[Len(s) + 1] = e
      /\ \A i \in 1..Len(s) : v[i] = u[i]
  BY <1>1, <1>2
<1> HIDE DEF t, v
<1>5. /\ Numbered(t) \in Seq(Nat \X S) /\ Len(Numbered(t)) = Len(s) + 1
      /\ \A i \in 1..Len(s) + 1 : Numbered(t)[i] = <<i, t[i]>>
  BY <1>3, NumberedFacts
<1>6. \A i \in 1..Len(s) + 1 : Numbered(t)[i] = v[i]
  <2>1. Numbered(t)[Len(s) + 1] = v[Len(s) + 1]
    <3>1. Len(s) + 1 \in 1..Len(s) + 1
      BY <1>1
    <3>2. Numbered(t)[Len(s) + 1] = <<Len(s) + 1, t[Len(s) + 1]>>
      BY <1>5, <3>1
    <3>3. QED  BY <1>3, <1>4, <3>2, Zenon DEF e
  <2>2. ASSUME NEW i \in 1..Len(s) PROVE Numbered(t)[i] = v[i]
    <3>1. i \in 1..Len(s) + 1
      BY <1>1
    <3>2. Numbered(t)[i] = <<i, t[i]>> /\ u[i] = <<i, s[i]>>
      BY <1>1, <1>5, <3>1
    <3>3. t[i] = s[i] /\ v[i] = u[i]
      BY <1>3, <1>4
    <3>4. QED  BY <3>2, <3>3, Zenon
  <2>3. QED  BY <1>1, <2>1, <2>2
<1>7. Numbered(t) = v
  BY <1>1, <1>4, <1>5, <1>6, SeqEqual
<1>8. QED  BY <1>7 DEF t, v, e, u

\* The messages accepted are not more than the calls of send().
Counted == sends \in 0..MaxSends /\ Len(sent) <= sends

\* What a step does to the histories.
LEMMA HistoryStep ==
  ASSUME Inductive, MessagesKept, [Next]_vars
  PROVE  /\ \/ sent' = sent /\ sends' = sends
            \/ /\ sends < MaxSends /\ sends' = sends + 1
               /\ sent' = sent \/ \E m \in Fitting : sent' = sent \o <<m>>
         /\ delivered' = delivered \/ \E m : delivered' = Append(delivered, m)
         /\ closed \in BOOLEAN /\ (closed => closed')
<1>0. closed \in BOOLEAN
  BY DEF Inductive, WellFormed
<1>1. ASSUME NEW m \in Messages, Send(m)
      PROVE  /\ sends < MaxSends /\ sends' = sends + 1
             /\ sent' = sent \/ \E x \in Fitting : sent' = sent \o <<x>>
             /\ delivered' = delivered /\ (closed => closed')
  <2>1. /\ spoiled' = (spoiled \/ ~Fits(m)) /\ sent' = IF spoiled' THEN sent ELSE Append(sent, m)
        /\ delivered' = delivered /\ closed' = closed
        /\ sends < MaxSends /\ sends' = sends + 1
    BY <1>1 DEF Send, recvVars
  <2>2. CASE spoiled'
    BY <2>1, <2>2
  <2>3. CASE ~spoiled'
    <3>1. m \in Fitting /\ sent' = Append(sent, m)
      BY <2>1, <2>3 DEF Fitting
    <3>2. Append(sent, m) = sent \o <<m>>
      BY <3>1, AppendIsConcat DEF MessagesKept
    <3>3. QED  BY <3>1, <3>2, <2>1
  <2>4. QED  BY <2>2, <2>3
<1>2. CASE TakeMessage
  BY <1>0, <1>2 DEF TakeMessage, sendVars
<1>3. CASE Close
  BY <1>0, <1>3 DEF Close, sendVars
<1>4. CASE HandleWrite \/ HandleRead
  BY <1>0, <1>4 DEF HandleWrite, HandleRead, sendVars, recvVars
<1>5. CASE MessageCallback \/ RefuseMessage \/ AwaitMore \/ EndMessage
  BY <1>0, <1>5 DEF MessageCallback, RefuseMessage, AwaitMore, EndMessage, sendVars
<1>6. CASE ShrinkBuffers \/ UNCHANGED vars
  BY <1>0, <1>6 DEF ShrinkBuffers, vars, sendVars, recvVars
<1>7. QED  BY <1>0, <1>1, <1>2, <1>3, <1>4, <1>5, <1>6 DEF Next, OnMessage

\* Codec.h: whatever the pieces in which the bytes come, the callbacks get the
\* messages sent, each once and in order, and nothing after one that is too long
\* for its header.
THEOREM CodecImplementsByteStream == Spec => ImplementsMessageStream
<1> DEFINE Kept == Inductive /\ MessagesKept
<1>1. Init => MS!Init /\ Counted
  <2> SUFFICES ASSUME Init PROVE MS!Init /\ Counted
    OBVIOUS
  <2>1. sent = <<>> /\ delivered = <<>> /\ closed = FALSE /\ sends = 0
    BY DEF Init
  <2>2. Numbered(<<>>) = <<>>
    <3>1. <<>> \in Seq({})
      OBVIOUS
    <3>2. Numbered(<<>>) \in Seq(Nat \X {}) /\ Len(Numbered(<<>>)) = 0
      BY <3>1, NumberedFacts
    <3>3. QED  BY <3>2, EmptySeq
  <2>3. QED  BY <2>1, <2>2, CodecAssumption DEF MS!Init, Counted
<1>2. Kept /\ Counted /\ [Next]_vars => Counted'
  <2> SUFFICES ASSUME Inductive, MessagesKept, Counted, [Next]_vars PROVE Counted'
    OBVIOUS
  <2>1. sent \in Seq(Fitting) /\ Len(sent) \in Nat /\ MaxSends \in Nat
    BY LenProperties, CodecAssumption DEF MessagesKept
  <2>2. \A m \in Fitting : Len(sent \o <<m>>) = Len(sent) + 1
    BY <2>1
  <2>3. \/ sent' = sent /\ sends' = sends
        \/ /\ sends < MaxSends /\ sends' = sends + 1
           /\ sent' = sent \/ \E m \in Fitting : sent' = sent \o <<m>>
    BY HistoryStep
  <2>4. \/ sends' = sends /\ Len(sent') = Len(sent)
        \/ sends < MaxSends /\ sends' = sends + 1 /\ Len(sent') <= Len(sent) + 1
    <3>1. ASSUME sent' = sent \/ \E m \in Fitting : sent' = sent \o <<m>>
          PROVE  Len(sent') <= Len(sent) + 1
      <4>1. CASE sent' = sent
        BY <2>1, <4>1
      <4>2. ASSUME NEW m \in Fitting, sent' = sent \o <<m>> PROVE Len(sent') <= Len(sent) + 1
        <5>1. Len(sent \o <<m>>) <= Len(sent) + 1
          BY <2>1, <2>2
        <5>2. QED  BY <4>2, <5>1, Zenon
      <4>3. QED  BY <3>1, <4>1, <4>2, Zenon
    <3>2. CASE sent' = sent /\ sends' = sends
      BY <3>2
    <3>3. CASE sends < MaxSends /\ sends' = sends + 1
      BY <2>3, <3>1, <3>3
    <3>4. QED  BY <2>3, <3>2, <3>3
  <2>5. sends \in 0..MaxSends /\ Len(sent) <= sends
    BY DEF Counted
  <2>6. sends' \in 0..MaxSends /\ Len(sent') <= sends'
    <3>1. CASE sends' = sends /\ Len(sent') = Len(sent)
      BY <2>5, <3>1
    <3>2. CASE sends < MaxSends /\ sends' = sends + 1 /\ Len(sent') <= Len(sent) + 1
      <4>1. Len(sent') \in Nat
        BY <2>1, <2>2, <2>3
      <4>2. QED  BY <2>1, <2>5, <3>2, <4>1
    <3>3. QED  BY <2>4, <3>1, <3>2
  <2>7. QED  BY <2>6 DEF Counted
<1>3. Kept /\ Kept' /\ Counted /\ [Next]_vars => [MS!Next]_(MS!vars)
  <2> SUFFICES ASSUME Inductive, MessagesKept, MessagesKept', Counted, [Next]_vars PROVE MS!Next
    OBVIOUS
  <2> DEFINE state == IF closed THEN "abandoned" ELSE "open"
             nextState == IF closed' THEN "abandoned" ELSE "open"
             words == {<<<<i, m>>>> : i \in 1..MaxSends, m \in {x \in Messages : Fits(x)}}
  <2>1. /\ sent \in Seq(Fitting) /\ delivered \in Seq(Seq(Byte))
        /\ Len(sent) \in Nat /\ Len(delivered) \in Nat
    BY LenProperties DEF MessagesKept
  <2>2. /\ sent' \in Seq(Seq(Byte)) /\ delivered' \in Seq(Seq(Byte))
        /\ Len(delivered') <= Len(sent') /\ \A k \in 1..Len(delivered') : delivered'[k] = sent'[k]
    <3>1. Fitting \subseteq Seq(Byte)
      BY CodecAssumption DEF Fitting
    <3>2. sent' \in Seq(Fitting)
      BY DEF MessagesKept
    <3>3. sent' \in Seq(Seq(Byte))
      BY <3>1, <3>2, SeqMonotonic
    <3>4. QED  BY <3>3 DEF MessagesKept, Received
  <2>3. /\ \/ sent' = sent /\ sends' = sends
           \/ /\ sends < MaxSends /\ sends' = sends + 1
              /\ sent' = sent \/ \E m \in Fitting : sent' = sent \o <<m>>
        /\ delivered' = delivered \/ \E m : delivered' = Append(delivered, m)
        /\ closed \in BOOLEAN /\ (closed => closed')
    BY HistoryStep
  <2>4. MS!IsPrefix(Numbered(delivered), Numbered(delivered'))
    <3>1. Len(delivered) <= Len(delivered') /\ \A k \in 1..Len(delivered) : delivered[k] = delivered'[k]
      <4>1. ASSUME NEW m, delivered' = Append(delivered, m)
            PROVE  Len(delivered) <= Len(delivered') /\ \A k \in 1..Len(delivered) : delivered[k] = delivered'[k]
        BY <2>1, <4>1
      <4>2. QED  BY <2>1, <2>3, <4>1
    <3>2. QED  BY <2>1, <2>2, <3>1, NumberedPrefix
  <2>5. MS!IsPrefix(Numbered(delivered'), Numbered(sent'))
    BY <2>2, NumberedPrefix
  <2>6. ASSUME NEW m \in Fitting, sends < MaxSends, sent' = sent \o <<m>>
        PROVE  \E w \in words : /\ \A j \in DOMAIN Numbered(sent), k \in DOMAIN w : Numbered(sent)[j] # w[k]
                                /\ Numbered(sent') = Numbered(sent) \o w
    <3> DEFINE n == Len(sent) + 1
               w == <<<<n, m>>>>
    <3>1. n \in 1..MaxSends
      BY <2>1, <2>6, CodecAssumption DEF Counted
    <3>2. w \in words
      BY <3>1 DEF Fitting
    <3>3. \A j \in DOMAIN Numbered(sent) : Numbered(sent)[j][1] # n
      <4>1. DOMAIN Numbered(sent) = 1..Len(sent)
        BY <2>1, NumberedFacts, LenProperties
      <4>2. ASSUME NEW j \in 1..Len(sent) PROVE Numbered(sent)[j][1] = j
        <5>1. Numbered(sent)[j] = <<j, sent[j]>>
          BY <2>1, NumberedFacts
        <5>2. QED  BY <5>1
      <4>3. QED  BY <2>1, <4>1, <4>2
    <3>4. \A k \in DOMAIN w : w[k] = <<n, m>>
      OBVIOUS
    <3>5. Numbered(sent') = Numbered(sent) \o w
      BY <2>1, <2>6, NumberedAppend
    <3> HIDE DEF w, n, words
    <3>6. \A j \in DOMAIN Numbered(sent), k \in DOMAIN w : Numbered(sent)[j] # w[k]
      BY <3>3, <3>4
    <3>7. QED  BY <3>2, <3>5, <3>6
  <2> HIDE DEF state, nextState, words
  <2>7. nextState = state \/ nextState = "abandoned"
    BY <2>3 DEF state, nextState
  <2>8. \/ Numbered(sent') = Numbered(sent)
        \/ /\ state # "ended"
           /\ \E w \in words : /\ \A j \in DOMAIN Numbered(sent), k \in DOMAIN w : Numbered(sent)[j] # w[k]
                              /\ Numbered(sent') = Numbered(sent) \o w
    <3>1. state # "ended"
      BY DEF state
    <3>2. QED  BY <2>3, <2>6, <3>1
  <2>9. Numbered(sent') = Numbered(sent) \/ \E w \in words : MS!Accept(w)
    BY <2>8 DEF MS!Accept, state
  <2>10. QED
    BY <2>4, <2>5, <2>7, <2>9 DEF MS!Next, state, nextState, words
<1>4. Spec => []Kept
  BY MessagesKeptAlways
<1>5. QED  BY <1>1, <1>2, <1>3, <1>4, PTL DEF Spec, ImplementsMessageStream, MS!Spec
=============================================================================

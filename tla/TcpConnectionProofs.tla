------------------------- MODULE TcpConnectionProofs -------------------------
(***************************************************************************)
(* What TcpConnection.tla guarantees for any threads, message sizes,       *)
(* kernel buffer and high water mark, proved.                              *)
(***************************************************************************)
EXTENDS TcpConnection, SequenceTheorems, TLAPS

USE TcpConnectionAssumption DEF TcpConnectionAssumption

Byte == Threads \X (1..MaxSends) \X (1..MessageSize)
Functor == [op : {"send"}, msg : Users \X (1..MaxSends)] \cup [op : {"shutdown", "forceClose"}]

\* Only other threads queue messages, and one that is about to has one left.
QueueInv ==
  /\ functors \in Seq(Functor)
  /\ userAt \in [Users -> {"idle", "send", "shutdown"}]
  /\ \A u \in Users : userAt[u] = "send" => numSent[u] < MaxSends

\* A write side that is shut leaves nothing behind in the output buffer.
ShutInv == shut /\ ~closed => output = <<>>

TInv == TypeOK /\ QueueInv
WInv == WriterAgrees /\ ShutInv

Stream == wire \o output

IsSend(j) == functors[j].op = "send"

\* Messages of a thread are numbered as sent: what is in the stream comes before
\* what is queued, which is queued once, and nothing is beyond the thread's count.
StreamCounted == \A i \in DOMAIN Stream : Stream[i][2] <= numSent[Stream[i][1]]
QueueCounted ==
  \A j \in DOMAIN functors : IsSend(j) => functors[j].msg[2] <= numSent[functors[j].msg[1]]
QueueOrder ==
  \A j, k \in DOMAIN functors :
    j < k /\ IsSend(j) /\ IsSend(k) /\ functors[j].msg[1] = functors[k].msg[1]
      => functors[j].msg[2] < functors[k].msg[2]
StreamFirst ==
  \A i \in DOMAIN Stream, j \in DOMAIN functors :
    IsSend(j) /\ functors[j].msg[1] = Stream[i][1] => Stream[i][2] < functors[j].msg[2]

------------------------------------------------------------------------------
(* Sequences: what writing a part and keeping the rest does.                  *)

\* The bytes of a message carry its thread and number, and there is at least one.
LEMMA MessageBytes ==
  ASSUME NEW t \in Threads, NEW n \in 1..MaxSends
  PROVE  /\ Message(t, n) \in Seq(Byte)
         /\ Len(Message(t, n)) = MessageSize
         /\ \A i \in 1..MessageSize : Message(t, n)[i] = <<t, n, i>>
         /\ Message(t, n) \in Messages
<1>1. \A i \in 1..MessageSize : <<t, n, i>> \in Byte
  BY DEF Byte
<1>2. Message(t, n) \in [1..MessageSize -> Byte]
  BY <1>1 DEF Message
<1>3. Message(t, n) \in Seq(Byte)
  BY <1>2, SeqDef
<1>4. Len(Message(t, n)) = MessageSize
  BY <1>2, <1>3, LenProperties
<1>5. QED  BY <1>3, <1>4 DEF Message, Messages

\* A sequence is its first k elements and the others.
LEMMA Split ==
  ASSUME NEW S, NEW s \in Seq(S), NEW k \in 0..Len(s)
  PROVE  /\ SubSeq(s, 1, k) \in Seq(S) /\ Len(SubSeq(s, 1, k)) = k
         /\ SubSeq(s, k + 1, Len(s)) \in Seq(S) /\ Len(SubSeq(s, k + 1, Len(s))) = Len(s) - k
         /\ SubSeq(s, 1, k) \o SubSeq(s, k + 1, Len(s)) = s
<1>0. Len(s) \in Nat /\ k \in Nat
  BY LenProperties
<1>1. \A i \in 1..Len(s) : s[i] \in S
  BY ElementOfSeq
<1>2. /\ SubSeq(s, 1, k) \in Seq(S)
      /\ Len(SubSeq(s, 1, k)) = k
  BY <1>0, <1>1, SubSeqProperties
<1>3. /\ SubSeq(s, k + 1, Len(s)) \in Seq(S)
      /\ Len(SubSeq(s, k + 1, Len(s))) = Len(s) - k
  BY <1>0, <1>1, SubSeqProperties
<1>4. SubSeq(s, 1, k) \o SubSeq(s, k + 1, Len(s)) = SubSeq(s, 1, Len(s))
  <2>1. 1 \in 1..(Len(s) + 1) /\ k \in (1 - 1)..Len(s) /\ Len(s) \in k..Len(s)
    BY <1>0
  <2>2. QED  BY <2>1, ConcatAdjacentSubSeq
<1>5. QED  BY <1>2, <1>3, <1>4, SubSeqFull

\* Writing k bytes of what waits does not change the stream.
LEMMA MoveOn ==
  ASSUME NEW S, NEW s \in Seq(S), NEW t \in Seq(S), NEW k \in 0..Len(t)
  PROVE  (s \o SubSeq(t, 1, k)) \o SubSeq(t, k + 1, Len(t)) = s \o t
<1> DEFINE a == SubSeq(t, 1, k)
           b == SubSeq(t, k + 1, Len(t))
<1>1. a \in Seq(S) /\ b \in Seq(S)
  BY Split
<1>2. a \o b = t
  BY Split
<1> HIDE DEF a, b
<1>3. (s \o a) \o b = s \o (a \o b)
  BY <1>1, ConcatAssociative
<1>4. (s \o a) \o b = s \o t
  BY <1>2, <1>3
<1>5. QED  BY <1>4 DEF a, b

\* A sequence is a prefix of itself with more behind it.
LEMMA PrefixOfConcat ==
  ASSUME NEW S, NEW s \in Seq(S), NEW t \in Seq(S)
  PROVE  IsPrefix(s, s \o t)
<1> DEFINE u == s \o t
<1>1. /\ u \in Seq(S) /\ Len(u) = Len(s) + Len(t) /\ Len(s) \in Nat /\ Len(t) \in Nat
      /\ \A i \in 1..Len(s) : u[i] = s[i]
  BY ConcatProperties, LenProperties
<1> HIDE DEF u
<1>2. \A i \in 1..Len(u) : u[i] \in S
  BY <1>1, ElementOfSeq
<1>3. /\ SubSeq(u, 1, Len(s)) \in Seq(S) /\ Len(SubSeq(u, 1, Len(s))) = Len(s)
      /\ \A i \in 1..Len(s) : SubSeq(u, 1, Len(s))[i] = u[i]
  <2>1. Len(s) \in 0..Len(u)
    BY <1>1
  <2>2. QED  BY <1>1, <1>2, <2>1, SubSeqProperties
<1>4. SubSeq(u, 1, Len(s)) = s
  BY <1>1, <1>3, SeqEqual
<1>5. Len(s) <= Len(u) /\ SubSeq(s, 1, Len(s)) = s
  BY <1>1, SubSeqFull
<1>6. QED  BY <1>4, <1>5 DEF IsPrefix, u

------------------------------------------------------------------------------
(* What the two writers do.                                                   *)

\* sendInLoop leaves everything as it is or puts the whole message behind the
\* stream, and buffer, channel and callbacks agree as they did.
LEMMA SendEffect ==
  ASSUME TypeOK, NEW t \in Threads, NEW n \in 1..MaxSends, SendInLoop(t, n)
  PROVE  \/ UNCHANGED sendVars
         \/ /\ wire' \in Seq(Byte) /\ output' \in Seq(Byte)
            /\ wire' \o output' = Stream \o Message(t, n)
            /\ IsPrefix(wire, wire')
            /\ inKernel' \in 0..Capacity /\ inKernel' <= Len(wire')
            /\ completed' \in 0..Len(wire')
            /\ writing' \in BOOLEAN /\ marked' \in BOOLEAN
            /\ state # "disconnected"
            /\ shut => writing \/ output # <<>>
            /\ WriterAgrees /\ ~closed => /\ writing' <=> output' # <<>>
                                          /\ output' = <<>> => completed' = Len(wire')
                                          /\ Len(output') >= HighWaterMark => marked'
<1> SUFFICES ASSUME ~UNCHANGED sendVars
             PROVE  /\ wire' \in Seq(Byte) /\ output' \in Seq(Byte)
                    /\ wire' \o output' = Stream \o Message(t, n)
                    /\ IsPrefix(wire, wire')
                    /\ inKernel' \in 0..Capacity /\ inKernel' <= Len(wire')
                    /\ completed' \in 0..Len(wire')
                    /\ writing' \in BOOLEAN /\ marked' \in BOOLEAN
                    /\ state # "disconnected"
                    /\ shut => writing \/ output # <<>>
                    /\ WriterAgrees /\ ~closed => /\ writing' <=> output' # <<>>
                                                  /\ output' = <<>> => completed' = Len(wire')
                                                  /\ Len(output') >= HighWaterMark => marked'
  OBVIOUS
<1> DEFINE msg == Message(t, n)
           direct == ~writing /\ output = <<>>
           k == IF direct /\ ~WriteFails THEN Least(Len(msg), Room) ELSE 0
           part == SubSeq(msg, 1, k)
           rest == SubSeq(msg, k + 1, Len(msg))
<1>0. /\ inKernel \in 0..Capacity /\ inKernel <= Len(wire) /\ completed \in 0..Len(wire)
      /\ writing \in BOOLEAN /\ marked \in BOOLEAN
  BY DEF TypeOK
<1>1. msg \in Seq(Byte) /\ Len(msg) = MessageSize
  BY MessageBytes
<1>2. /\ state # "disconnected" /\ ~(direct /\ WriteFails)
      /\ wire' = wire \o part
      /\ inKernel' = inKernel + k
      /\ output' = output \o rest
      /\ writing' = (writing \/ rest # <<>>)
      /\ completed' = IF rest = <<>> THEN Len(wire') ELSE completed
      /\ marked' = (marked \/ (Len(output) + Len(rest) >= HighWaterMark /\ Len(output) < HighWaterMark))
  BY Zenon DEF SendInLoop
<1>3. wire \in Seq(Byte) /\ output \in Seq(Byte) /\ Len(wire) \in Nat /\ Len(output) \in Nat
  BY LenProperties DEF TypeOK, Byte
<1>4. k \in 0..Len(msg) /\ inKernel + k <= Capacity
  BY <1>0, <1>1 DEF Least, Room
<1> HIDE DEF k, msg
<1>5. /\ part \in Seq(Byte) /\ Len(part) = k
      /\ rest \in Seq(Byte) /\ Len(rest) = MessageSize - k
      /\ part \o rest = msg
  BY <1>1, <1>4, Split
<1> HIDE DEF part, rest
<1>6. /\ wire' \in Seq(Byte) /\ Len(wire') = Len(wire) + k
      /\ output' \in Seq(Byte) /\ Len(output') = Len(output) + (MessageSize - k)
  BY <1>2, <1>3, <1>5, ConcatProperties
<1>7. wire' \o output' = Stream \o msg
  <2>1. CASE output = <<>>
    <3>1. output' = rest /\ Stream = wire
      BY <1>2, <1>3, <1>5, <2>1, ConcatEmptySeq DEF Stream
    <3>2. wire \in Seq(Byte) /\ part \in Seq(Byte) /\ rest \in Seq(Byte)
      BY <1>3, <1>5
    <3>3. (wire \o part) \o rest = wire \o (part \o rest)
      BY <3>2, ConcatAssociative
    <3>4. wire' \o output' = (wire \o part) \o rest
      BY <1>2, <3>1
    <3>5. part \o rest = msg
      BY <1>5
    <3>6. QED  BY <3>1, <3>3, <3>4, <3>5
  <2>2. CASE output # <<>>
    <3>1. k = 0
      BY <2>2 DEF k
    <3>2. part = <<>>
      BY <1>1, <3>1, SubSeqEmpty DEF part
    <3>3. rest = msg
      BY <1>1, <1>5, <3>2, ConcatEmptySeq
    <3>4. wire' = wire
      BY <1>2, <1>3, <3>2, ConcatEmptySeq
    <3>5. (wire \o output) \o msg = wire \o (output \o msg)
      BY <1>1, <1>3, ConcatAssociative
    <3>6. QED  BY <1>2, <3>3, <3>4, <3>5 DEF Stream
  <2>3. QED  BY <2>1, <2>2
<1>8. k \in Nat /\ inKernel' \in 0..Capacity /\ inKernel' <= Len(wire')
  BY <1>0, <1>1, <1>2, <1>3, <1>4, <1>6
<1>9. completed' \in 0..Len(wire')
  <2>1. completed' = Len(wire') \/ completed' = completed
    BY <1>2
  <2>2. QED  BY <2>1, <1>0, <1>3, <1>6, <1>8
<1>10. shut => writing \/ output # <<>>
  BY <1>2 DEF WriteFails
<1>11. ASSUME WriterAgrees, ~closed
       PROVE  /\ writing' <=> output' # <<>>
              /\ output' = <<>> => completed' = Len(wire')
              /\ Len(output') >= HighWaterMark => marked'
  <2>1. output' = <<>> <=> output = <<>> /\ rest = <<>>
    BY <1>2, <1>3, <1>5, ConcatEqualIffEmpty
  <2>2. writing <=> output # <<>>
    BY <1>11 DEF WriterAgrees
  <2>3. writing' <=> output' # <<>>
    BY <1>2, <2>1, <2>2
  <2>4. Len(output') >= HighWaterMark => marked'
    <3>1. Len(output') = Len(output) + Len(rest) /\ Len(rest) \in Nat
      BY <1>3, <1>4, <1>5, <1>6, <1>1
    <3>2. Len(output) >= HighWaterMark => marked
      BY <1>11 DEF WriterAgrees
    <3>3. marked \/ (Len(output) + Len(rest) >= HighWaterMark /\ Len(output) < HighWaterMark) => marked'
      BY <1>2
    <3>4. QED  BY <1>3, <3>1, <3>2, <3>3
  <2>5. QED  BY <1>2, <2>1, <2>3, <2>4
<1>12. writing' \in BOOLEAN /\ marked' \in BOOLEAN
  BY <1>0, <1>2
<1>13. IsPrefix(wire, wire')
  BY <1>2, <1>3, <1>5, PrefixOfConcat
<1>14. QED
  BY <1>2, <1>6, <1>7, <1>8, <1>9, <1>10, <1>11, <1>12, <1>13 DEF msg

\* handleWrite of a socket that takes data moves some of the output buffer to
\* the wire; nothing is left exactly when all that was accepted is reported.
LEMMA WriteEffect ==
  ASSUME TypeOK, HandleWrite, ~WriteFails
  PROVE  /\ wire' \in Seq(Byte) /\ output' \in Seq(Byte)
         /\ wire' \o output' = Stream
         /\ IsPrefix(wire, wire')
         /\ inKernel' \in 0..Capacity /\ inKernel' <= Len(wire')
         /\ completed' \in 0..Len(wire')
         /\ writing' \in BOOLEAN /\ marked' \in BOOLEAN
         /\ shut' = (shut \/ (output' = <<>> /\ state = "disconnecting"))
         /\ UNCHANGED <<state, reading, closed>>
         /\ writing' <=> output' # <<>>
         /\ output' = <<>> => completed' = Len(wire')
         /\ WriterAgrees /\ ~closed => (Len(output') >= HighWaterMark => marked')
<1> DEFINE k == Least(Len(output), Room)
<1>0. /\ inKernel \in 0..Capacity /\ inKernel <= Len(wire) /\ completed \in 0..Len(wire)
      /\ writing \in BOOLEAN /\ marked \in BOOLEAN
  BY DEF TypeOK
<1>1. /\ Room > 0
      /\ wire' = wire \o SubSeq(output, 1, k)
      /\ inKernel' = inKernel + k
      /\ output' = SubSeq(output, k + 1, Len(output))
      /\ writing' = (output' # <<>>)
      /\ completed' = IF output' = <<>> THEN Len(wire') ELSE completed
      /\ marked' = (marked /\ Len(output') >= HighWaterMark)
      /\ shut' = (shut \/ (output' = <<>> /\ state = "disconnecting"))
      /\ UNCHANGED <<state, reading, closed>>
  BY Zenon DEF HandleWrite
<1>2. wire \in Seq(Byte) /\ output \in Seq(Byte) /\ Len(wire) \in Nat /\ Len(output) \in Nat
  BY LenProperties DEF TypeOK, Byte
<1>3. k \in 0..Len(output) /\ inKernel + k <= Capacity
  BY <1>0, <1>1, <1>2 DEF Least, Room
<1> HIDE DEF k
<1>4. /\ SubSeq(output, 1, k) \in Seq(Byte) /\ Len(SubSeq(output, 1, k)) = k
      /\ output' \in Seq(Byte) /\ Len(output') = Len(output) - k
  BY <1>1, <1>2, <1>3, Split
<1>5. wire' \in Seq(Byte) /\ Len(wire') = Len(wire) + k
  BY <1>1, <1>2, <1>4, ConcatProperties
<1>6. wire' \o output' = Stream
  BY <1>1, <1>2, <1>3, MoveOn DEF Stream
<1>7. inKernel' \in 0..Capacity /\ inKernel' <= Len(wire')
  BY <1>0, <1>1, <1>2, <1>3, <1>5
<1>8. completed' \in 0..Len(wire')
  <2>1. completed' = Len(wire') \/ completed' = completed
    BY <1>1
  <2>2. QED  BY <2>1, <1>0, <1>2, <1>3, <1>5
<1>9. WriterAgrees /\ ~closed => (Len(output') >= HighWaterMark => marked')
  <2>1. Len(output') <= Len(output) /\ Len(output') \in Nat
    BY <1>2, <1>3, <1>4
  <2>2. WriterAgrees /\ ~closed => (Len(output) >= HighWaterMark => marked)
    BY DEF WriterAgrees
  <2>3. marked /\ Len(output') >= HighWaterMark => marked'
    BY <1>1
  <2>4. QED  BY <1>2, <2>1, <2>2, <2>3
<1>10. IsPrefix(wire, wire') /\ writing' \in BOOLEAN /\ marked' \in BOOLEAN
  BY <1>0, <1>1, <1>2, <1>4, PrefixOfConcat
<1>11. writing' <=> output' # <<>>
  BY <1>1
<1>12. output' = <<>> => completed' = Len(wire')
  BY <1>1
<1>13. QED
  BY <1>1, <1>4, <1>5, <1>6, <1>7, <1>8, <1>9, <1>10, <1>11, <1>12

------------------------------------------------------------------------------
(* Types.                                                                     *)

\* What the loop thread finds at the head of its queue, and what remains.
LEMMA HeadOfQueue ==
  ASSUME TInv, functors # <<>>
  PROVE  /\ Head(functors) \in Functor
         /\ Tail(functors) \in Seq(Functor)
         /\ Head(functors).op = "send" =>
              Head(functors).msg[1] \in Users /\ Head(functors).msg[2] \in 1..MaxSends
<1>1. Head(functors) \in Functor /\ Tail(functors) \in Seq(Functor)
  BY HeadTailProperties DEF TInv, QueueInv
<1> DEFINE f == Head(functors)
<1> HIDE DEF f
<1>2. ASSUME f \in Functor, f.op = "send"
      PROVE  f.msg[1] \in Users /\ f.msg[2] \in 1..MaxSends
  <2>1. f \in [op : {"send"}, msg : Users \X (1..MaxSends)]
    BY <1>2 DEF Functor
  <2>2. f.msg \in Users \X (1..MaxSends)
    BY <2>1
  <2>3. QED  BY <2>2
<1>3. QED  BY <1>1, <1>2 DEF f

\* A functor that another thread queues.
LEMMA Queued ==
  ASSUME TInv, NEW f \in Functor
  PROVE  Append(functors, f) \in Seq(Functor)
  BY AppendProperties DEF TInv, QueueInv

\* The queue's own type follows from what other threads put into it.
LEMMA QueueType ==
  ASSUME NEW q \in Seq(Functor)
  PROVE  q \in Seq([op : {"send"}, msg : Threads \X (1..MaxSends)]
                     \cup [op : {"shutdown", "forceClose"}])
<1>1. Functor \subseteq [op : {"send"}, msg : Threads \X (1..MaxSends)]
                          \cup [op : {"shutdown", "forceClose"}]
  BY DEF Functor, Threads
<1>2. QED  BY <1>1, SeqMonotonic

\* A message that is handed to sendInLoop, now or later, is counted.
LEMMA CountedType ==
  ASSUME TInv, NEW t \in Threads, numSent[t] < MaxSends, Counted(t)
  PROVE  /\ numSent' \in [Threads -> 0..MaxSends]
         /\ numSent[t] + 1 \in 1..MaxSends
         /\ numSent'[t] = numSent[t] + 1
         /\ \A x \in Threads \ {t} : numSent'[x] = numSent[x]
<1>1. numSent \in [Threads -> 0..MaxSends]
  BY DEF TInv, TypeOK
<1>2. QED  BY <1>1 DEF Counted

\* The parts of the types that the sending side is about, those of the
\* receiving side, and the queue's.
SendTypes ==
  /\ wire \in Seq(Byte) /\ output \in Seq(Byte)
  /\ inKernel \in 0..Capacity /\ inKernel <= Len(wire)
  /\ completed \in 0..Len(wire)
  /\ writing \in BOOLEAN /\ marked \in BOOLEAN
ReceiveTypes ==
  /\ arrived \in 0..MaxArrived /\ received \in 0..arrived
  /\ input \in 0..received /\ reported = received - input
  /\ peer \in {"open", "closed", "reset"}
StateTypes ==
  /\ state \in {"connected", "disconnecting", "disconnected"}
  /\ reading \in BOOLEAN /\ shut \in BOOLEAN /\ closed \in BOOLEAN
QueueTypes == QueueInv /\ numSent \in [Threads -> 0..MaxSends]

LEMMA TypeParts == TInv <=> SendTypes /\ ReceiveTypes /\ StateTypes /\ QueueTypes
<1>1. TInv => SendTypes
  BY DEF TInv, TypeOK, SendTypes, Byte
<1>2. TInv => ReceiveTypes /\ StateTypes /\ QueueTypes
  BY DEF TInv, TypeOK, ReceiveTypes, StateTypes, QueueTypes
<1>3. SendTypes /\ ReceiveTypes /\ StateTypes /\ QueueTypes => TInv
  BY QueueType DEF TInv, TypeOK, SendTypes, ReceiveTypes, StateTypes, QueueTypes, QueueInv, Byte
<1>4. QED  BY <1>1, <1>2, <1>3

LEMMA TypePartsNext == SendTypes' /\ ReceiveTypes' /\ StateTypes' /\ QueueTypes' => TInv'
  BY QueueType DEF TInv, TypeOK, SendTypes, ReceiveTypes, StateTypes, QueueTypes, QueueInv, Byte

LEMMA TypeInit == Init => TInv
<1> SUFFICES ASSUME Init  PROVE TInv
  OBVIOUS
<1>1. userAt \in [Users -> {"idle", "send", "shutdown"}]
  BY DEF Init
<1>2. numSent \in [Threads -> 0..MaxSends]
  BY DEF Init
<1>3. \A S : <<>> \in Seq(S)
  OBVIOUS
<1>4. Len(<<>>) = 0
  OBVIOUS
<1>5. QueueTypes
  BY <1>1, <1>2, <1>3 DEF Init, QueueInv, QueueTypes
<1>6. wire \in Seq(Byte) /\ output \in Seq(Byte) /\ Len(wire) = 0
  BY <1>3, <1>4 DEF Init
<1>7. SendTypes
  <2>1. inKernel = 0 /\ completed = 0 /\ writing = FALSE /\ marked = FALSE
    BY DEF Init
  <2>2. writing \in BOOLEAN /\ marked \in BOOLEAN
    BY <2>1, Zenon
  <2>3. inKernel \in 0..Capacity /\ inKernel <= Len(wire) /\ completed \in 0..Len(wire)
    BY <1>6, <2>1
  <2>4. QED  BY <1>6, <2>2, <2>3 DEF SendTypes
<1>8. ReceiveTypes /\ StateTypes
  <2>1. /\ arrived = 0 /\ received = 0 /\ input = 0 /\ reported = 0 /\ peer = "open"
        /\ state = "connected" /\ reading = TRUE /\ shut = FALSE /\ closed = FALSE
    BY DEF Init
  <2>2. StateTypes
    BY <2>1, Zenon DEF StateTypes
  <2>3. QED  BY <2>1, <2>2 DEF ReceiveTypes
<1>9. QED  BY <1>5, <1>7, <1>8, TypeParts

\* What sendInLoop does, in terms of these parts.
LEMMA SendTypesStep ==
  ASSUME TInv, NEW t \in Threads, NEW n \in 1..MaxSends, SendInLoop(t, n)
  PROVE  SendTypes'
<1>1. TypeOK /\ SendTypes
  BY TypeParts DEF TInv
<1>2. CASE UNCHANGED sendVars
  BY <1>1, <1>2 DEF SendTypes, sendVars
<1>3. CASE ~UNCHANGED sendVars
  BY <1>1, <1>3, SendEffect DEF SendTypes
<1>4. QED  BY <1>2, <1>3

LEMMA TypeLoopThread ==
  ASSUME TInv, LoopThreadStep
  PROVE  TInv'
<1> USE DEF ReceiveTypes, StateTypes
<1>0. TypeOK /\ SendTypes /\ ReceiveTypes /\ StateTypes /\ QueueTypes
  BY TypeParts DEF TInv
<1>1. CASE RunFunctor
  <2>1. ReceiveTypes'
    BY <1>0, <1>1 DEF RunFunctor, Execute, recvVars
  <2>2. QueueTypes'
    BY <1>0, <1>1, HeadOfQueue DEF RunFunctor, Execute, QueueTypes, QueueInv
  <2>3. StateTypes' /\ SendTypes'
    <3> DEFINE f == Head(functors)
    <3>1. CASE f.op = "send" /\ SendInLoop(f.msg[1], f.msg[2])
                 /\ UNCHANGED <<state, reading, closed, shut>>
      <4>1. f.msg[1] \in Threads /\ f.msg[2] \in 1..MaxSends
        BY <1>1, <3>1, HeadOfQueue DEF RunFunctor, Execute, Threads
      <4>2. SendTypes'
        BY <3>1, <4>1, SendTypesStep
      <4>3. QED  BY <1>0, <3>1, <4>2
    <3>2. CASE ShutdownInLoop /\ UNCHANGED <<state, reading, closed, sendVars>>
      BY <1>0, <3>2 DEF ShutdownInLoop, SendTypes, sendVars
    <3>3. CASE /\ IF IsUp THEN HandleClose ELSE UNCHANGED <<state, reading, writing, closed>>
               /\ UNCHANGED <<shut, output, wire, inKernel, completed, marked>>
      BY <1>0, <3>3 DEF HandleClose, SendTypes
    <3>4. QED  BY <1>1, <3>1, <3>2, <3>3 DEF RunFunctor, Execute
  <2>4. QED  BY <2>1, <2>2, <2>3, TypePartsNext
<1>2. CASE WriteEvent
  <2>1. ReceiveTypes' /\ QueueTypes'
    BY <1>0, <1>2 DEF WriteEvent, recvVars, QueueTypes, QueueInv
  <2>2. StateTypes' /\ SendTypes'
    <3>1. CASE WriteFails
      <4>1. HandleClose /\ UNCHANGED <<output, wire, inKernel, completed, marked, shut>>
        BY <1>2, <3>1 DEF WriteEvent, HandleWrite
      <4>2. QED  BY <1>0, <4>1 DEF HandleClose, SendTypes
    <3>2. CASE ~WriteFails
      <4>1. SendTypes' /\ UNCHANGED <<state, reading, closed>>
        BY <1>0, <1>2, <3>2, WriteEffect DEF WriteEvent, SendTypes
      <4>2. shut' \in BOOLEAN
        BY <1>0, <1>2, <3>2, WriteEffect DEF WriteEvent
      <4>3. QED  BY <1>0, <4>1, <4>2
    <3>3. QED  BY <3>1, <3>2
  <2>3. QED  BY <2>1, <2>2, TypePartsNext
<1>3. CASE ReadEvent
  <2>1. ReceiveTypes'
    BY <1>0, <1>3 DEF ReadEvent, HandleRead
  <2>2. QueueTypes'
    BY <1>0, <1>3 DEF ReadEvent, QueueTypes, QueueInv
  <2>3. StateTypes' /\ SendTypes'
    BY <1>0, <1>3 DEF ReadEvent, HandleRead, HandleClose, SendTypes
  <2>4. QED  BY <2>1, <2>2, <2>3, TypePartsNext
<1>4. QED  BY <1>1, <1>2, <1>3 DEF LoopThreadStep

LEMMA TypeCallbacks ==
  ASSUME TInv, LoopSend \/ LoopShutdown \/ LoopForceClose \/ LoopSetReading
  PROVE  TInv'
<1> USE DEF ReceiveTypes, StateTypes
<1>0. TypeOK /\ SendTypes /\ ReceiveTypes /\ StateTypes /\ QueueTypes
  BY TypeParts DEF TInv
<1>1. CASE LoopSend
  <2>1. LoopThread \in Threads /\ LoopThread \notin Users /\ Users \subseteq Threads
    BY DEF Threads
  <2>2. /\ numSent' \in [Threads -> 0..MaxSends]
        /\ numSent[LoopThread] + 1 \in 1..MaxSends
        /\ \A x \in Threads \ {LoopThread} : numSent'[x] = numSent[x]
    BY <1>1, <2>1, CountedType DEF LoopSend
  <2>3. SendTypes'
    BY <1>1, <2>1, <2>2, SendTypesStep DEF LoopSend
  <2>4. QueueTypes'
    BY <1>0, <1>1, <2>1, <2>2 DEF LoopSend, QueueTypes, QueueInv
  <2>5. ReceiveTypes' /\ StateTypes'
    BY <1>0, <1>1 DEF LoopSend, recvVars
  <2>6. QED  BY <2>3, <2>4, <2>5, TypePartsNext
<1>2. CASE LoopShutdown
  <2>1. ReceiveTypes' /\ StateTypes' /\ SendTypes' /\ QueueTypes'
    BY <1>0, <1>2 DEF LoopShutdown, ShutdownInLoop, sendVars, recvVars, SendTypes, QueueTypes, QueueInv
  <2>2. QED  BY <2>1, TypePartsNext
<1>3. CASE LoopForceClose
  <2>1. [op |-> "forceClose"] \in Functor
    BY DEF Functor
  <2>2. functors' \in Seq(Functor)
    BY <1>3, <2>1, Queued DEF LoopForceClose
  <2>3. ReceiveTypes' /\ StateTypes' /\ SendTypes' /\ QueueTypes'
    BY <1>0, <1>3, <2>2 DEF LoopForceClose, sendVars, recvVars, SendTypes, QueueTypes, QueueInv
  <2>4. QED  BY <2>3, TypePartsNext
<1>4. CASE LoopSetReading
  <2>1. ReceiveTypes' /\ StateTypes' /\ SendTypes' /\ QueueTypes'
    BY <1>0, <1>4 DEF LoopSetReading, sendVars, recvVars, SendTypes, QueueTypes, QueueInv
  <2>2. QED  BY <2>1, TypePartsNext
<1>5. QED  BY <1>1, <1>2, <1>3, <1>4

LEMMA TypeUser ==
  ASSUME TInv, NEW u \in Users, TestState(u) \/ QueueSend(u) \/ QueueShutdown(u)
  PROVE  TInv'
<1> USE DEF ReceiveTypes, StateTypes
<1>0. TypeOK /\ SendTypes /\ ReceiveTypes /\ StateTypes /\ QueueTypes
  BY TypeParts DEF TInv
<1>1. u \in Threads /\ Users \subseteq Threads
  BY DEF Threads
<1>2. CASE TestState(u)
  <2>1. ReceiveTypes' /\ StateTypes' /\ SendTypes' /\ QueueTypes'
    BY <1>0, <1>2 DEF TestState, sendVars, recvVars, SendTypes, QueueTypes, QueueInv
  <2>2. QED  BY <2>1, TypePartsNext
<1>3. CASE QueueSend(u)
  <2>1. numSent[u] < MaxSends
    BY <1>0, <1>3 DEF QueueSend, QueueTypes, QueueInv
  <2>2. /\ numSent' \in [Threads -> 0..MaxSends]
        /\ numSent[u] + 1 \in 1..MaxSends
        /\ \A x \in Threads \ {u} : numSent'[x] = numSent[x]
    BY <1>1, <1>3, <2>1, CountedType DEF QueueSend
  <2>3. Send(u) \in Functor
    BY <2>2 DEF Send, Functor
  <2>4. functors' \in Seq(Functor)
    BY <1>3, <2>3, Queued DEF QueueSend
  <2>5. QueueTypes'
    BY <1>0, <1>1, <1>3, <2>2, <2>4 DEF QueueSend, QueueTypes, QueueInv
  <2>6. ReceiveTypes' /\ StateTypes' /\ SendTypes'
    BY <1>0, <1>3 DEF QueueSend, sendVars, recvVars, SendTypes
  <2>7. QED  BY <2>5, <2>6, TypePartsNext
<1>4. CASE QueueShutdown(u)
  <2>1. [op |-> "shutdown"] \in Functor
    BY DEF Functor
  <2>2. functors' \in Seq(Functor)
    BY <1>4, <2>1, Queued DEF QueueShutdown
  <2>3. ReceiveTypes' /\ StateTypes' /\ SendTypes' /\ QueueTypes'
    BY <1>0, <1>4, <2>2 DEF QueueShutdown, sendVars, recvVars, SendTypes, QueueTypes, QueueInv
  <2>4. QED  BY <2>3, TypePartsNext
<1>5. QED  BY <1>2, <1>3, <1>4

LEMMA TypeStep == TInv /\ [Next]_vars => TInv'
<1> SUFFICES ASSUME TInv, [Next]_vars  PROVE TInv'
  OBVIOUS
<1> USE DEF ReceiveTypes, StateTypes, SendTypes, QueueTypes, QueueInv
<1>0. SendTypes /\ ReceiveTypes /\ StateTypes /\ QueueTypes
  BY TypeParts
<1>1. CASE PeerReads
  <2>1. SendTypes' /\ ReceiveTypes' /\ StateTypes' /\ QueueTypes'
    BY <1>0, <1>1 DEF PeerReads, recvVars
  <2>2. QED  BY <2>1, TypePartsNext
<1>2. CASE PeerSends
  <2>1. SendTypes' /\ ReceiveTypes' /\ StateTypes' /\ QueueTypes'
    BY <1>0, <1>2 DEF PeerSends, sendVars, recvVars
  <2>2. QED  BY <2>1, TypePartsNext
<1>3. CASE PeerEnds
  <2>1. SendTypes' /\ ReceiveTypes' /\ StateTypes' /\ QueueTypes'
    BY <1>0, <1>3 DEF PeerEnds, sendVars, recvVars
  <2>2. QED  BY <2>1, TypePartsNext
<1>4. CASE UNCHANGED vars
  <2>1. SendTypes' /\ ReceiveTypes' /\ StateTypes' /\ QueueTypes'
    BY <1>0, <1>4 DEF vars, sendVars, recvVars
  <2>2. QED  BY <2>1, TypePartsNext
<1>5. QED
  BY <1>1, <1>2, <1>3, <1>4, TypeLoopThread, TypeCallbacks, TypeUser DEF Next

\* The state of a connection keeps its types: the kernel's buffer is never
\* overfilled, what is reported was received, and no message is sent twice.
THEOREM TypeCorrect == Spec => []TypeOK
<1>1. TInv => TypeOK
  BY DEF TInv
<1>2. QED  BY <1>1, TypeInit, TypeStep, PTL DEF Spec

------------------------------------------------------------------------------
(* The channel, the output buffer and the callbacks.                          *)

LEMMA WriterInit == Init => WInv
  BY DEF Init, WInv, WriterAgrees, ShutInv

\* Steps that touch neither the sending side nor the close.
LEMMA WriterUntouched ==
  ASSUME WInv, UNCHANGED <<writing, output, completed, marked, closed, shut>>, Len(wire') = Len(wire)
  PROVE  WInv'
  BY DEF WInv, WriterAgrees, ShutInv

LEMMA WriterStep == TInv /\ WInv /\ [Next]_vars => WInv'
<1> SUFFICES ASSUME TInv, WInv, [Next]_vars  PROVE WInv'
  OBVIOUS
<1>0. TypeOK /\ WriterAgrees /\ ShutInv
  BY DEF TInv, WInv
<1>1. ASSUME NEW t \in Threads, NEW n \in 1..MaxSends, SendInLoop(t, n), UNCHANGED <<closed, shut>>
      PROVE  WInv'
  <2>1. CASE UNCHANGED sendVars
    BY <1>1, <2>1, WriterUntouched DEF sendVars
  <2>2. CASE ~UNCHANGED sendVars
    <3>1. WriterAgrees'
      BY <1>0, <1>1, <2>2, SendEffect DEF WriterAgrees
    <3>2. ShutInv'
      BY <1>0, <1>1, <2>2, SendEffect DEF WriterAgrees, ShutInv
    <3>3. QED  BY <3>1, <3>2 DEF WInv
  <2>3. QED  BY <2>1, <2>2
<1>2. ASSUME HandleClose  PROVE WInv'
  BY <1>2 DEF HandleClose, WInv, WriterAgrees, ShutInv
<1>3. ASSUME ShutdownInLoop, UNCHANGED <<closed, sendVars>>  PROVE WInv'
  BY <1>0, <1>3 DEF ShutdownInLoop, sendVars, WInv, WriterAgrees, ShutInv
<1>4. CASE RunFunctor
  <2> DEFINE f == Head(functors)
  <2>1. CASE f.op = "send" /\ SendInLoop(f.msg[1], f.msg[2])
               /\ UNCHANGED <<state, reading, closed, shut>>
    <3>1. f.msg[1] \in Threads /\ f.msg[2] \in 1..MaxSends
      BY <1>4, <2>1, HeadOfQueue DEF RunFunctor, Execute, Threads
    <3>2. QED  BY <2>1, <3>1, <1>1
  <2>2. CASE ShutdownInLoop /\ UNCHANGED <<state, reading, closed, sendVars>>
    BY <2>2, <1>3
  <2>3. CASE /\ IF IsUp THEN HandleClose ELSE UNCHANGED <<state, reading, writing, closed>>
             /\ UNCHANGED <<shut, output, wire, inKernel, completed, marked>>
    BY <2>3, <1>2, WriterUntouched
  <2>4. QED  BY <1>4, <2>1, <2>2, <2>3 DEF RunFunctor, Execute
<1>5. CASE WriteEvent
  <2>1. CASE WriteFails
    BY <1>2, <1>5, <2>1 DEF WriteEvent, HandleWrite
  <2>2. CASE ~WriteFails
    <3>1. HandleWrite /\ ~shut
      BY <1>5, <2>2 DEF WriteEvent, WriteFails
    <3>2. WriterAgrees'
      BY <1>0, <2>2, <3>1, WriteEffect DEF WriterAgrees
    <3>3. ShutInv'
      BY <1>0, <2>2, <3>1, WriteEffect DEF ShutInv
    <3>4. QED  BY <3>2, <3>3 DEF WInv
  <2>3. QED  BY <2>1, <2>2
<1>6. CASE ReadEvent
  BY <1>2, <1>6, WriterUntouched DEF ReadEvent, HandleRead
<1>7. CASE LoopSend
  <2>1. LoopThread \in Threads /\ numSent[LoopThread] + 1 \in 1..MaxSends
    BY <1>7, CountedType DEF LoopSend, Threads
  <2>2. QED  BY <1>7, <2>1, <1>1 DEF LoopSend
<1>8. CASE LoopShutdown
  BY <1>8, <1>3 DEF LoopShutdown
<1>9. CASE LoopForceClose \/ LoopSetReading
  BY <1>9, WriterUntouched DEF LoopForceClose, LoopSetReading, sendVars
<1>10. ASSUME NEW u \in Users, TestState(u) \/ QueueSend(u) \/ QueueShutdown(u)  PROVE WInv'
  BY <1>10, WriterUntouched DEF TestState, QueueSend, QueueShutdown, sendVars
<1>11. CASE PeerReads \/ PeerSends \/ PeerEnds
  BY <1>11, WriterUntouched DEF PeerReads, PeerSends, PeerEnds, sendVars
<1>12. CASE UNCHANGED vars
  BY <1>12, WriterUntouched DEF vars, sendVars
<1>13. QED
  BY <1>4, <1>5, <1>6, <1>7, <1>8, <1>9, <1>10, <1>11, <1>12 DEF Next, LoopThreadStep

------------------------------------------------------------------------------
(* The order of messages.                                                     *)

StreamOrder ==
  \A i, j \in DOMAIN Stream :
    i < j /\ Stream[i][1] = Stream[j][1] =>
      \/ Stream[i][2] < Stream[j][2]
      \/ Stream[i][2] = Stream[j][2] /\ Stream[i][3] < Stream[j][3]

LEMMA OrderParts == SenderOrder <=> StreamOrder
  BY Zenon DEF SenderOrder, StreamOrder, Stream

\* The stream and the queue as sequences.
LEMMA Shapes ==
  ASSUME TInv
  PROVE  /\ Stream \in Seq(Byte) /\ Len(Stream) \in Nat /\ DOMAIN Stream = 1..Len(Stream)
         /\ \A i \in DOMAIN Stream : Stream[i][1] \in Threads /\ Stream[i][2] \in 1..MaxSends
         /\ functors \in Seq(Functor) /\ Len(functors) \in Nat
         /\ DOMAIN functors = 1..Len(functors)
         /\ \A j \in DOMAIN functors : IsSend(j) =>
              functors[j].msg[1] \in Users /\ functors[j].msg[2] \in 1..MaxSends
         /\ numSent \in [Threads -> 0..MaxSends]
         /\ Users \subseteq Threads /\ LoopThread \in Threads
<1>1. wire \in Seq(Byte) /\ output \in Seq(Byte) /\ functors \in Seq(Functor)
      /\ numSent \in [Threads -> 0..MaxSends]
  BY TypeParts DEF SendTypes, QueueTypes, QueueInv
<1>2. Stream \in Seq(Byte)
  BY <1>1, ConcatProperties DEF Stream
<1>3. /\ Len(Stream) \in Nat /\ DOMAIN Stream = 1..Len(Stream)
      /\ Len(functors) \in Nat /\ DOMAIN functors = 1..Len(functors)
  BY <1>1, <1>2, LenProperties
<1>4. ASSUME NEW i \in DOMAIN Stream
      PROVE  Stream[i][1] \in Threads /\ Stream[i][2] \in 1..MaxSends
  <2>1. Stream[i] \in Byte
    BY <1>2, <1>3, <1>4, ElementOfSeq
  <2>2. QED  BY <2>1 DEF Byte
<1>5. ASSUME NEW j \in DOMAIN functors, IsSend(j)
      PROVE  functors[j].msg[1] \in Users /\ functors[j].msg[2] \in 1..MaxSends
  <2> DEFINE f == functors[j]
  <2>1. f \in Functor /\ f.op = "send"
    BY <1>1, <1>3, <1>5, ElementOfSeq DEF IsSend
  <2> HIDE DEF f
  <2>2. f \in [op : {"send"}, msg : Users \X (1..MaxSends)]
    BY <2>1 DEF Functor
  <2>3. f.msg \in Users \X (1..MaxSends)
    BY <2>2
  <2>4. f.msg[1] \in Users /\ f.msg[2] \in 1..MaxSends
    BY <2>3
  <2>5. QED  BY <2>4 DEF f
<1>6. Users \subseteq Threads /\ LoopThread \in Threads
  BY DEF Threads
<1>7. QED  BY <1>1, <1>2, <1>3, <1>4, <1>5, <1>6

\* What a step may do to the stream and to the queue.
Extended(t, n) == Stream' = Stream \o Message(t, n)
Popped == functors # <<>> /\ functors' = Tail(functors)
Pushed(f) == functors' = Append(functors, f)

LEMMA ExtendedShape ==
  ASSUME TInv, NEW t \in Threads, NEW n \in 1..MaxSends, Extended(t, n)
  PROVE  /\ DOMAIN Stream' = 1..(Len(Stream) + MessageSize)
         /\ \A i \in DOMAIN Stream' : \/ i \in DOMAIN Stream /\ Stream'[i] = Stream[i]
                                      \/ /\ i > Len(Stream)
                                         /\ Stream'[i] = <<t, n, i - Len(Stream)>>
<1> DEFINE msg == Message(t, n)
           longer == Stream \o msg
<1>1. Stream \in Seq(Byte) /\ Len(Stream) \in Nat /\ DOMAIN Stream = 1..Len(Stream)
  BY Shapes
<1>2. msg \in Seq(Byte) /\ Len(msg) = MessageSize /\ \A i \in 1..MessageSize : msg[i] = <<t, n, i>>
  BY MessageBytes
<1> HIDE DEF msg
<1>3. /\ longer \in Seq(Byte)
      /\ Len(longer) = Len(Stream) + MessageSize
      /\ \A i \in 1..(Len(Stream) + MessageSize) :
           longer[i] = IF i <= Len(Stream) THEN Stream[i] ELSE msg[i - Len(Stream)]
  BY <1>1, <1>2, ConcatProperties
<1>4. DOMAIN longer = 1..(Len(Stream) + MessageSize)
  BY <1>3, LenProperties
<1> HIDE DEF longer
<1>5. ASSUME NEW i \in 1..(Len(Stream) + MessageSize)
      PROVE  \/ i \in DOMAIN Stream /\ longer[i] = Stream[i]
             \/ i > Len(Stream) /\ longer[i] = <<t, n, i - Len(Stream)>>
  <2>1. CASE i <= Len(Stream)
    BY <1>1, <1>3, <2>1
  <2>2. CASE i > Len(Stream)
    <3>1. i - Len(Stream) \in 1..MessageSize
      BY <1>1, <2>2
    <3>2. longer[i] = <<t, n, i - Len(Stream)>>
      BY <1>1, <1>2, <1>3, <2>2, <3>1
    <3>3. QED  BY <2>2, <3>2
  <2>3. QED  BY <1>1, <2>1, <2>2
<1>6. Stream' = longer
  BY DEF Extended, longer, msg
<1>7. QED  BY <1>4, <1>5, <1>6

LEMMA PoppedShape ==
  ASSUME TInv, Popped
  PROVE  /\ 1 \in DOMAIN functors /\ functors[1] = Head(functors)
         /\ \A j \in DOMAIN functors' :
              j \in Nat \ {0} /\ j + 1 \in DOMAIN functors /\ functors'[j] = functors[j + 1]
<1>1. functors \in Seq(Functor) /\ functors # <<>> /\ functors' = Tail(functors)
  BY Shapes DEF Popped
<1>2. /\ DOMAIN functors = 1..Len(functors) /\ Len(functors) \in Nat \ {0}
      /\ functors[1] = Head(functors)
  BY <1>1, LenProperties, EmptySeq
<1>3. /\ functors' \in Seq(Functor) /\ Len(functors') = Len(functors) - 1
      /\ \A j \in 1..Len(functors') : functors'[j] = functors[j + 1]
  BY <1>1, HeadTailProperties
<1>4. DOMAIN functors' = 1..(Len(functors) - 1)
  BY <1>3, LenProperties
<1>5. QED  BY <1>2, <1>3, <1>4

LEMMA PushedShape ==
  ASSUME TInv, NEW f \in Functor, Pushed(f)
  PROVE  /\ DOMAIN functors' = 1..(Len(functors) + 1)
         /\ \A j \in DOMAIN functors' :
              \/ j \in DOMAIN functors /\ functors'[j] = functors[j]
              \/ j = Len(functors) + 1 /\ functors'[j] = f
<1>1. /\ functors \in Seq(Functor) /\ DOMAIN functors = 1..Len(functors)
      /\ Len(functors) \in Nat
  BY Shapes
<1>2. functors' = Append(functors, f)
  BY DEF Pushed
<1>3. /\ functors' \in Seq(Functor) /\ Len(functors') = Len(functors) + 1
      /\ \A j \in 1..Len(functors) : functors'[j] = functors[j]
      /\ functors'[Len(functors) + 1] = f
  BY <1>1, <1>2, AppendProperties
<1>4. DOMAIN functors' = 1..(Len(functors) + 1)
  BY <1>3, LenProperties
<1>5. QED  BY <1>1, <1>3, <1>4

OrderInv == StreamOrder /\ StreamCounted /\ QueueCounted /\ QueueOrder /\ StreamFirst

\* Nothing is sent: the queue is shorter, or longer by something that is no message.
LEMMA OrderUntouched ==
  ASSUME TInv, OrderInv, Stream' = Stream, numSent' = numSent,
         functors' = functors \/ Popped \/ \E f \in Functor : f.op # "send" /\ Pushed(f)
  PROVE  OrderInv'
<1>1. StreamOrder' /\ StreamCounted'
  BY DEF OrderInv, StreamOrder, StreamCounted
<1>2. CASE functors' = functors
  BY <1>1, <1>2, Zenon DEF OrderInv, QueueCounted, QueueOrder, StreamFirst, IsSend
<1>3. CASE Popped
  <2>1. \A j \in DOMAIN functors' :
          j \in Nat \ {0} /\ j + 1 \in DOMAIN functors /\ functors'[j] = functors[j + 1]
    BY <1>3, PoppedShape
  <2>2. QueueCounted' /\ StreamFirst'
    BY <2>1 DEF OrderInv, QueueCounted, StreamFirst, IsSend
  <2>3. \A j, k \in DOMAIN functors' : j < k => j + 1 < k + 1
    BY <2>1
  <2>4. QueueOrder'
    BY <2>1, <2>3 DEF OrderInv, QueueOrder, IsSend
  <2>5. QED  BY <1>1, <2>2, <2>4 DEF OrderInv
<1>4. ASSUME NEW f \in Functor, f.op # "send", Pushed(f)
      PROVE  OrderInv'
  <2>1. \A j \in DOMAIN functors' : functors'[j].op = "send" =>
          j \in DOMAIN functors /\ functors'[j] = functors[j]
    BY <1>4, PushedShape
  <2>2. QueueCounted' /\ StreamFirst' /\ QueueOrder'
    BY <2>1 DEF OrderInv, QueueCounted, StreamFirst, QueueOrder, IsSend
  <2>3. QED  BY <1>1, <2>2 DEF OrderInv
<1>5. QED  BY <1>2, <1>3, <1>4

\* A message goes into the stream: it is not numbered below those of its thread
\* that are there, and not above the count.
LEMMA StreamExtended ==
  ASSUME TInv, StreamOrder, StreamCounted, NEW t \in Threads, NEW n \in 1..MaxSends, Extended(t, n),
         \A i \in DOMAIN Stream : Stream[i][1] = t => Stream[i][2] < n,
         n <= numSent'[t], \A x \in Threads : numSent[x] <= numSent'[x] /\ numSent'[x] \in Nat
  PROVE  StreamOrder' /\ StreamCounted'
<1>1. /\ Len(Stream) \in Nat /\ DOMAIN Stream = 1..Len(Stream)
      /\ \A i \in DOMAIN Stream : Stream[i][1] \in Threads /\ Stream[i][2] \in 1..MaxSends
      /\ numSent \in [Threads -> 0..MaxSends]
  BY Shapes
<1>2. DOMAIN Stream' = 1..(Len(Stream) + MessageSize)
  BY ExtendedShape
<1>3. \A i \in DOMAIN Stream' : \/ i \in DOMAIN Stream /\ Stream'[i] = Stream[i]
                                \/ i > Len(Stream) /\ Stream'[i] = <<t, n, i - Len(Stream)>>
  BY ExtendedShape
<1>4. StreamOrder'
  <2> SUFFICES ASSUME NEW i \in DOMAIN Stream', NEW j \in DOMAIN Stream', i < j,
                      Stream'[i][1] = Stream'[j][1]
               PROVE  \/ Stream'[i][2] < Stream'[j][2]
                      \/ Stream'[i][2] = Stream'[j][2] /\ Stream'[i][3] < Stream'[j][3]
    BY DEF StreamOrder
  <2>1. CASE i \in DOMAIN Stream /\ Stream'[i] = Stream[i]
    <3>1. CASE j \in DOMAIN Stream /\ Stream'[j] = Stream[j]
      BY <2>1, <3>1 DEF StreamOrder
    <3>2. CASE Stream'[j] = <<t, n, j - Len(Stream)>>
      BY <2>1, <3>2
    <3>3. QED  BY <1>3, <3>1, <3>2
  <2>2. CASE i > Len(Stream) /\ Stream'[i] = <<t, n, i - Len(Stream)>>
    <3>1. i \in Nat /\ j \in Nat
      BY <1>1, <1>2
    <3>2. j \notin DOMAIN Stream
      BY <1>1, <2>2, <3>1
    <3>3. Stream'[j] = <<t, n, j - Len(Stream)>>
      BY <1>3, <3>2
    <3>4. i - Len(Stream) < j - Len(Stream)
      BY <1>1, <3>1
    <3>5. QED  BY <2>2, <3>3, <3>4
  <2>3. QED  BY <1>3, <2>1, <2>2
<1>5. StreamCounted'
  <2> SUFFICES ASSUME NEW i \in DOMAIN Stream'
               PROVE  Stream'[i][2] <= numSent'[Stream'[i][1]]
    BY DEF StreamCounted
  <2>1. CASE i \in DOMAIN Stream /\ Stream'[i] = Stream[i]
    <3>1. Stream[i][2] <= numSent[Stream[i][1]] /\ numSent[Stream[i][1]] <= numSent'[Stream[i][1]]
      BY <1>1, <2>1 DEF StreamCounted
    <3>2. Stream[i][2] \in Nat /\ numSent[Stream[i][1]] \in Nat /\ numSent'[Stream[i][1]] \in Nat
      BY <1>1, <2>1
    <3>3. QED  BY <2>1, <3>1, <3>2
  <2>2. CASE Stream'[i] = <<t, n, i - Len(Stream)>>
    BY <2>2
  <2>3. QED  BY <1>3, <2>1, <2>2
<1>6. QED  BY <1>4, <1>5

\* The loop thread comes to a message of another thread in its queue.
LEMMA OrderRunSend ==
  ASSUME TInv, OrderInv, Popped, numSent' = numSent, Head(functors).op = "send",
         Extended(Head(functors).msg[1], Head(functors).msg[2])
  PROVE  OrderInv'
<1> DEFINE t == Head(functors).msg[1]
           n == Head(functors).msg[2]
<1>1. /\ 1 \in DOMAIN functors /\ IsSend(1) /\ functors[1].msg[1] = t /\ functors[1].msg[2] = n
  BY PoppedShape DEF IsSend
<1>2. \A j \in DOMAIN functors' :
        j \in Nat \ {0} /\ j + 1 \in DOMAIN functors /\ functors'[j] = functors[j + 1]
  BY PoppedShape
<1>3. t \in Threads /\ n \in 1..MaxSends
  BY <1>1, Shapes
<1>4. Extended(t, n)
  OBVIOUS
<1> HIDE DEF t, n
<1>5. \A i \in DOMAIN Stream : Stream[i][1] = t => Stream[i][2] < n
  BY <1>1 DEF OrderInv, StreamFirst
<1>6. n <= numSent'[t] /\ \A x \in Threads : numSent[x] <= numSent'[x] /\ numSent'[x] \in Nat
  BY <1>1, Shapes DEF OrderInv, QueueCounted
<1>7. StreamOrder' /\ StreamCounted'
  BY <1>3, <1>4, <1>5, <1>6, StreamExtended DEF OrderInv
<1>8. QueueCounted'
  BY <1>2 DEF OrderInv, QueueCounted, IsSend
<1>9. \A j \in DOMAIN functors' : 1 < j + 1
  BY <1>2
<1>10. QueueOrder'
  <2>1. \A j, k \in DOMAIN functors' : j < k => j + 1 < k + 1
    BY <1>2
  <2>2. QED  BY <1>2, <2>1 DEF OrderInv, QueueOrder, IsSend
<1>11. StreamFirst'
  <2> SUFFICES ASSUME NEW i \in DOMAIN Stream', NEW j \in DOMAIN functors', IsSend(j)',
                      functors'[j].msg[1] = Stream'[i][1]
               PROVE  Stream'[i][2] < functors'[j].msg[2]
    BY DEF StreamFirst
  <2>1. IsSend(j + 1) /\ functors'[j] = functors[j + 1] /\ j + 1 \in DOMAIN functors
    BY <1>2 DEF IsSend
  <2>2. CASE i \in DOMAIN Stream /\ Stream'[i] = Stream[i]
    BY <2>1, <2>2 DEF OrderInv, StreamFirst
  <2>3. CASE Stream'[i] = <<t, n, i - Len(Stream)>>
    BY <1>1, <1>9, <2>1, <2>3 DEF OrderInv, QueueOrder
  <2>4. QED  BY <1>3, <1>4, <2>2, <2>3, ExtendedShape
<1>12. QED  BY <1>7, <1>8, <1>10, <1>11 DEF OrderInv

\* The loop thread sends a message of its own.
LEMMA OrderLoopSend ==
  ASSUME TInv, OrderInv, functors' = functors, numSent[LoopThread] < MaxSends, Counted(LoopThread),
         Extended(LoopThread, numSent[LoopThread] + 1)
  PROVE  OrderInv'
<1> DEFINE t == LoopThread
           n == numSent[t] + 1
<1>1. t \in Threads /\ t \notin Users /\ n \in 1..MaxSends /\ Extended(t, n)
  BY Shapes, CountedType DEF Threads
<1>2. numSent'[t] = n /\ \A x \in Threads \ {t} : numSent'[x] = numSent[x]
  BY <1>1, CountedType
<1>3. \A x \in Threads : numSent[x] \in Nat /\ numSent[x] <= numSent'[x] /\ numSent'[x] \in Nat
  BY <1>1, <1>2, Shapes
<1>4. \A i \in DOMAIN Stream : Stream[i][1] = t => Stream[i][2] < n
  BY <1>1, Shapes DEF OrderInv, StreamCounted
<1> HIDE DEF n
<1>5. StreamOrder' /\ StreamCounted'
  BY <1>1, <1>2, <1>3, <1>4, StreamExtended DEF OrderInv
<1>6. \A j \in DOMAIN functors : IsSend(j) => functors[j].msg[1] \in Users
  BY Shapes
<1>7. QueueCounted'
  BY <1>1, <1>2, <1>6 DEF OrderInv, QueueCounted, IsSend, Threads
<1>8. QueueOrder'
  BY Zenon DEF OrderInv, QueueOrder, IsSend
<1>9. StreamFirst'
  <2> SUFFICES ASSUME NEW i \in DOMAIN Stream', NEW j \in DOMAIN functors', IsSend(j)',
                      functors'[j].msg[1] = Stream'[i][1]
               PROVE  Stream'[i][2] < functors'[j].msg[2]
    BY DEF StreamFirst
  <2>1. IsSend(j) /\ j \in DOMAIN functors
    BY DEF IsSend
  <2>2. i \in DOMAIN Stream /\ Stream'[i] = Stream[i]
    BY <1>1, <1>6, <2>1, ExtendedShape
  <2>3. QED  BY <2>1, <2>2 DEF OrderInv, StreamFirst
<1>10. QED  BY <1>5, <1>7, <1>8, <1>9 DEF OrderInv

\* Another thread queues a message.
LEMMA OrderQueueSend ==
  ASSUME TInv, OrderInv, Stream' = Stream, NEW u \in Users, numSent[u] < MaxSends, Counted(u),
         Pushed(Send(u))
  PROVE  OrderInv'
<1> DEFINE n == numSent[u] + 1
           f == Send(u)
<1>1. u \in Threads /\ n \in 1..MaxSends /\ \A x \in Threads : numSent[x] \in Nat
  BY Shapes, CountedType DEF Threads
<1>2. numSent'[u] = n /\ \A x \in Threads \ {u} : numSent'[x] = numSent[x]
  BY <1>1, CountedType
<1>3. f \in Functor /\ f.op = "send" /\ f.msg[1] = u /\ f.msg[2] = n /\ Pushed(f)
  BY <1>1 DEF Send, Functor
<1> HIDE DEF f
<1>4. /\ Len(functors) \in Nat /\ DOMAIN functors = 1..Len(functors)
      /\ DOMAIN functors' = 1..(Len(functors) + 1)
      /\ \A j \in DOMAIN functors' : \/ j \in DOMAIN functors /\ functors'[j] = functors[j]
                                     \/ j = Len(functors) + 1 /\ functors'[j] = f
  BY <1>3, Shapes, PushedShape
<1>5. \A x \in Threads : numSent[x] <= numSent'[x] /\ numSent'[x] \in Nat
  BY <1>1, <1>2
<1>6. \A i \in DOMAIN Stream : Stream[i][1] \in Threads /\ Stream[i][2] \in Nat
  BY Shapes
<1>7. \A j \in DOMAIN functors : IsSend(j) =>
        functors[j].msg[1] \in Threads /\ functors[j].msg[2] \in Nat
  BY Shapes
<1>8. StreamOrder' /\ StreamCounted'
  BY <1>1, <1>5, <1>6 DEF OrderInv, StreamOrder, StreamCounted
<1>9. QueueCounted'
  <2> SUFFICES ASSUME NEW j \in DOMAIN functors', IsSend(j)'
               PROVE  functors'[j].msg[2] <= numSent'[functors'[j].msg[1]]
    BY DEF QueueCounted
  <2>1. CASE j \in DOMAIN functors /\ functors'[j] = functors[j]
    BY <1>1, <1>5, <1>7, <2>1 DEF OrderInv, QueueCounted, IsSend
  <2>2. CASE functors'[j] = f
    BY <1>1, <1>2, <1>3, <2>2
  <2>3. QED  BY <1>4, <2>1, <2>2
<1>10. QueueOrder'
  <2> SUFFICES ASSUME NEW j \in DOMAIN functors', NEW k \in DOMAIN functors', j < k,
                      IsSend(j)', IsSend(k)', functors'[j].msg[1] = functors'[k].msg[1]
               PROVE  functors'[j].msg[2] < functors'[k].msg[2]
    BY DEF QueueOrder
  <2>1. j \in DOMAIN functors /\ functors'[j] = functors[j]
    BY <1>4
  <2>2. CASE k \in DOMAIN functors /\ functors'[k] = functors[k]
    BY <2>1, <2>2 DEF OrderInv, QueueOrder, IsSend
  <2>3. CASE functors'[k] = f
    <3>1. functors[j].msg[1] = u /\ IsSend(j)
      BY <1>3, <2>1, <2>3 DEF IsSend
    <3>2. functors[j].msg[2] <= numSent[u] /\ functors[j].msg[2] \in Nat
      BY <1>7, <2>1, <3>1 DEF OrderInv, QueueCounted
    <3>3. QED  BY <1>1, <1>3, <2>1, <2>3, <3>2
  <2>4. QED  BY <1>4, <2>2, <2>3
<1>11. StreamFirst'
  <2> SUFFICES ASSUME NEW i \in DOMAIN Stream, NEW j \in DOMAIN functors', IsSend(j)',
                      functors'[j].msg[1] = Stream[i][1]
               PROVE  Stream[i][2] < functors'[j].msg[2]
    BY DEF StreamFirst
  <2>1. CASE j \in DOMAIN functors /\ functors'[j] = functors[j]
    BY <2>1 DEF OrderInv, StreamFirst, IsSend
  <2>2. CASE functors'[j] = f
    <3>1. Stream[i][2] <= numSent[u]
      BY <1>3, <2>2 DEF OrderInv, StreamCounted
    <3>2. QED  BY <1>1, <1>3, <1>6, <2>2, <3>1
  <2>3. QED  BY <1>4, <2>1, <2>2
<1>12. QED  BY <1>8, <1>9, <1>10, <1>11 DEF OrderInv

\* What a step does to the stream.
LEMMA StreamOfSend ==
  ASSUME TInv, NEW t \in Threads, NEW n \in 1..MaxSends, SendInLoop(t, n)
  PROVE  Stream' = Stream \/ Extended(t, n)
<1>1. CASE UNCHANGED sendVars
  BY <1>1 DEF sendVars, Stream
<1>2. CASE ~UNCHANGED sendVars
  BY <1>2, SendEffect DEF TInv, Stream, Extended
<1>3. QED  BY <1>1, <1>2

LEMMA StreamOfWrite ==
  ASSUME TInv, HandleWrite
  PROVE  Stream' = Stream
<1>1. CASE WriteFails
  BY <1>1 DEF HandleWrite, Stream
<1>2. CASE ~WriteFails
  BY <1>2, WriteEffect DEF TInv, Stream
<1>3. QED  BY <1>1, <1>2

LEMMA OrderInit == Init => OrderInv
<1> SUFFICES ASSUME Init  PROVE OrderInv
  OBVIOUS
<1>1. <<>> \o <<>> = <<>>
  BY ConcatEmptySeq, EmptySeq
<1>2. Stream = <<>> /\ functors = <<>>
  BY <1>1 DEF Init, Stream
<1>3. DOMAIN Stream = {} /\ DOMAIN functors = {}
  BY <1>2
<1>4. QED
  BY <1>3 DEF OrderInv, StreamOrder, StreamCounted, QueueCounted, QueueOrder, StreamFirst

LEMMA OrderLoopThread ==
  ASSUME TInv, OrderInv, LoopThreadStep
  PROVE  OrderInv'
<1>1. CASE RunFunctor
  <2> DEFINE f == Head(functors)
  <2>1. Popped /\ numSent' = numSent
    BY <1>1 DEF RunFunctor, Execute, Popped
  <2>2. CASE f.op = "send" /\ SendInLoop(f.msg[1], f.msg[2])
    <3>1. f.msg[1] \in Threads /\ f.msg[2] \in 1..MaxSends
      BY <2>1, <2>2, HeadOfQueue DEF Popped, Threads
    <3>2. Stream' = Stream \/ Extended(f.msg[1], f.msg[2])
      BY <2>2, <3>1, StreamOfSend
    <3>3. QED  BY <2>1, <2>2, <3>2, OrderUntouched, OrderRunSend
  <2>3. CASE UNCHANGED <<output, wire>>
    <3>1. Stream' = Stream
      BY <2>3 DEF Stream
    <3>2. QED  BY <2>1, <3>1, OrderUntouched
  <2>4. QED  BY <1>1, <2>2, <2>3 DEF RunFunctor, Execute, sendVars
<1>2. CASE WriteEvent
  <2>1. Stream' = Stream
    BY <1>2, StreamOfWrite DEF WriteEvent
  <2>2. QED  BY <1>2, <2>1, OrderUntouched DEF WriteEvent
<1>3. CASE ReadEvent
  <2>1. Stream' = Stream
    BY <1>3 DEF ReadEvent, Stream
  <2>2. QED  BY <1>3, <2>1, OrderUntouched DEF ReadEvent
<1>4. QED  BY <1>1, <1>2, <1>3 DEF LoopThreadStep

LEMMA OrderOthers ==
  ASSUME TInv, OrderInv,
         \/ LoopSend \/ LoopShutdown \/ LoopForceClose \/ LoopSetReading
         \/ \E u \in Users : TestState(u) \/ QueueSend(u) \/ QueueShutdown(u)
         \/ PeerReads \/ PeerSends \/ PeerEnds \/ UNCHANGED vars
  PROVE  OrderInv'
<1>1. CASE LoopSend
  <2>1. /\ functors' = functors /\ numSent[LoopThread] < MaxSends /\ Counted(LoopThread)
        /\ SendInLoop(LoopThread, numSent[LoopThread] + 1)
    BY <1>1 DEF LoopSend
  <2>2. LoopThread \in Threads /\ numSent[LoopThread] + 1 \in 1..MaxSends
    BY <2>1, CountedType DEF Threads
  <2>3. CASE Extended(LoopThread, numSent[LoopThread] + 1)
    BY <2>1, <2>3, OrderLoopSend
  <2>4. CASE Stream' = Stream
    <3>1. numSent'[LoopThread] = numSent[LoopThread] + 1
          /\ \A x \in Threads \ {LoopThread} : numSent'[x] = numSent[x]
      BY <2>1, <2>2, CountedType
    <3>2. \A x \in Threads : numSent[x] \in Nat /\ numSent'[x] \in Nat /\ numSent[x] <= numSent'[x]
      BY <2>2, <3>1, Shapes
    <3>3. \A i \in DOMAIN Stream : Stream[i][1] \in Threads /\ Stream[i][2] \in Nat
      BY Shapes
    <3>4. \A j \in DOMAIN functors : IsSend(j) =>
            functors[j].msg[1] \in Threads /\ functors[j].msg[2] \in Nat
      BY Shapes
    <3>5. StreamOrder' /\ StreamCounted'
      BY <2>4, <3>2, <3>3 DEF OrderInv, StreamOrder, StreamCounted
    <3>6. QueueCounted'
      BY <2>1, <3>2, <3>4 DEF OrderInv, QueueCounted, IsSend
    <3>7. QueueOrder' /\ StreamFirst'
      BY <2>1, <2>4, Zenon DEF OrderInv, QueueOrder, StreamFirst, IsSend
    <3>8. QED  BY <3>5, <3>6, <3>7 DEF OrderInv
  <2>5. QED  BY <2>1, <2>2, <2>3, <2>4, StreamOfSend
<1>2. CASE LoopForceClose
  <2>1. [op |-> "forceClose"] \in Functor /\ [op |-> "forceClose"].op # "send"
    BY DEF Functor
  <2>2. Pushed([op |-> "forceClose"])
    BY <1>2 DEF LoopForceClose, Pushed
  <2>3. Stream' = Stream /\ numSent' = numSent
    BY <1>2 DEF LoopForceClose, sendVars, Stream
  <2>4. QED  BY <2>1, <2>2, <2>3, OrderUntouched
<1>3. ASSUME NEW u \in Users, QueueSend(u)  PROVE OrderInv'
  <2>1. numSent[u] < MaxSends
    BY <1>3, TypeParts DEF QueueSend, QueueTypes, QueueInv
  <2>2. Stream' = Stream /\ Counted(u) /\ Pushed(Send(u))
    BY <1>3 DEF QueueSend, sendVars, Stream, Pushed
  <2>3. QED  BY <2>1, <2>2, OrderQueueSend
<1>4. ASSUME NEW u \in Users, QueueShutdown(u)  PROVE OrderInv'
  <2>1. [op |-> "shutdown"] \in Functor /\ [op |-> "shutdown"].op # "send"
    BY DEF Functor
  <2>2. Pushed([op |-> "shutdown"])
    BY <1>4 DEF QueueShutdown, Pushed
  <2>3. Stream' = Stream /\ numSent' = numSent
    BY <1>4 DEF QueueShutdown, sendVars, Stream
  <2>4. QED  BY <2>1, <2>2, <2>3, OrderUntouched
<1>5. CASE \/ LoopShutdown \/ LoopSetReading \/ \E u \in Users : TestState(u)
           \/ PeerReads \/ PeerSends \/ PeerEnds \/ UNCHANGED vars
  <2>1. UNCHANGED <<output, wire, functors, numSent>>
    BY <1>5 DEF LoopShutdown, LoopSetReading, TestState, PeerReads, PeerSends, PeerEnds, vars, sendVars
  <2>2. Stream' = Stream
    BY <2>1 DEF Stream
  <2>3. QED  BY <2>1, <2>2, OrderUntouched
<1>6. QED  BY <1>1, <1>2, <1>3, <1>4, <1>5

LEMMA OrderStep == TInv /\ OrderInv /\ [Next]_vars => OrderInv'
  BY OrderLoopThread, OrderOthers DEF Next

\* Whatever threads send, the kernel takes and the peer does: the messages of a
\* thread keep their order in the stream, the channel writes exactly while data
\* waits, and the two callbacks about the output buffer are queued when due.
THEOREM SendingAlwaysAgrees == Spec => []SendingAgrees
<1>1. Init => TInv /\ WInv /\ OrderInv
  BY TypeInit, WriterInit, OrderInit
<1>2. TInv /\ WInv /\ OrderInv /\ [Next]_vars => (TInv /\ WInv /\ OrderInv)'
  BY TypeStep, WriterStep, OrderStep
<1>3. TInv /\ WInv /\ OrderInv => SendingAgrees
  BY OrderParts DEF WInv, OrderInv, SendingAgrees
<1>4. QED  BY <1>1, <1>2, <1>3, PTL DEF Spec

------------------------------------------------------------------------------
(* The byte stream.                                                           *)

Over == IF closed THEN "abandoned" ELSE IF shut THEN "ended" ELSE "open"

\* The abstract step, in the terms of this module.
Fresh(m) == \A i \in DOMAIN Stream, k \in DOMAIN m : Stream[i] # m[k]
StreamStep ==
  /\ Stream' = Stream \/ \E m \in Messages : Over # "ended" /\ Fresh(m) /\ Stream' = Stream \o m
  /\ IsPrefix(wire, wire') /\ IsPrefix(wire', Stream')
  /\ \/ Over' = Over
     \/ Over = "open" /\ Over' = "ended" /\ wire' = Stream'
     \/ Over' = "abandoned"

LEMMA StreamStepImplements == StreamStep \/ UNCHANGED <<wire, output, closed, shut>> => [BS!Next]_BS!vars
<1>1. CASE StreamStep
  <2>1. BS!Next
    BY <1>1 DEF StreamStep, Stream, Over, Fresh, IsPrefix, BS!Next, BS!Accept, BS!IsPrefix
  <2>2. QED  BY <2>1
<1>2. CASE UNCHANGED <<wire, output, closed, shut>>
  BY <1>2 DEF BS!vars
<1>3. QED  BY <1>1, <1>2

\* The wire is the beginning of the stream, after a step as well.
LEMMA WireInStream ==
  ASSUME TInv'
  PROVE  IsPrefix(wire', Stream') /\ (output' = <<>> => wire' = Stream')
<1>1. wire' \in Seq(Byte) /\ output' \in Seq(Byte)
  BY DEF TInv, TypeOK, Byte
<1>2. IsPrefix(wire', wire' \o output')
  BY <1>1, PrefixOfConcat
<1>3. output' = <<>> => wire' \o output' = wire'
  BY <1>1, ConcatEmptySeq
<1>4. QED  BY <1>2, <1>3 DEF Stream

\* Writing some of what waits, or nothing; and closing.
LEMMA StreamKept ==
  ASSUME TInv', Stream' = Stream, IsPrefix(wire, wire'),
         \/ UNCHANGED <<closed, shut>>
         \/ ~closed /\ ~shut /\ ~closed' /\ shut' /\ output' = <<>>
         \/ closed' /\ closed' \in BOOLEAN
  PROVE  StreamStep
<1>1. IsPrefix(wire', Stream')
  BY WireInStream
<1>2. \/ Over' = Over
      \/ Over = "open" /\ Over' = "ended" /\ wire' = Stream'
      \/ Over' = "abandoned"
  BY WireInStream DEF Over
<1>3. QED  BY <1>1, <1>2 DEF StreamStep

\* A message that is numbered above those of its thread in the stream is new there.
LEMMA FreshMessage ==
  ASSUME TInv, NEW t \in Threads, NEW n \in 1..MaxSends,
         \A i \in DOMAIN Stream : Stream[i][1] = t => Stream[i][2] < n
  PROVE  Fresh(Message(t, n))
<1>1. \A k \in DOMAIN Message(t, n) : Message(t, n)[k] = <<t, n, k>>
  BY DEF Message
<1>2. ASSUME NEW i \in DOMAIN Stream, NEW k \in DOMAIN Message(t, n), Stream[i] = Message(t, n)[k]
      PROVE  FALSE
  <2>1. Stream[i][1] = t /\ Stream[i][2] = n
    BY <1>1, <1>2
  <2>2. QED  BY <2>1
<1>3. QED  BY <1>2 DEF Fresh

LEMMA EveryStep ==
  ASSUME TInv, WInv, OrderInv, TInv', [Next]_vars
  PROVE  StreamStep \/ UNCHANGED <<wire, output, closed, shut>>
<1>0. /\ TypeOK /\ WriterAgrees /\ ShutInv /\ IsPrefix(wire, wire)
      /\ closed \in BOOLEAN /\ closed' \in BOOLEAN /\ shut \in BOOLEAN /\ shut' \in BOOLEAN
  <2>1. IsPrefix(wire, wire)
    BY DEF IsPrefix, TInv, TypeOK
  <2>2. QED  BY <2>1 DEF TInv, TypeOK, WInv
<1>1. ASSUME NEW t \in Threads, NEW n \in 1..MaxSends, SendInLoop(t, n), UNCHANGED <<closed, shut>>,
             \A i \in DOMAIN Stream : Stream[i][1] = t => Stream[i][2] < n
      PROVE  StreamStep \/ UNCHANGED <<wire, output, closed, shut>>
  <2>1. CASE UNCHANGED sendVars
    BY <1>1, <2>1 DEF sendVars
  <2>2. CASE ~UNCHANGED sendVars
    <3>1. Extended(t, n) /\ IsPrefix(wire, wire') /\ (shut => writing \/ output # <<>>)
      BY <1>0, <1>1, <2>2, SendEffect DEF Extended, Stream
    <3>2. Over # "ended" /\ Over' = Over
      BY <1>0, <1>1, <3>1 DEF WriterAgrees, ShutInv, Over
    <3>3. Message(t, n) \in Messages /\ Fresh(Message(t, n))
      BY <1>1, MessageBytes, FreshMessage
    <3>4. IsPrefix(wire', Stream')
      BY WireInStream
    <3>5. QED  BY <3>1, <3>2, <3>3, <3>4 DEF StreamStep, Extended
  <2>3. QED  BY <2>1, <2>2
<1>2. ASSUME HandleClose, UNCHANGED <<wire, output>>  PROVE StreamStep
  <2>1. Stream' = Stream /\ IsPrefix(wire, wire') /\ closed'
    BY <1>0, <1>2 DEF HandleClose, Stream
  <2>2. QED  BY <1>0, <2>1, StreamKept
<1>3. ASSUME ShutdownInLoop, UNCHANGED <<closed, sendVars>>
      PROVE  StreamStep \/ UNCHANGED <<wire, output, closed, shut>>
  <2>1. UNCHANGED <<wire, output, writing, closed>> /\ shut' = (shut \/ ~writing)
    BY <1>3 DEF ShutdownInLoop, sendVars
  <2>2. Stream' = Stream /\ IsPrefix(wire, wire')
    BY <1>0, <2>1 DEF Stream
  <2>3. CASE shut' = shut
    BY <2>1, <2>3
  <2>4. CASE shut' # shut /\ closed
    BY <1>0, <2>1, <2>2, <2>4, StreamKept
  <2>5. CASE shut' # shut /\ ~closed
    <3>1. ~shut /\ shut' /\ ~writing
      BY <1>0, <2>1, <2>5
    <3>2. output' = <<>>
      BY <1>0, <2>1, <2>5, <3>1 DEF WriterAgrees
    <3>3. QED  BY <2>1, <2>2, <2>5, <3>1, <3>2, <1>0, StreamKept
  <2>6. QED  BY <2>3, <2>4, <2>5
<1>4. CASE RunFunctor
  <2> DEFINE f == Head(functors)
  <2>1. CASE f.op = "send" /\ SendInLoop(f.msg[1], f.msg[2])
               /\ UNCHANGED <<state, reading, closed, shut>>
    <3>1. f.msg[1] \in Threads /\ f.msg[2] \in 1..MaxSends
      BY <1>4, <2>1, HeadOfQueue DEF RunFunctor, Execute, Threads
    <3>2. \A i \in DOMAIN Stream : Stream[i][1] = f.msg[1] => Stream[i][2] < f.msg[2]
      <4>1. Popped
        BY <1>4 DEF RunFunctor, Execute, Popped
      <4>2. 1 \in DOMAIN functors /\ functors[1] = f
        BY <4>1, PoppedShape
      <4>3. IsSend(1)
        BY <2>1, <4>2 DEF IsSend
      <4>4. QED  BY <4>2, <4>3 DEF OrderInv, StreamFirst
    <3>3. QED  BY <2>1, <3>1, <3>2, <1>1
  <2>2. CASE ShutdownInLoop /\ UNCHANGED <<state, reading, closed, sendVars>>
    BY <2>2, <1>3
  <2>3. CASE /\ IF IsUp THEN HandleClose ELSE UNCHANGED <<state, reading, writing, closed>>
             /\ UNCHANGED <<shut, output, wire, inKernel, completed, marked>>
    BY <2>3, <1>2
  <2>4. QED  BY <1>4, <2>1, <2>2, <2>3 DEF RunFunctor, Execute
<1>5. CASE WriteEvent
  <2>1. CASE WriteFails
    BY <1>2, <1>5, <2>1 DEF WriteEvent, HandleWrite
  <2>2. CASE ~WriteFails
    <3>1. HandleWrite /\ ~shut
      BY <1>5, <2>2 DEF WriteEvent, WriteFails
    <3>2. /\ Stream' = Stream /\ IsPrefix(wire, wire') /\ closed' = closed
          /\ shut' = (shut \/ (output' = <<>> /\ state = "disconnecting"))
      BY <1>0, <2>2, <3>1, WriteEffect DEF Stream
    <3>3. CASE ~shut'
      BY <1>0, <3>1, <3>2, <3>3, StreamKept
    <3>4. CASE shut' /\ closed
      BY <1>0, <3>2, <3>4, StreamKept
    <3>5. CASE shut' /\ ~closed
      <4>1. output' = <<>> /\ ~closed'
        BY <3>1, <3>2, <3>5
      <4>2. QED  BY <1>0, <3>1, <3>2, <3>5, <4>1, StreamKept
    <3>6. QED  BY <3>3, <3>4, <3>5
  <2>3. QED  BY <2>1, <2>2
<1>6. CASE ReadEvent
  BY <1>2, <1>6 DEF ReadEvent, HandleRead
<1>7. CASE LoopSend
  <2>1. LoopThread \in Threads /\ numSent[LoopThread] + 1 \in 1..MaxSends
    BY <1>7, CountedType DEF LoopSend, Threads
  <2>2. \A i \in DOMAIN Stream : Stream[i][1] = LoopThread => Stream[i][2] < numSent[LoopThread] + 1
    BY <2>1, Shapes DEF OrderInv, StreamCounted
  <2>3. QED  BY <1>7, <2>1, <2>2, <1>1 DEF LoopSend
<1>8. CASE LoopShutdown
  BY <1>8, <1>3 DEF LoopShutdown
<1>9. CASE \/ LoopForceClose \/ LoopSetReading
           \/ \E u \in Users : TestState(u) \/ QueueSend(u) \/ QueueShutdown(u)
           \/ PeerReads \/ PeerSends \/ PeerEnds \/ UNCHANGED vars
  BY <1>9 DEF LoopForceClose, LoopSetReading, TestState, QueueSend, QueueShutdown, PeerReads,
              PeerSends, PeerEnds, vars, sendVars
<1>10. QED  BY <1>4, <1>5, <1>6, <1>7, <1>8, <1>9 DEF Next, LoopThreadStep

\* The connection implements the byte stream for any sizes, however sends, half
\* closes, the writing of the buffer and closes interleave: messages enter the
\* stream whole and, as the numbers of each thread's messages show, once, the kernel takes it from its beginning, and the write
\* side is shut after all of it, by whichever handler comes last.
THEOREM ConnectionImplementsByteStream == Spec => ImplementsByteStream
<1>1. Init => BS!Init
  <2>1. <<>> \o <<>> = <<>>
    BY ConcatEmptySeq, EmptySeq
  <2>2. QED  BY <2>1 DEF Init, BS!Init
<1>2. Init => TInv /\ WInv /\ OrderInv
  BY TypeInit, WriterInit, OrderInit
<1>3. TInv /\ WInv /\ OrderInv /\ [Next]_vars => (TInv /\ WInv /\ OrderInv)'
  BY TypeStep, WriterStep, OrderStep
<1>4. TInv /\ WInv /\ OrderInv /\ [Next]_vars => [BS!Next]_BS!vars
  BY TypeStep, EveryStep, StreamStepImplements
<1>5. QED  BY <1>1, <1>2, <1>3, <1>4, PTL DEF Spec, ImplementsByteStream, BS!Spec

=============================================================================

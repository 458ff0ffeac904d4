-------------------------------- MODULE Codec --------------------------------
(***************************************************************************)
(* LengthHeaderCodec at both ends of a TCP connection: messages are put    *)
(* behind their length, cross the output buffer of one TcpConnection, the  *)
(* kernel and the input buffer of another one in pieces of any size, and   *)
(* are cut out again.  When a connection writes and when it closes is in   *)
(* TcpConnection; here it is what its buffers hold.                        *)
(***************************************************************************)
EXTENDS Buffer

CONSTANTS
  Messages,      \* bytes that users send
  KernelRoom,    \* bytes the kernel takes before the peer has read any
  Reserves,      \* arguments of shrinkRSBuffer
  MaxSends,      \* bound: messages sent
  MaxShrinks     \* bound: calls of shrinkRSBuffer

\* A length takes HeaderLen bytes, and a message has fewer than Lengths.
HeaderLen == 2
Lengths == Base * Base

ASSUME CodecAssumption ==
  /\ HeaderLen <= NCheapPrepend
  /\ Messages \subseteq Seq(Byte) /\ \A m \in Messages : Len(m) < Lengths
  /\ KernelRoom \in Nat \ {0}
  /\ Reserves \subseteq Nat \ {0}
  /\ MaxSends \in Nat /\ MaxShrinks \in Nat

\* The length as a signed integer of HeaderLen bytes, in the host's order.
Header(len) == <<len % Base, len \div Base>>
LengthIn(b) ==
  LET n == Contents(b)[1] + Base * Contents(b)[2]
  IN IF 2 * n < Lengths THEN n ELSE n - Lengths
Fits(m) == 2 * Len(m) < Lengths

VARIABLES
  output,     \* m_outputBuffer of the sender
  wire,       \* bytes in the kernel
  input,      \* m_inputBuffer of the receiver
  at,         \* the receiver: "idle", in handleRead, in onMessage, in its callback
  len,        \* onMessage's local variable during the callback
  closing,    \* forceClose() has been called
  closed,     \* and its functor has run
  sent,       \* history: messages sent before one that was too long
  spoiled,    \* history: there was one
  delivered,  \* history: messages of the callback
  stream,     \* history: bytes sent
  taken,      \* history: bytes onMessage has retrieved
  sends, shrinks   \* so far

sendVars == <<output, sent, spoiled, stream, sends>>
recvVars == <<input, at, len, closing, closed, delivered, taken>>
vars == <<sendVars, wire, recvVars, shrinks>>

Init ==
  /\ output = NewBuffer /\ wire = <<>> /\ input = NewBuffer
  /\ at = "idle" /\ len = 0 /\ closing = FALSE /\ closed = FALSE
  /\ sent = <<>> /\ spoiled = FALSE /\ delivered = <<>>
  /\ stream = <<>> /\ taken = <<>>
  /\ sends = 0 /\ shrinks = 0

Least(a, b) == IF a <= b THEN a ELSE b
Room == KernelRoom - Len(wire)

------------------------------------------------------------------------------
(* The sender.                                                                *)

\* mutant: the length is that of the whole packet.
PackLonger(m) ==
  Contents(Prepend(AppendBytes(NewBuffer, m), Header(Len(m) + HeaderLen)))

\* The packet: a buffer of its own, the message and its length in front of it.
Pack(m) == Contents(Prepend(AppendBytes(NewBuffer, m), Header(Len(m))))

\* send and TcpConnection::sendInLoop: what the kernel takes at once, if nothing
\* is waiting, and the rest into the output buffer.
Send(m) ==
  /\ sends < MaxSends
  /\ sends' = sends + 1
  /\ LET packet == Pack(m)
         n == IF ReadableBytes(output) = 0 THEN Least(Len(packet), Room) ELSE 0
     IN /\ wire' = wire \o SubSeq(packet, 1, n)
        /\ output' = AppendBytes(output, SubSeq(packet, n + 1, Len(packet)))
        /\ stream' = stream \o packet
  /\ spoiled' = (spoiled \/ ~Fits(m))
  /\ sent' = IF spoiled' THEN sent ELSE Append(sent, m)
  /\ UNCHANGED <<recvVars, shrinks>>

\* handleWrite.
HandleWrite ==
  /\ ReadableBytes(output) > 0 /\ Room > 0
  /\ LET n == Least(ReadableBytes(output), Room)
     IN /\ wire' = wire \o SubSeq(Contents(output), 1, n)
        /\ output' = Retrieve(output, n)
  /\ UNCHANGED <<sent, spoiled, stream, sends, recvVars, shrinks>>

------------------------------------------------------------------------------
(* The receiver.                                                              *)

\* handleRead calls readvFd until the kernel has nothing left.
HandleRead ==
  /\ at \in {"idle", "read"} /\ ~closed
  /\ wire # <<>>
  /\ LET n == Least(Len(wire), ReadRoom(input))
     IN /\ input' = ReadvFd(input, SubSeq(wire, 1, n))
        /\ wire' = SubSeq(wire, n + 1, Len(wire))
  /\ at' = "read"
  /\ UNCHANGED <<sendVars, len, closing, closed, delivered, taken, shrinks>>

MessageCallback ==
  /\ at = "read" /\ wire = <<>>
  /\ at' = "onMessage"
  /\ UNCHANGED <<sendVars, wire, input, len, closing, closed, delivered, taken, shrinks>>

Complete(b) == ReadableBytes(b) >= HeaderLen /\ ReadableBytes(b) >= LengthIn(b) + HeaderLen

\* onMessage of a packet that is complete, as far as the callback...
TakeMessage ==
  /\ at = "onMessage"
  /\ Complete(input) /\ LengthIn(input) >= 0
  /\ len' = LengthIn(input)
  /\ input' = Retrieve(input, HeaderLen)
  /\ delivered' = Append(delivered, SubSeq(Contents(input'), 1, len'))
  /\ taken' = taken \o SubSeq(Contents(input), 1, HeaderLen)
  /\ at' = "callback"
  /\ UNCHANGED <<sendVars, wire, closing, closed, shrinks>>

\* ... and after it.
EndMessage ==
  /\ at = "callback"
  /\ input' = Retrieve(input, len)
  /\ taken' = taken \o SubSeq(Contents(input), 1, len)
  /\ len' = 0
  /\ at' = "onMessage"
  /\ UNCHANGED <<sendVars, wire, closing, closed, delivered, shrinks>>

\* A negative length: the bytes stay, so that nothing comes after them.
RefuseMessage ==
  /\ at = "onMessage"
  /\ ReadableBytes(input) >= HeaderLen /\ LengthIn(input) < 0
  /\ closing' = TRUE
  /\ at' = "idle"
  /\ UNCHANGED <<sendVars, wire, input, len, closed, delivered, taken, shrinks>>

AwaitMore ==
  /\ at = "onMessage"
  /\ ~Complete(input)
  /\ at' = "idle"
  /\ UNCHANGED <<sendVars, wire, input, len, closing, closed, delivered, taken, shrinks>>

\* forceCloseInLoop.
Close ==
  /\ at = "idle" /\ closing /\ ~closed
  /\ closed' = TRUE
  /\ UNCHANGED <<sendVars, wire, input, at, len, closing, delivered, taken, shrinks>>

\* shrinkRSBuffer, between events or in the message callback.
ShrinkBuffers ==
  /\ shrinks < MaxShrinks
  /\ shrinks' = shrinks + 1
  /\ \/ \E r \in Reserves : output' = Shrink(output, r) /\ UNCHANGED input
     \/ /\ at \in {"idle", "callback"}
        /\ \E r \in Reserves : input' = Shrink(input, r) /\ UNCHANGED output
  /\ UNCHANGED <<sent, spoiled, stream, sends, wire, at, len, closing, closed, delivered, taken>>

OnMessage == TakeMessage \/ EndMessage \/ RefuseMessage \/ AwaitMore

Next ==
  \/ \E m \in Messages : Send(m)
  \/ HandleWrite \/ HandleRead \/ MessageCallback \/ OnMessage \/ Close \/ ShrinkBuffers

Spec == Init /\ [][Next]_vars

\* Both loops serve their events, and onMessage ends.
Fairness ==
  /\ WF_vars(HandleWrite) /\ WF_vars(HandleRead) /\ WF_vars(MessageCallback)
  /\ WF_vars(OnMessage) /\ WF_vars(Close)

FairSpec == Spec /\ Fairness

------------------------------------------------------------------------------
(* Properties.                                                                *)

\* A buffer in use has its indices in order, the room for a header in front,
\* no vector that is smaller than what it holds, and no failed assertion.
InUse(b) ==
  /\ b \in BufferType
  /\ NCheapPrepend <= b.reader /\ b.reader <= b.writer /\ b.writer <= Len(b.cells)
  /\ Len(b.cells) <= b.capacity
  /\ b.wrapSize = WrapSize(b.capacity)
  /\ b.sound

\* The buffers of both connections are in use, however they are appended to,
\* read into, retrieved from, wrapped, enlarged and shrunk; in the callback
\* the message is still there.
WellFormed ==
  /\ InUse(output) /\ InUse(input)
  /\ wire \in Seq(Byte) /\ Len(wire) <= KernelRoom
  /\ at \in {"idle", "read", "onMessage", "callback"}
  /\ len \in Nat /\ (at = "callback" => len <= ReadableBytes(input))
  /\ closing \in BOOLEAN /\ closed \in BOOLEAN

\* No byte is lost, doubled or moved on its way through the buffers.
BytesKept == stream = taken \o Contents(input) \o wire \o Contents(output)

\* Whatever the pieces in which the bytes come, what the callbacks get are the
\* messages sent, each once and in order, and nothing after one too long for its
\* header.
Numbered(ms) == [i \in DOMAIN ms |-> <<i, ms[i]>>]
MS == INSTANCE ByteStream WITH
        Messages <- {<<<<i, m>>>> : i \in 1..MaxSends, m \in {x \in Messages : Fits(x)}},
        stream <- Numbered(sent),
        got <- Numbered(delivered),
        over <- IF closed THEN "abandoned" ELSE "open"
ImplementsMessageStream == MS!Spec

\* Every message before one that is too long is delivered, and that one closes
\* the connection.
AllDelivered ==
  /\ \A n \in 1..MaxSends : Len(sent) >= n ~> Len(delivered) >= n
  /\ spoiled ~> closed
=============================================================================

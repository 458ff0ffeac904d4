---------------------------- MODULE TcpConnection ----------------------------
(***************************************************************************)
(* One established TcpConnection and its data: send, the output buffer,    *)
(* half close and close, reading and the callbacks about them.  Its loop   *)
(* executes one functor or handles one event at a time; code in callbacks  *)
(* of the loop and other threads call its methods; the kernel has a send   *)
(* buffer of Capacity bytes, which the peer empties.                       *)
(*                                                                         *)
(* Whose the connection is, and calls that come after its end, are the     *)
(* concern of TcpServer.                                                   *)
(***************************************************************************)
EXTENDS Integers, FiniteSets, Sequences, SequencesExt

CONSTANTS
  LoopThread,      \* the thread of m_loop
  Users,           \* other threads
  MessageSize,     \* bytes of a message
  Capacity,        \* bytes the kernel takes before the peer has read any
  HighWaterMark,   \* m_highWaterMark
  MaxSends,        \* bound: messages of each thread
  MaxArrived       \* bound: bytes from the peer

ASSUME TcpConnectionAssumption ==
  /\ LoopThread \notin Users
  /\ MessageSize \in Nat \ {0}
  /\ Capacity \in Nat \ {0}
  /\ HighWaterMark \in Nat \ {0}
  /\ MaxSends \in Nat
  /\ MaxArrived \in Nat

Threads == Users \cup {LoopThread}
Message(t, n) == [k \in 1..MessageSize |-> <<t, n, k>>]
Messages == {Message(t, n) : t \in Threads, n \in 1..MaxSends}

VARIABLES
  state,      \* m_state
  reading, writing,   \* the events of the channel
  output,     \* m_outputBuffer
  input,      \* readable bytes of m_inputBuffer
  functors,   \* what is queued to the loop
  userAt,     \* what another thread is in the middle of
  wire,       \* history: all bytes the kernel has taken
  inKernel,   \* how many of them the peer has not read
  shut,       \* shutdownWrite() has been called
  peer,       \* "open", "closed" (has sent FIN) or "reset"
  arrived,    \* bytes of the peer, of which
  received,   \* these have been read
  numSent,    \* history: messages sent by each thread
  reported,   \* history: bytes handed to the message callback
  completed,  \* history: Len(wire) when the write complete callback was queued last
  marked,     \* history: the high water callback was queued since the last low
  closed      \* history: handleClose has run

sendVars == <<writing, output, wire, inKernel, completed, marked>>
recvVars == <<input, received, reported>>
vars == <<state, reading, functors, userAt, shut, peer, arrived, numSent, closed, sendVars, recvVars>>

TypeOK ==
  /\ state \in {"connected", "disconnecting", "disconnected"}
  /\ reading \in BOOLEAN /\ writing \in BOOLEAN
  /\ output \in Seq(Threads \X (1..MaxSends) \X (1..MessageSize))
  /\ wire \in Seq(Threads \X (1..MaxSends) \X (1..MessageSize))
  /\ functors \in Seq([op : {"send"}, msg : Threads \X (1..MaxSends)]
                        \cup [op : {"shutdown", "forceClose"}])
  /\ \A u \in Users : userAt[u] \in {"idle", "send", "shutdown"}
  /\ inKernel \in 0..Capacity /\ inKernel <= Len(wire)
  /\ shut \in BOOLEAN /\ marked \in BOOLEAN /\ closed \in BOOLEAN
  /\ peer \in {"open", "closed", "reset"}
  /\ arrived \in 0..MaxArrived /\ received \in 0..arrived
  /\ input \in 0..received /\ reported = received - input
  /\ numSent \in [Threads -> 0..MaxSends]
  /\ completed \in 0..Len(wire)

Init ==
  /\ state = "connected"
  /\ reading = TRUE /\ writing = FALSE
  /\ output = <<>> /\ input = 0
  /\ functors = <<>>
  /\ userAt = [u \in Users |-> "idle"]
  /\ wire = <<>> /\ inKernel = 0 /\ shut = FALSE
  /\ peer = "open" /\ arrived = 0 /\ received = 0
  /\ numSent = [t \in Threads |-> 0]
  /\ reported = 0 /\ completed = 0
  /\ marked = FALSE /\ closed = FALSE

Least(a, b) == IF a <= b THEN a ELSE b
Room == Capacity - inKernel
IsUp == state \in {"connected", "disconnecting"}

\* send() to a socket whose peer is gone or whose write side is shut fails.
WriteFails == peer = "reset" \/ shut

------------------------------------------------------------------------------
(* Sending.                                                                   *)

\* mutant: data overtakes the output buffer.
SendInLoopDirect(t, n) ==
  LET msg == Message(t, n)
      k == IF WriteFails THEN 0 ELSE Least(Len(msg), Room)
      rest == SubSeq(msg, k + 1, Len(msg))
  IN IF state = "disconnected" \/ WriteFails
     THEN UNCHANGED sendVars
     ELSE /\ wire' = wire \o SubSeq(msg, 1, k)
          /\ inKernel' = inKernel + k
          /\ output' = output \o rest
          /\ writing' = (writing \/ rest # <<>>)
          /\ completed' = IF output' = <<>> THEN Len(wire') ELSE completed
          /\ marked' = (marked \/ Len(output') >= HighWaterMark)

\* mutant: the write complete callback is forgotten when nothing remains.
SendInLoopNoCallback(t, n) ==
  LET msg == Message(t, n)
      direct == ~writing /\ output = <<>>
      k == IF direct /\ ~WriteFails THEN Least(Len(msg), Room) ELSE 0
      rest == SubSeq(msg, k + 1, Len(msg))
  IN IF state = "disconnected" \/ (direct /\ WriteFails)
     THEN UNCHANGED sendVars
     ELSE /\ wire' = wire \o SubSeq(msg, 1, k)
          /\ inKernel' = inKernel + k
          /\ output' = output \o rest
          /\ writing' = (writing \/ rest # <<>>)
          /\ marked' = (marked \/ Len(output') >= HighWaterMark)
          /\ UNCHANGED completed

\* sendInLoop: write at once if nothing is waiting, buffer the rest.  A message
\* is given up when the connection is down or the write fails.
SendInLoop(t, n) ==
  LET msg == Message(t, n)
      direct == ~writing /\ output = <<>>
      k == IF direct /\ ~WriteFails THEN Least(Len(msg), Room) ELSE 0
      rest == SubSeq(msg, k + 1, Len(msg))
      oldLen == Len(output)
  IN IF state = "disconnected" \/ (direct /\ WriteFails)
     THEN UNCHANGED sendVars
     ELSE /\ wire' = wire \o SubSeq(msg, 1, k)
          /\ inKernel' = inKernel + k
          /\ output' = output \o rest
          /\ writing' = (writing \/ rest # <<>>)
          /\ completed' = IF rest = <<>> THEN Len(wire') ELSE completed
          /\ marked' = (marked \/ (oldLen + Len(rest) >= HighWaterMark /\ oldLen < HighWaterMark))

\* handleClose: its connection and close callbacks are in TcpServer.
HandleClose ==
  /\ state' = "disconnected"
  /\ reading' = FALSE
  /\ writing' = FALSE
  /\ closed' = TRUE

\* mutant: the half close asked for while data was waiting is forgotten.
HandleWriteNoShutdown ==
  /\ writing /\ Room > 0 /\ ~WriteFails
  /\ LET k == Least(Len(output), Room)
     IN /\ wire' = wire \o SubSeq(output, 1, k)
        /\ inKernel' = inKernel + k
        /\ output' = SubSeq(output, k + 1, Len(output))
  /\ writing' = (output' # <<>>)
  /\ completed' = IF output' = <<>> THEN Len(wire') ELSE completed
  /\ marked' = (marked /\ Len(output') >= HighWaterMark)
  /\ UNCHANGED <<state, reading, shut, closed>>

\* handleWrite writes until the buffer is empty or the kernel's is full.  Data
\* that is all written is reported, and lets a half close through.
HandleWrite ==
  /\ writing
  /\ \/ /\ ~WriteFails /\ Room > 0
        /\ LET k == Least(Len(output), Room)
           IN /\ wire' = wire \o SubSeq(output, 1, k)
              /\ inKernel' = inKernel + k
              /\ output' = SubSeq(output, k + 1, Len(output))
        /\ writing' = (output' # <<>>)
        /\ completed' = IF output' = <<>> THEN Len(wire') ELSE completed
        /\ marked' = (marked /\ Len(output') >= HighWaterMark)
        /\ shut' = (shut \/ (output' = <<>> /\ state = "disconnecting"))
        /\ UNCHANGED <<state, reading, closed>>
     \/ /\ WriteFails
        /\ HandleClose
        /\ UNCHANGED <<output, wire, inKernel, completed, marked, shut>>

------------------------------------------------------------------------------
(* Closing and reading.                                                       *)

\* shutdownInLoop; with data waiting handleWrite does it.
ShutdownInLoop == shut' = (shut \/ ~writing)

\* mutant: the message callback is called after FIN as well.
HandleReadReportsFin ==
  /\ reading
  /\ received < arrived \/ peer # "open"
  /\ received' = arrived
  /\ reported' = arrived
  /\ input' = IF peer = "closed" THEN input + (arrived - received) ELSE 0
  /\ IF peer = "open"
     THEN UNCHANGED <<state, reading, writing, closed>>
     ELSE HandleClose

\* handleRead reads all there is.  If that ends with EAGAIN the message callback
\* gets it (and takes all of m_inputBuffer); after FIN it is left in
\* m_inputBuffer without a call, and after an error the call comes after the
\* close.
HandleRead ==
  /\ reading
  /\ received < arrived \/ peer # "open"
  /\ received' = arrived
  /\ IF peer = "closed"
     THEN input' = input + (arrived - received) /\ UNCHANGED reported
     ELSE input' = 0 /\ reported' = arrived
  /\ IF peer = "open"
     THEN UNCHANGED <<state, reading, writing, closed>>
     ELSE HandleClose

------------------------------------------------------------------------------
(* The loop thread.                                                           *)

Send(t) == [op |-> "send", msg |-> <<t, numSent[t] + 1>>]
Counted(t) == numSent' = [numSent EXCEPT ![t] = @ + 1]

Execute(f) ==
  /\ \/ /\ f.op = "send"
        /\ SendInLoop(f.msg[1], f.msg[2])
        /\ UNCHANGED <<state, reading, closed, shut>>
     \/ /\ f.op = "shutdown"
        /\ ShutdownInLoop
        /\ UNCHANGED <<state, reading, closed, sendVars>>
     \/ /\ f.op = "forceClose"
        /\ IF IsUp THEN HandleClose ELSE UNCHANGED <<state, reading, writing, closed>>
        /\ UNCHANGED <<shut, output, wire, inKernel, completed, marked>>
  /\ UNCHANGED <<userAt, peer, arrived, numSent, recvVars>>

\* mutant: the functors executed stay in the queue and are executed again.
RunFunctorKept == functors # <<>> /\ UNCHANGED functors /\ Execute(Head(functors))

RunFunctor ==
  /\ functors # <<>>
  /\ functors' = Tail(functors)
  /\ Execute(Head(functors))

WriteEvent ==
  /\ HandleWrite
  /\ UNCHANGED <<functors, userAt, peer, arrived, numSent, recvVars>>

ReadEvent ==
  /\ HandleRead
  /\ UNCHANGED <<functors, userAt, shut, peer, arrived, numSent, output, wire, inKernel,
                 completed, marked>>

\* Code in callbacks of the loop: send(), shutdown(), forceClose(), stopRead()
\* and startRead() act at once, except for the functor of forceClose().
LoopSend ==
  /\ state = "connected"
  /\ numSent[LoopThread] < MaxSends
  /\ SendInLoop(LoopThread, numSent[LoopThread] + 1)
  /\ Counted(LoopThread)
  /\ UNCHANGED <<state, reading, functors, userAt, shut, peer, arrived, closed, recvVars>>

LoopShutdown ==
  /\ state = "connected"
  /\ state' = "disconnecting"
  /\ ShutdownInLoop
  /\ UNCHANGED <<reading, functors, userAt, peer, arrived, numSent, closed, sendVars, recvVars>>

\* Bound: one forceClose() functor at a time.
LoopForceClose ==
  /\ IsUp
  /\ [op |-> "forceClose"] \notin ToSet(functors)
  /\ state' = "disconnecting"
  /\ functors' = Append(functors, [op |-> "forceClose"])
  /\ UNCHANGED <<reading, userAt, shut, peer, arrived, numSent, closed, sendVars, recvVars>>

LoopSetReading ==
  /\ IsUp
  /\ reading' = ~reading
  /\ UNCHANGED <<state, functors, userAt, shut, peer, arrived, numSent, closed, sendVars, recvVars>>

------------------------------------------------------------------------------
(* Other threads test m_state, and then queue (shutdown: assign and queue).   *)

TestState(u) ==
  /\ userAt[u] = "idle"
  /\ state = "connected"
  /\ \/ numSent[u] < MaxSends /\ userAt' = [userAt EXCEPT ![u] = "send"]
     \/ userAt' = [userAt EXCEPT ![u] = "shutdown"]
  /\ UNCHANGED <<state, reading, functors, shut, peer, arrived, numSent, closed, sendVars, recvVars>>

QueueSend(u) ==
  /\ userAt[u] = "send"
  /\ functors' = Append(functors, Send(u))
  /\ Counted(u)
  /\ userAt' = [userAt EXCEPT ![u] = "idle"]
  /\ UNCHANGED <<state, reading, shut, peer, arrived, closed, sendVars, recvVars>>

QueueShutdown(u) ==
  /\ userAt[u] = "shutdown"
  /\ state' = "disconnecting"
  /\ functors' = Append(functors, [op |-> "shutdown"])
  /\ userAt' = [userAt EXCEPT ![u] = "idle"]
  /\ UNCHANGED <<reading, shut, peer, arrived, numSent, closed, sendVars, recvVars>>

------------------------------------------------------------------------------
(* The peer and the kernel.                                                   *)

PeerReads ==
  /\ inKernel > 0 /\ peer # "reset"
  /\ inKernel' = inKernel - 1
  /\ UNCHANGED <<state, reading, functors, userAt, shut, peer, arrived, numSent, closed,
                 writing, output, wire, completed, marked, recvVars>>

PeerSends ==
  /\ peer = "open" /\ arrived < MaxArrived
  /\ arrived' = arrived + 1
  /\ UNCHANGED <<state, reading, functors, userAt, shut, peer, numSent, closed, sendVars, recvVars>>

PeerEnds ==
  /\ peer # "reset"
  /\ peer' \in {"closed", "reset"} \ {peer}
  /\ UNCHANGED <<state, reading, functors, userAt, shut, arrived, numSent, closed, sendVars, recvVars>>

LoopThreadStep == RunFunctor \/ WriteEvent \/ ReadEvent

Next ==
  \/ LoopThreadStep
  \/ LoopSend \/ LoopShutdown \/ LoopForceClose \/ LoopSetReading
  \/ \E u \in Users : TestState(u) \/ QueueSend(u) \/ QueueShutdown(u)
  \/ PeerReads \/ PeerSends \/ PeerEnds

Spec == Init /\ [][Next]_vars

\* The loop executes functors and serves both kinds of events, a thread in the
\* middle of a call goes on, and the peer reads.
Fairness ==
  /\ WF_vars(RunFunctor) /\ WF_vars(WriteEvent) /\ WF_vars(ReadEvent)
  /\ \A u \in Users : WF_vars(QueueSend(u) \/ QueueShutdown(u))
  /\ WF_vars(PeerReads)

FairSpec == Spec /\ Fairness

------------------------------------------------------------------------------
(* Properties.                                                                *)

\* Sending implements the byte stream: whole messages, each once, taken from the
\* beginning, and the half close only after all that was accepted, whichever of
\* sendInLoop, handleWrite and shutdownInLoop comes first.
BS == INSTANCE ByteStream WITH
        stream <- wire \o output,
        got <- wire,
        over <- IF closed THEN "abandoned" ELSE IF shut THEN "ended" ELSE "open"
ImplementsByteStream == BS!Spec

\* The bytes of one thread keep their order in the stream and are there once,
\* although the loop thread sends at once and the others through the queue.
SenderOrder ==
  LET stream == wire \o output
  IN \A i, j \in DOMAIN stream :
       i < j /\ stream[i][1] = stream[j][1] =>
         \/ stream[i][2] < stream[j][2]
         \/ stream[i][2] = stream[j][2] /\ stream[i][3] < stream[j][3]

\* The channel is writing exactly while data waits; when none waits, the write
\* complete callback has been queued after the last byte; a buffer at the high
\* water mark has been reported since it was last below.
WriterAgrees ==
  ~closed =>
    /\ writing <=> output # <<>>
    /\ output = <<>> => completed = Len(wire)
    /\ Len(output) >= HighWaterMark => marked

\* The output buffer, the channel's events, the callbacks and the stream agree.
SendingAgrees == SenderOrder /\ WriterAgrees

\* While the peer reads, accepted data is taken and a half close happens, or the
\* connection is closed; what arrives is handed on, or reading is stopped.
DataServed ==
  /\ output # <<>> ~> (output = <<>> \/ closed)
  /\ state = "disconnecting" ~> (shut \/ closed)
  /\ \A n \in 1..MaxArrived : arrived >= n ~> (reported >= n \/ closed \/ ~reading)
=============================================================================

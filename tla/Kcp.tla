--------------------------------- MODULE Kcp ---------------------------------
(***************************************************************************)
(* The two ends of an established KCP connection: the protocol of          *)
(* 3rd/kcp/ikcp.c and the calls of KcpConnection that drive it (sending,   *)
(* the update timer, a datagram from the peer), over UDP.                  *)
(*                                                                         *)
(* Time is abstracted: a segment in snd_buf may turn out to be overdue at  *)
(* any flush, the interval of ikcp_update may have passed at any call, and *)
(* the window probe may be due at any flush after the first.  Sequence     *)
(* numbers are unbounded: an end that is 2^31 segments behind the other is *)
(* not a state of this model.                                              *)
(***************************************************************************)
EXTENDS Integers, FiniteSets, Sequences, SequencesExt, FiniteSetsExt, Functions

CONSTANTS
  Modes,       \* KcpSettings, see ModeType
  Lens,        \* lengths of the messages handed to send()
  Senders,     \* the ends whose user sends
  Mss,         \* kcp->mss, in bytes
  Overhead,    \* IKCP_OVERHEAD
  RecvRoom,    \* bytes of a datagram that Buffer::recvFrom can take
  InputRoom,   \* bytes m_inputBuffer can take
  RcvWnd,      \* kcp->rcv_wnd
  MaxFrg,      \* IKCP_WND_RCV: ikcp_send refuses this many fragments
  Threshold,   \* thresholdSize of sendInLoop
  FastLimit,   \* IKCP_FASTACK_LIMIT
  MaxSends,    \* bound: calls of send() of each end
  MaxFaults,   \* bound: datagrams lost, doubled or overtaken
  NetCap,      \* bound: datagrams on the way to each end
  AckCap       \* bound: acknowledgements that wait for a flush

Nats == Nat \ {0}
ModeType == [sndWnd : Nats, resend : Nat, noCwnd : BOOLEAN]

ASSUME KcpAssumption ==
  /\ Modes \subseteq ModeType /\ Modes # {}
  /\ Lens \subseteq Nats /\ IsFiniteSet(Lens)
  /\ Senders \subseteq {1, 2}
  /\ {Mss, Overhead, RecvRoom, InputRoom, RcvWnd, MaxFrg, Threshold, AckCap} \subseteq Nats
  /\ NetCap \in [{1, 2} -> Nats]
  /\ {FastLimit, MaxSends, MaxFaults} \subseteq Nat

Ends == {1, 2}
Peer(e) == 3 - e
Mtu == Mss + Overhead

VARIABLES
  mode,      \* m_kcpSet, the same at both ends
  kcp,       \* m_kcp of each end, see New
  output,    \* m_outputBuffer
  input,     \* bytes in m_inputBuffer that the user has not retrieved
  net,       \* datagrams on the way to each end, the oldest first
  faults,    \* what the network has done to datagrams
  calls,     \* history: calls of send()
  given,     \* history: bytes handed to them; the bytes are numbered
  taken,     \* history: bytes handed to the message callback
  aborted    \* LOG_FATAL has ended the process of this end

kcpVars == <<mode, kcp, output, input, net, faults, calls, given, taken, aborted>>

\* ikcp_create, with the settings of newKCP; the window that rmt_wnd starts with is
\* not above the one of the peer.  cwnd is not tracked when it is
\* not used; the lists snd_buf and rcv_buf, which are in order, are sets of segments.
New == [snd_una |-> 0, snd_nxt |-> 0, rcv_nxt |-> 0, rmt_wnd |-> RcvWnd,
        cwnd |-> 0, ssthresh |-> 2, probe |-> {}, probing |-> FALSE,
        updated |-> FALSE, acklist |-> <<>>,
        snd_queue |-> <<>>, snd_buf |-> {}, rcv_queue |-> <<>>, rcv_buf |-> {}]

KcpInit ==
  /\ mode \in Modes
  /\ kcp = [e \in Ends |-> New]
  /\ output = [e \in Ends |-> <<>>]
  /\ input = [e \in Ends |-> 0]
  /\ net = [e \in Ends |-> <<>>]
  /\ faults = 0
  /\ calls = [e \in Ends |-> 0]
  /\ given = [e \in Ends |-> 0]
  /\ taken = [e \in Ends |-> <<>>]
  /\ aborted = [e \in Ends |-> FALSE]

Least(a, b) == IF a <= b THEN a ELSE b
Most(a, b) == IF a >= b THEN a ELSE b
Sns(buf) == {seg.sn : seg \in buf}
At(buf, sn) == CHOOSE seg \in buf : seg.sn = sn
Ascending(S) == [i \in 1..Cardinality(S) |-> CHOOSE x \in S : Cardinality({y \in S : y < x}) = i - 1]

------------------------------------------------------------------------------
(* Receiving segments: ikcp_input and what it calls.                          *)

ShrinkBuf(k) ==
  [k EXCEPT !.snd_una = IF k.snd_buf = {} THEN k.snd_nxt ELSE Min(Sns(k.snd_buf))]

\* mutant: the segment that the peer expects next is taken for acknowledged.
ParseUnaToo(k, una) == [k EXCEPT !.snd_buf = {seg \in @ : seg.sn > una}]

ParseUna(k, una) == [k EXCEPT !.snd_buf = {seg \in @ : seg.sn >= una}]

ParseAck(k, ack) == [k EXCEPT !.snd_buf = {seg \in @ : seg.sn # ack}]

\* Each segment before the greatest one acknowledged has been overtaken once more.
ParseFastack(k, ack) ==
  IF ack < k.snd_una \/ ack >= k.snd_nxt THEN k
  ELSE [k EXCEPT !.snd_buf =
          {IF seg.sn < ack THEN [seg EXCEPT !.fastack = Least(@ + 1, mode.resend)] ELSE seg : seg \in @}]

\* From rcv_buf to rcv_queue, as far as it is in order and there is room.
MoveAvailable(k) ==
  LET fits(n) == /\ k.rcv_nxt .. k.rcv_nxt + n - 1 \subseteq Sns(k.rcv_buf)
                 /\ n = 0 \/ Len(k.rcv_queue) + n <= RcvWnd
      n == Max({m \in 0..Cardinality(k.rcv_buf) : fits(m)})
  IN [k EXCEPT !.rcv_queue = @ \o [i \in 1..n |-> At(k.rcv_buf, k.rcv_nxt + i - 1).data],
               !.rcv_buf = {seg \in @ : seg.sn >= k.rcv_nxt + n},
               !.rcv_nxt = @ + n]

ParseData(k, seg) ==
  IF seg.sn >= k.rcv_nxt + RcvWnd \/ seg.sn < k.rcv_nxt THEN k
  ELSE MoveAvailable(IF seg.sn \in Sns(k.rcv_buf) THEN k
                     ELSE [k EXCEPT !.rcv_buf = @ \cup {[sn |-> seg.sn, data |-> seg.data]}])

AckPush(k, sn) == [k EXCEPT !.acklist = Append(@, sn)]

\* One turn of the loop of ikcp_input.
InputSegment(k, seg) ==
  LET k1 == ShrinkBuf(ParseUna([k EXCEPT !.rmt_wnd = seg.wnd], seg.una))
  IN CASE seg.cmd = "ack" ->
            IF seg.sn < k1.snd_una \/ seg.sn >= k1.snd_nxt THEN k1 ELSE ShrinkBuf(ParseAck(k1, seg.sn))
       [] seg.cmd = "push" ->
            IF seg.sn < k1.rcv_nxt + RcvWnd THEN ParseData(AckPush(k1, seg.sn), seg) ELSE k1
       [] seg.cmd = "wask" -> [k1 EXCEPT !.probe = @ \cup {"tell"}]
       [] seg.cmd = "wins" -> k1

\* The congestion window after an advance of snd_una.  incr, which counts in
\* bytes, is abstracted: past ssthresh the window may stay or grow.
GrowCwnd(k) ==
  IF mode.noCwnd \/ k.cwnd >= k.rmt_wnd THEN {k}
  ELSE {[k EXCEPT !.cwnd = Least(@ + d, k.rmt_wnd)] : d \in IF k.cwnd < k.ssthresh THEN {1} ELSE 0..2}

SegSize(seg) == Overhead + Len(seg.data)
SizeOf(d) ==
  LET size[i \in 0..Len(d)] == IF i = 0 THEN 0 ELSE size[i - 1] + SegSize(d[i])
  IN size[Len(d)]

\* What Buffer::recvFrom leaves of a datagram: the segments that are there as a
\* whole, and whether ikcp_input comes upon one that is cut in its data.
WholeSegments(d) == Max({n \in 0..Len(d) : SizeOf(SubSeq(d, 1, n)) <= RecvRoom})
CutInData(d) == WholeSegments(d) < Len(d) /\ RecvRoom - SizeOf(SubSeq(d, 1, WholeSegments(d))) >= Overhead

\* The loop of ikcp_input.
InputSegments(k, segs) ==
  LET after[i \in 0..Len(segs)] == IF i = 0 THEN k ELSE InputSegment(after[i - 1], segs[i])
  IN after[Len(segs)]

\* ikcp_input returns at a segment that is cut in its data, before it looks at
\* the acknowledgements as a whole.
Input(k, d) ==
  LET segs == SubSeq(d, 1, WholeSegments(d))
      k1 == InputSegments(k, segs)
      acks == {segs[i].sn : i \in {j \in DOMAIN segs : segs[j].cmd = "ack"}}
      k2 == IF acks = {} THEN k1 ELSE ParseFastack(k1, Max(acks))
  IN IF CutInData(d) THEN {k1} ELSE IF k1.snd_una > k.snd_una THEN GrowCwnd(k2) ELSE {k2}

------------------------------------------------------------------------------
(* Sending: ikcp_flush and what calls it.                                     *)

WndUnused(k) == Most(RcvWnd - Len(k.rcv_queue), 0)

Seg(k, cmd, sn, data) == [cmd |-> cmd, sn |-> sn, data |-> data, una |-> k.rcv_nxt, wnd |-> WndUnused(k)]

\* Window of this flush.
Window(k) == LET w == Least(mode.sndWnd, k.rmt_wnd) IN IF mode.noCwnd THEN w ELSE Least(k.cwnd, w)

\* From snd_queue to snd_buf, as far as the window reaches.
MoveToBuf(k) ==
  LET n == Most(Least(Len(k.snd_queue), k.snd_una + Window(k) - k.snd_nxt), 0)
  IN [k EXCEPT !.snd_buf = @ \cup
                 {[sn |-> k.snd_nxt + i - 1, data |-> k.snd_queue[i], fastack |-> 0, xmit |-> 0] : i \in 1..n},
               !.snd_queue = SubSeq(@, n + 1, Len(@)),
               !.snd_nxt = @ + n]

\* Segments overtaken often enough to be sent again before they are overdue.
FastResent(k) ==
  {seg.sn : seg \in {x \in k.snd_buf : /\ mode.resend > 0 /\ x.xmit > 0
                                       /\ x.fastack >= mode.resend
                                       /\ FastLimit = 0 \/ x.xmit <= FastLimit}}

\* Slow start again after a timeout, half of the flight after a fast resend.
CutCwnd(k, cwnd, change, lost) ==
  LET k1 == IF change THEN [k EXCEPT !.ssthresh = Most((k.snd_nxt - k.snd_una) \div 2, 2),
                                     !.cwnd = Most((k.snd_nxt - k.snd_una) \div 2, 2) + mode.resend] ELSE k
      k2 == IF lost THEN [k1 EXCEPT !.ssthresh = Most(cwnd \div 2, 2), !.cwnd = 1] ELSE k1
  IN IF mode.noCwnd THEN k ELSE [k2 EXCEPT !.cwnd = Most(@, 1)]

\* mutant: the room left in a datagram is not looked at.
PackAll(segs) == IF segs = <<>> THEN <<>> ELSE <<segs>>

\* Segments into datagrams of at most Mtu.
PackNext(ds, seg) ==
  IF ds # <<>> /\ SizeOf(Last(ds)) + SegSize(seg) <= Mtu
  THEN Append(Front(ds), Append(Last(ds), seg)) ELSE Append(ds, <<seg>>)
Pack(segs) ==
  LET packed[i \in 0..Len(segs)] == IF i = 0 THEN <<>> ELSE PackNext(packed[i - 1], segs[i])
  IN packed[Len(segs)]

\* mutant: a shut window is never probed.
ControlsNoAsk(k, probe) ==
  [i \in DOMAIN k.acklist |-> Seg(k, "ack", k.acklist[i], <<>>)]
    \o (IF "tell" \in probe THEN <<Seg(k, "wins", 0, <<>>)>> ELSE <<>>)

\* What goes out of ikcp_flush besides data: acknowledgements and probes.
Controls(k, probe) ==
  [i \in DOMAIN k.acklist |-> Seg(k, "ack", k.acklist[i], <<>>)]
    \o (IF "ask" \in probe THEN <<Seg(k, "wask", 0, <<>>)>> ELSE <<>>)
    \o (IF "tell" \in probe THEN <<Seg(k, "wins", 0, <<>>)>> ELSE <<>>)

DataOf(k, order) == [i \in DOMAIN order |-> Seg(k, "push", order[i], At(k.snd_buf, order[i]).data)]

\* Segments that have been sent are sent again when they are overdue.
Overdue(k, overdue) == Sns({seg \in k.snd_buf : seg.xmit > 0 /\ seg.sn \in overdue})
Unsent(k) == Sns({seg \in k.snd_buf : seg.xmit = 0})

Emit(k, cwnd, probe, late, fast, order) ==
  [kcp |-> CutCwnd([k EXCEPT !.acklist = <<>>, !.probe = {}, !.probing = (k.rmt_wnd = 0),
             !.snd_buf = {IF seg.sn \notin ToSet(order) THEN seg
                          ELSE [seg EXCEPT !.xmit = Least(@ + 1, FastLimit + 1),
                                           !.fastack = IF seg.sn \in fast THEN 0 ELSE @] : seg \in @}],
             cwnd, fast # {}, late # {}),
   out |-> Pack(Controls(k, probe) \o DataOf(k, order))]

\* ikcp_flush, with the segments that are overdue and whether the probe is.
Flush(k, overdue, probeDue) ==
  UNION {{Emit(k1, Window(k), k.probe \cup (IF probeDue /\ k.probing /\ k.rmt_wnd = 0 THEN {"ask"} ELSE {}),
               late, fast, order) :
            order \in {Ascending(late \cup fast \cup Unsent(k1))}} :
           k1 \in {MoveToBuf(k)}, late \in {Overdue(MoveToBuf(k), overdue)},
           fast \in {FastResent(MoveToBuf(k)) \ overdue}}

\* Whether it is time to probe, which matters to a shut window only.
ProbeDue(k) == IF k.rmt_wnd = 0 /\ k.probing THEN BOOLEAN ELSE {FALSE}

\* ikcp_update: the first one flushes, a later one when the interval has passed.
IkcpUpdate(k, due, overdue, probeDue) ==
  IF due \/ ~k.updated THEN Flush([k EXCEPT !.updated = TRUE], overdue, probeDue)
  ELSE {[kcp |-> k, out |-> <<>>]}

\* ikcp_send in stream mode: fill the last segment of the queue, then cut the
\* rest.  What refuses a message of too many fragments does so after filling.
Fill(q, bytes) ==
  IF q = <<>> THEN 0 ELSE Least(Mss - Len(Last(q)), Len(bytes))
Filled(q, bytes) ==
  IF q = <<>> THEN q ELSE Append(Front(q), Last(q) \o SubSeq(bytes, 1, Fill(q, bytes)))
Fragments(bytes) ==
  [i \in 1..((Len(bytes) + Mss - 1) \div Mss) |->
     SubSeq(bytes, (i - 1) * Mss + 1, Least(i * Mss, Len(bytes)))]

\* mutant: the last segment is filled, but the message is cut from its start.
IkcpSendTwice(k, bytes) ==
  [ok |-> TRUE, kcp |-> [k EXCEPT !.snd_queue = Filled(@, bytes) \o Fragments(bytes)]]

IkcpSend(k, bytes) ==
  LET rest == Fragments(SubSeq(bytes, Fill(k.snd_queue, bytes) + 1, Len(bytes)))
  IN [ok |-> Len(rest) < MaxFrg,
      kcp |-> [k EXCEPT !.snd_queue = Filled(@, bytes) \o (IF Len(rest) < MaxFrg THEN rest ELSE <<>>)]]

WaitSnd(k) == Cardinality(k.snd_buf) + Len(k.snd_queue)

------------------------------------------------------------------------------
(* What KcpConnection does with it.                                           *)

\* kcpOutput: the datagrams of a flush follow those that are on the way.
Sent(e, ds) == net' = [net EXCEPT ![Peer(e)] = @ \o ds]

\* sendInLoop.  A message that is too much for now waits in m_outputBuffer.
\* ikcp_flush and the flush of kcpUpdateManual happen at one moment, so that one of
\* them does all: the second one, when nothing has been updated before.
SendInLoop(e, len) ==
  LET bytes == [i \in 1..len |-> given[e] + i]
      r == IkcpSend(kcp[e], bytes)
      hold == Len(output[e]) + WaitSnd(kcp[e]) + len >= Threshold
  IN /\ e \in Senders
     /\ ~aborted[e]
     /\ calls[e] < MaxSends
     /\ calls' = [calls EXCEPT ![e] = @ + 1]
     /\ given' = [given EXCEPT ![e] = @ + len]
     /\ output' = IF hold THEN [output EXCEPT ![e] = @ \o bytes] ELSE output
     /\ aborted' = [aborted EXCEPT ![e] = ~hold /\ ~r.ok]
     /\ IF hold \/ ~r.ok THEN UNCHANGED <<kcp, net>>
        ELSE \E overdue \in SUBSET Sns(kcp[e].snd_buf) : \E probeDue \in ProbeDue(kcp[e]) :
               \E f \in IkcpUpdate(r.kcp, TRUE, overdue, probeDue) :
                  /\ kcp' = [kcp EXCEPT ![e] = f.kcp]
                  /\ Sent(e, f.out)
                  /\ Len(net'[Peer(e)]) <= NetCap[Peer(e)]
     /\ UNCHANGED <<mode, input, faults, taken>>

\* The update timer: kcpUpdateManual, which arms it again.
KcpUpdateManual(e, overdue, probeDue, due) ==
  /\ ~aborted[e]
  /\ \E u \in IkcpUpdate(kcp[e], due, overdue, probeDue) :
        /\ kcp' = [kcp EXCEPT ![e] = u.kcp]
        /\ Sent(e, u.out)
        /\ Len(net'[Peer(e)]) <= NetCap[Peer(e)]
  /\ UNCHANGED <<mode, output, input, faults, calls, given, taken, aborted>>

\* ikcp_recv: in stream mode, one segment, if it fits.
CanRecv(e, k) == k.rcv_queue # <<>> /\ Len(Head(k.rcv_queue)) <= InputRoom - input[e]
Recv(k) ==
  LET k1 == MoveAvailable([k EXCEPT !.rcv_queue = Tail(@)])
  IN IF Len(k.rcv_queue) >= RcvWnd /\ Len(k1.rcv_queue) < RcvWnd
     THEN [k1 EXCEPT !.probe = @ \cup {"tell"}] ELSE k1

\* handleKcpMessage: the datagram, kcpUpdateManual, and one ikcp_recv, after
\* which the callback retrieves everything or leaves it for more to come.
HandleKcpMessage(e, d) ==
  \E k1 \in Input(kcp[e], d) : \E due \in BOOLEAN, probeDue \in ProbeDue(k1) :
    \E overdue \in SUBSET Sns(k1.snd_buf) : \E u \in IkcpUpdate(k1, due, overdue, probeDue) :
         IF CanRecv(e, u.kcp)
         THEN LET bytes == Head(u.kcp.rcv_queue)
              IN /\ kcp' = [kcp EXCEPT ![e] = Recv(u.kcp)]
                 /\ taken' = [taken EXCEPT ![e] = @ \o bytes]
                 /\ \E all \in BOOLEAN : input' = [input EXCEPT ![e] = IF all THEN 0 ELSE @ + Len(bytes)]
                 /\ net' = [net EXCEPT ![e] = Tail(@), ![Peer(e)] = @ \o u.out]
         ELSE /\ kcp' = [kcp EXCEPT ![e] = u.kcp]
              /\ net' = [net EXCEPT ![e] = Tail(@), ![Peer(e)] = @ \o u.out]
              /\ UNCHANGED <<taken, input>>

Deliver(e) ==
  /\ ~aborted[e]
  /\ net[e] # <<>>
  /\ HandleKcpMessage(e, Head(net[e]))
  /\ Len(net'[Peer(e)]) <= NetCap[Peer(e)]
  /\ Len(kcp'[e].acklist) <= AckCap
  /\ UNCHANGED <<mode, output, faults, calls, given, aborted>>

------------------------------------------------------------------------------
(* The network.                                                               *)

Fault(e, q) ==
  /\ faults < MaxFaults
  /\ net[e] # <<>>
  /\ Len(q) <= NetCap[e]
  /\ net' = [net EXCEPT ![e] = q]
  /\ faults' = faults + 1
  /\ UNCHANGED <<mode, kcp, output, input, calls, given, taken, aborted>>

Lose(e) == Fault(e, Tail(net[e]))
Double(e) == net[e] # <<>> /\ Fault(e, <<Head(net[e])>> \o net[e])
Overtake(e) == Len(net[e]) >= 2 /\ Fault(e, <<net[e][2], net[e][1]>> \o SubSeq(net[e], 3, Len(net[e])))

------------------------------------------------------------------------------
Send(e) == \E len \in Lens : SendInLoop(e, len)
TimerExpires(e) ==
  \E overdue \in SUBSET Sns(kcp[e].snd_buf), probeDue \in ProbeDue(kcp[e]), due \in BOOLEAN :
     KcpUpdateManual(e, overdue, probeDue, due)

KcpNext ==
  \E e \in Ends : Send(e) \/ TimerExpires(e) \/ Deliver(e) \/ Lose(e) \/ Double(e) \/ Overtake(e)

KcpSpec == KcpInit /\ [][KcpNext]_kcpVars

\* A flush with everything overdue would change something, and there is room for it.
CanUpdate(e) ==
  /\ ~aborted[e]
  /\ \E u \in IkcpUpdate(kcp[e], TRUE, Sns(kcp[e].snd_buf), TRUE) :
        /\ u.kcp # kcp[e] \/ u.out # <<>>
        /\ Len(net[Peer(e)]) + Len(u.out) <= NetCap[Peer(e)]

\* The timer goes on, and in the end every segment is overdue and the probe due (this
\* is weak fairness, with CanUpdate for ENABLED); what is on the way arrives, as
\* long as somebody is there to receive it.
KcpFairSpec ==
  /\ KcpSpec
  /\ \A e \in Ends :
       /\ \/ []<>(~CanUpdate(e))
          \/ []<><<KcpUpdateManual(e, Sns(kcp[e].snd_buf), TRUE, TRUE)>>_kcpVars
       /\ \/ []<>(net[e] = <<>> \/ aborted[e])
          \/ []<><<Len(net'[e]) < Len(net[e])>>_kcpVars

------------------------------------------------------------------------------
(* Properties.                                                                *)

Bytes == Seq(Nats)
SegType == [cmd : {"ack", "push", "wask", "wins"}, sn : Nat, una : Nat, wnd : 0..RcvWnd, data : Bytes]

\* The types of the two control blocks and of what is on the way.
KcpTypeOK ==
  /\ mode \in Modes
  /\ \A e \in Ends :
       /\ {kcp[e].snd_una, kcp[e].snd_nxt, kcp[e].rcv_nxt, kcp[e].cwnd, kcp[e].ssthresh} \subseteq Nat
       /\ kcp[e].rmt_wnd \in 0..RcvWnd
       /\ kcp[e].probe \subseteq {"ask", "tell"}
       /\ kcp[e].acklist \in Seq(Nat)
       /\ kcp[e].snd_queue \in Seq(Bytes) /\ kcp[e].rcv_queue \in Seq(Bytes)
       /\ kcp[e].snd_buf \subseteq [sn : Nat, data : Bytes, fastack : 0..mode.resend, xmit : 1..FastLimit + 1]
       /\ kcp[e].rcv_buf \subseteq [sn : Nat, data : Bytes]
       /\ Cardinality(Sns(kcp[e].snd_buf)) = Cardinality(kcp[e].snd_buf)
       /\ Cardinality(Sns(kcp[e].rcv_buf)) = Cardinality(kcp[e].rcv_buf)
       /\ net[e] \in Seq(Seq(SegType)) /\ Len(net[e]) <= NetCap[e]
       /\ \A i \in DOMAIN net[e] : SizeOf(net[e][i]) <= Mtu
       /\ output[e] \in Bytes /\ taken[e] \in Bytes
       /\ input[e] \in 0..InputRoom /\ given[e] \in Nat /\ calls[e] \in 0..MaxSends
  /\ faults \in 0..MaxFaults

\* The windows of ikcp_flush and ikcp_parse_data hold whatever the network
\* does: no more than snd_wnd is on the way, what is acknowledged is at the other
\* end, rcv_buf and rcv_queue keep within rcv_wnd, and the queue stops only when
\* it is full.
WindowsHold ==
  \A s \in Ends :
    LET a == kcp[s]
        b == kcp[Peer(s)]
    IN /\ Sns(a.snd_buf) \subseteq a.snd_una .. a.snd_nxt - 1
       /\ a.snd_nxt - a.snd_una <= mode.sndWnd
       /\ 0 .. a.snd_una - 1 \subseteq (0 .. b.rcv_nxt - 1) \cup Sns(b.rcv_buf)
       /\ b.rcv_nxt <= a.snd_nxt
       /\ Sns(b.rcv_buf) \subseteq b.rcv_nxt .. Least(a.snd_nxt, b.rcv_nxt + RcvWnd) - 1
       /\ Len(b.rcv_queue) <= RcvWnd
       /\ b.rcv_nxt \in Sns(b.rcv_buf) => Len(b.rcv_queue) = RcvWnd

\* Refinement: what an end has accepted, wherever it is now.
InFlight(s) ==
  LET a == kcp[s]
      b == kcp[Peer(s)]
      data(sn) == At(IF sn \in Sns(b.rcv_buf) THEN b.rcv_buf ELSE a.snd_buf, sn).data
  IN FlattenSeq([i \in 1 .. a.snd_nxt - b.rcv_nxt |-> data(b.rcv_nxt + i - 1)])
Accepted(s) ==
  taken[Peer(s)] \o FlattenSeq(kcp[Peer(s)].rcv_queue) \o InFlight(s) \o FlattenSeq(kcp[s].snd_queue)
Messages == {[i \in 1..len |-> n + i] : len \in Lens, n \in 0 .. MaxSends * Max(Lens)}

Stream == INSTANCE ByteStream WITH stream <- Accepted(1), got <- taken[Peer(1)], over <- "open"

\* The message callback of one end gets the bytes that the other end's ikcp_send
\* accepted, in order and once, whatever is lost, doubled or overtaken: at
\* any time what was handed on, the queues and the buffers make up that stream.
ImplementsByteStream == Stream!Spec

\* Sending can be stuck: a datagram that recvFrom must cut, a receiver whose input
\* buffer has no room for the next segment (and grows only in the callback that
\* it keeps from running), or an end that has aborted.
Stuck(s) ==
  \/ \E seg \in kcp[s].snd_buf : SegSize(seg) > RecvRoom
  \/ LET q == kcp[Peer(s)].rcv_queue IN q # <<>> /\ Len(Head(q)) > InputRoom - input[Peer(s)]
  \/ aborted[s] \/ aborted[Peer(s)]

\* What ikcp_send accepted is acknowledged in the end, by resending and by
\* probing of a window that was shut, also when the datagram that opens it again
\* and a probe are lost, unless sending is stuck.
AllAcknowledged == \A s \in Ends : []<>(WaitSnd(kcp[s]) = 0 \/ Stuck(s))
=============================================================================

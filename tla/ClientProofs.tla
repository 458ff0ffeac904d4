---------------------------- MODULE ClientProofs ----------------------------
(***************************************************************************)
(* What Client.tla guarantees for any delays, numbers of calls and of      *)
(* connections at one time, proved.                                        *)
(***************************************************************************)
EXTENDS Client, SequenceTheorems, TLAPS

USE ClientAssumption, ConnectorAssumption DEF ClientAssumption, ConnectorAssumption

------------------------------------------------------------------------------
(* What waits in the loop, in the order in which it will be run.              *)

Q == batch \o queue

In(s, e) == \E p \in DOMAIN s : s[p] = e
NotAhead(s, e, f) == \A p, q \in DOMAIN s : s[p] = e /\ s[q] = f => q <= p

Functor ==
  [op : {"start", "stop", "reset"}, id : {None}]
    \cup [op : {"forceClose", "destroyed", "setClose", "kcpClose", "kcpSetClose"}, id : Ids]

Starting == F("start", None)
Stopping == F("stop", None)
Resetting == F("reset", None)
Forcing(i) == F("forceClose", i)
Destroying(i) == F("destroyed", i)
KcpClosing(k) == F("kcpClose", k)

------------------------------------------------------------------------------
(* The inductive invariant, while nothing has gone wrong.                     *)

Calling ==
  [call : {"none", "connect", "stop", "stopAgain", "destroy", "destroyShared"},
   id : Ids \cup {None}]

Types ==
  /\ TypeOK
  /\ queue \in Seq(Functor) /\ batch \in Seq(Functor)
  /\ userAt \in Calling /\ gone \in BOOLEAN /\ wish \in BOOLEAN

\* The attempt, its channel and the functor that resets it; s is what waits.
AttemptInv(s) ==
  /\ connector.failed = "none"
  /\ connector.state = "connecting" <=> connector.channel = "live"
  /\ connector.channel = "removed" <=> In(s, Resetting)
  /\ NotAhead(s, Resetting, Resetting)
  /\ <<"connector", None>> \in todo => connector.channel = "live"

\* The client knows the one connection that is open.
TableInv(s) ==
  /\ connection # None => connector.state = "connected"
  /\ gone => connection = None
  /\ ~gone =>
       /\ \A i \in Ids : connection = i <=> tcp[i] \in {"connected", "disconnecting"}
       /\ \A i \in Ids : <<"tcp", i>> \in todo => connection = i
       /\ orphaned = {}
       /\ \A i \in Ids : ~In(s, F("setClose", i)) /\ ~In(s, F("kcpSetClose", i))
       /\ kcpConnection \in {None, connection}
       /\ kind = "tcp" => kcpConnection = None

\* No functor outlives its connection.
DestroyInv(s) ==
  ~gone => \A i \in Ids :
    /\ tcp[i] \in {"none", "closed"} => ~In(s, Forcing(i)) /\ ~In(s, Destroying(i))
    /\ connection = i => ~In(s, Destroying(i))
    /\ NotAhead(s, Destroying(i), Destroying(i)) /\ NotAhead(s, Destroying(i), Forcing(i))

\* The channel of the attempt that came through is reset before the connection ends;
\* b is the batch.
ResetInv(s, b) ==
  connector.channel = "removed" /\ connection # None =>
    /\ \/ phase = "events" /\ <<"tcp", connection>> \notin todo
       \/ phase = "functors" /\ In(b, Resetting)
    /\ NotAhead(s, Forcing(connection), Resetting)

Tries == connector.armed + connector.due

Fresh ==
  /\ connector.state = "disconnected" /\ connector.channel = "none" /\ Tries = 0
  /\ connection = None

\* Up to the first start, nothing has happened.
FirstInv(s) ==
  /\ starts = 0 =>
       /\ Fresh /\ userAt.call # "connect" /\ ~In(s, Starting)
       /\ ~gone => \A i \in Ids : ~In(s, Forcing(i)) /\ ~In(s, KcpClosing(i))
  /\ starts = 1 =>
       /\ userAt.call = "connect" => Fresh /\ ~In(s, Starting)
       /\ In(s, Starting) => Fresh
       /\ NotAhead(s, Starting, Starting)

\* With one start there is one attempt, retry or connection, and a retry meets no
\* channel of the attempt before.
OneInv(b) ==
  starts <= 1 =>
    /\ connector.channel = "live" \/ connection # None \/ connector.state = "connected" => Tries = 0
    /\ Tries <= 1
    /\ connector.due > 0 /\ connector.channel = "removed" => phase = "functors" /\ In(b, Resetting)

\* If no user closes it, the KCP connection the client has is not closed.
KcpInv(s) ==
  calls = 0 =>
    /\ kcpConnection # None => kcp[kcpConnection] \in {"connecting", "connected"}
    /\ \A k \in Ids : In(s, KcpClosing(k)) => kcp[k] \in {"disconnecting", "disconnected"}

\* No connection will be made any more.
Finished ==
  /\ connection = None /\ connector.channel # "live" /\ Tries = 0
  /\ userAt.call # "connect"

\* With one start, a KCP connection is closed before there is another connection.
Harmless(k, s, b) ==
  In(s, KcpClosing(k)) /\ kcp[k] # "disconnected" =>
    \/ connection = k
    \/ /\ connection = None
       /\ \/ Finished /\ ~In(s, Starting)
          \/ phase = "events" /\ <<"connector", None>> \notin todo
          \/ phase = "functors" /\ In(b, KcpClosing(k))

ForcedInv(s) ==
  starts = 1 /\ ~gone =>
    \A i \in Ids : In(s, Forcing(i)) /\ connection = i =>
      (~wish /\ userAt.call # "stop") \/ kcp[i] = "disconnected"

OtherInv(s, b) == starts = 1 /\ ~gone => \A k \in Ids : Harmless(k, s, b)

StopInv == stopped /\ ~raced => gone \/ (~wish /\ ~connector.connect)

Parts(s, b) ==
  /\ AttemptInv(s) /\ TableInv(s) /\ DestroyInv(s) /\ ResetInv(s, b) /\ FirstInv(s)
  /\ OneInv(b) /\ KcpInv(s) /\ ForcedInv(s) /\ OtherInv(s, b) /\ StopInv

IInv == NoFault /\ Types /\ (fault = "none" => Parts(Q, batch))

------------------------------------------------------------------------------
(* Sequences.                                                                 *)

\* What a concatenation has at each index.
LEMMA ConcatDomain ==
  ASSUME NEW S, NEW s \in Seq(S), NEW t \in Seq(S)
  PROVE  /\ DOMAIN s = 1..Len(s) /\ DOMAIN t = 1..Len(t) /\ Len(s) \in Nat /\ Len(t) \in Nat
         /\ DOMAIN (s \o t) = 1..(Len(s) + Len(t))
         /\ \A p \in 1..Len(s) : (s \o t)[p] = s[p]
         /\ \A p \in 1..Len(t) : (s \o t)[Len(s) + p] = t[p]
<1>1. /\ DOMAIN s = 1..Len(s) /\ DOMAIN t = 1..Len(t) /\ Len(s) \in Nat /\ Len(t) \in Nat
  BY LenProperties
<1>2. /\ s \o t \in Seq(S) /\ Len(s \o t) = Len(s) + Len(t)
      /\ \A p \in 1..(Len(s) + Len(t)) :
           (s \o t)[p] = IF p <= Len(s) THEN s[p] ELSE t[p - Len(s)]
  BY ConcatProperties
<1>3. DOMAIN (s \o t) = 1..(Len(s) + Len(t))
  BY <1>2, LenProperties
<1>4. QED  BY <1>1, <1>2, <1>3

\* An index of a concatenation is one of the first part or of the second.
LEMMA ConcatIndex ==
  ASSUME NEW k \in Nat, NEW l \in Nat, NEW p \in 1..(k + l)
  PROVE  p \in 1..k \/ \E r \in 1..l : p = k + r
<1>1. ASSUME ~(p \in 1..k) PROVE p - k \in 1..l /\ p = k + (p - k)
  BY <1>1
<1>2. QED  BY <1>1

\* A concatenation has what its parts have.
LEMMA InConcat ==
  ASSUME NEW S, NEW s \in Seq(S), NEW t \in Seq(S), NEW e
  PROVE  In(s \o t, e) <=> In(s, e) \/ In(t, e)
<1> DEFINE c == s \o t
           k == Len(s)
           l == Len(t)
<1>1. /\ DOMAIN s = 1..k /\ DOMAIN t = 1..l /\ k \in Nat /\ l \in Nat /\ DOMAIN c = 1..(k + l)
      /\ \A p \in 1..k : c[p] = s[p]
      /\ \A p \in 1..l : c[k + p] = t[p]
  BY ConcatDomain
<1>2. /\ \A p \in 1..k : p \in 1..(k + l)
      /\ \A p \in 1..l : k + p \in 1..(k + l)
  BY <1>1
<1>3. \A p \in 1..(k + l) : p \in 1..k \/ \E r \in 1..l : p = k + r
  BY <1>1, ConcatIndex
<1> HIDE DEF c, k, l
<1>4. In(s, e) \/ In(t, e) => In(c, e)
  BY <1>1, <1>2 DEF In
<1>5. ASSUME In(c, e) PROVE In(s, e) \/ In(t, e)
  <2>1. PICK p \in 1..(k + l) : c[p] = e
    BY <1>1, <1>5 DEF In
  <2>2. CASE p \in 1..k
    BY <2>1, <2>2, <1>1 DEF In
  <2>3. ASSUME NEW r \in 1..l, p = k + r PROVE In(t, e)
    BY <2>1, <2>3, <1>1 DEF In
  <2>4. QED  BY <2>2, <2>3, <1>3
<1>6. QED  BY <1>4, <1>5 DEF c

\* Every e is ahead of no f in a concatenation: so in each part, and not across them.
LEMMA NotAheadConcat ==
  ASSUME NEW S, NEW s \in Seq(S), NEW t \in Seq(S), NEW e, NEW f
  PROVE  NotAhead(s \o t, e, f) <=>
           NotAhead(s, e, f) /\ NotAhead(t, e, f) /\ ~(In(s, e) /\ In(t, f))
<1> DEFINE c == s \o t
           k == Len(s)
           l == Len(t)
<1>1. /\ DOMAIN s = 1..k /\ DOMAIN t = 1..l /\ k \in Nat /\ l \in Nat /\ DOMAIN c = 1..(k + l)
      /\ \A p \in 1..k : c[p] = s[p]
      /\ \A p \in 1..l : c[k + p] = t[p]
  BY ConcatDomain
<1>2. /\ \A p \in 1..k : p \in 1..(k + l)
      /\ \A p \in 1..l : k + p \in 1..(k + l)
      /\ \A p \in 1..k, r \in 1..l : p <= k + r /\ ~(k + r <= p)
      /\ \A p, r \in 1..l : k + p <= k + r <=> p <= r
  BY <1>1
<1>3. \A p \in 1..(k + l) : p \in 1..k \/ \E r \in 1..l : p = k + r
  BY <1>1, ConcatIndex
<1> HIDE DEF c, k, l
<1>4. ASSUME NotAhead(c, e, f)
      PROVE  NotAhead(s, e, f) /\ NotAhead(t, e, f) /\ ~(In(s, e) /\ In(t, f))
  <2>1. NotAhead(s, e, f)
    BY <1>1, <1>2, <1>4 DEF NotAhead
  <2>2. NotAhead(t, e, f)
    <3> SUFFICES ASSUME NEW p \in 1..l, NEW q \in 1..l, t[p] = e, t[q] = f PROVE q <= p
      BY <1>1 DEF NotAhead
    <3>1. k + q <= k + p
      BY <1>1, <1>2, <1>4 DEF NotAhead
    <3>2. QED  BY <3>1, <1>2
  <2>3. ~(In(s, e) /\ In(t, f))
    <3> SUFFICES ASSUME NEW p \in 1..k, NEW q \in 1..l, s[p] = e, t[q] = f PROVE FALSE
      BY <1>1 DEF In
    <3>1. k + q <= p
      BY <1>1, <1>2, <1>4 DEF NotAhead
    <3>2. QED  BY <3>1, <1>2
  <2>4. QED  BY <2>1, <2>2, <2>3
<1>5. ASSUME NotAhead(s, e, f), NotAhead(t, e, f), ~(In(s, e) /\ In(t, f))
      PROVE  NotAhead(c, e, f)
  <2> SUFFICES ASSUME NEW p \in 1..(k + l), NEW q \in 1..(k + l), c[p] = e, c[q] = f PROVE q <= p
    BY <1>1 DEF NotAhead
  <2>1. CASE p \in 1..k /\ q \in 1..k
    BY <2>1, <1>1, <1>5 DEF NotAhead
  <2>2. ASSUME NEW r \in 1..l, q = k + r, p \in 1..k PROVE FALSE
    BY <2>2, <1>1, <1>5 DEF In
  <2>3. ASSUME NEW r \in 1..l, p = k + r, q \in 1..k PROVE q <= p
    BY <2>3, <1>2
  <2>4. ASSUME NEW r \in 1..l, p = k + r, NEW u \in 1..l, q = k + u PROVE q <= p
    <3>1. u <= r
      BY <2>4, <1>1, <1>5 DEF NotAhead
    <3>2. QED  BY <3>1, <2>4, <1>2
  <2>5. QED  BY <2>1, <2>2, <2>3, <2>4, <1>3
<1>6. NotAhead(c, e, f) <=> NotAhead(s, e, f) /\ NotAhead(t, e, f) /\ ~(In(s, e) /\ In(t, f))
  BY <1>4, <1>5
<1>7. QED  BY <1>6 DEF c

\* An empty sequence has nothing.
LEMMA NothingIn ==
  ASSUME NEW e, NEW f
  PROVE  ~In(<<>>, e) /\ NotAhead(<<>>, e, f)
  BY DEF In, NotAhead

\* A sequence of one has that one.
LEMMA OneIn ==
  ASSUME NEW x, NEW e, NEW f
  PROVE  (In(<<x>>, e) <=> x = e) /\ NotAhead(<<x>>, e, f)
  BY DEF In, NotAhead

\* Names of what a step does to what waits: s becomes t.
Added(s, t, x) ==
  /\ \A e : In(t, e) <=> In(s, e) \/ x = e
  /\ \A e, f : NotAhead(t, e, f) <=> NotAhead(s, e, f) /\ ~(In(s, e) /\ x = f)
Taken(s, t, x) ==
  /\ \A e : In(s, e) <=> x = e \/ In(t, e)
  /\ \A e, f : NotAhead(s, e, f) <=> NotAhead(t, e, f) /\ ~(x = e /\ In(t, f))

\* queueInLoop adds its functor behind the others.
LEMMA AppendAdds ==
  ASSUME NEW S, NEW s \in Seq(S), NEW x \in S
  PROVE  Append(s, x) \in Seq(S) /\ Added(s, Append(s, x), x)
<1>1. Append(s, x) = s \o <<x>> /\ <<x>> \in Seq(S) /\ Append(s, x) \in Seq(S)
  BY AppendIsConcat
<1>2. \A e : In(s \o <<x>>, e) <=> In(s, e) \/ x = e
  BY <1>1, InConcat, OneIn
<1>3. \A e, f : NotAhead(s \o <<x>>, e, f) <=> NotAhead(s, e, f) /\ ~(In(s, e) /\ x = f)
  BY <1>1, NotAheadConcat, OneIn
<1>4. QED  BY <1>1, <1>2, <1>3 DEF Added

\* Running a functor takes the first one.
LEMMA TailTakes ==
  ASSUME NEW S, NEW s \in Seq(S), s # <<>>
  PROVE  Tail(s) \in Seq(S) /\ Head(s) \in S /\ Taken(s, Tail(s), Head(s))
<1>1. s = <<Head(s)>> \o Tail(s) /\ Head(s) \in S /\ Tail(s) \in Seq(S)
  BY HeadTailProperties, ConcatProperties
<1> DEFINE x == Head(s)
           t == Tail(s)
<1>2. <<x>> \in Seq(S)
  BY <1>1
<1> HIDE DEF x, t
<1>3. \A e : In(<<x>> \o t, e) <=> x = e \/ In(t, e)
  BY <1>1, <1>2, InConcat, OneIn DEF x, t
<1>4. \A e, f : NotAhead(<<x>> \o t, e, f) <=> NotAhead(t, e, f) /\ ~(x = e /\ In(t, f))
  BY <1>1, <1>2, NotAheadConcat, OneIn DEF x, t
<1>5. Taken(s, t, x)
  BY <1>1, <1>3, <1>4 DEF Taken, x, t
<1>6. QED  BY <1>1, <1>5 DEF x, t

\* The batch comes before what is queued meanwhile.
LEMMA QueueConcat ==
  ASSUME NEW S, NEW b \in Seq(S), NEW q \in Seq(S)
  PROVE  /\ b \o q \in Seq(S)
         /\ \A x \in S : b \o Append(q, x) = Append(b \o q, x)
         /\ b # <<>> => /\ Tail(b) \o q = Tail(b \o q) /\ Head(b \o q) = Head(b) /\ b \o q # <<>>
         /\ b = <<>> => b \o q = q
<1>1. b \o q \in Seq(S)
  BY ConcatProperties
<1>2. ASSUME NEW x \in S PROVE b \o Append(q, x) = Append(b \o q, x)
  <2>1. Append(q, x) = q \o <<x>> /\ Append(b \o q, x) = (b \o q) \o <<x>> /\ <<x>> \in Seq(S)
    BY <1>1, AppendIsConcat
  <2>2. b \o (q \o <<x>>) = (b \o q) \o <<x>>
    BY <2>1, ConcatAssociative
  <2>3. QED  BY <2>1, <2>2
<1>3. ASSUME b # <<>>
      PROVE  Tail(b) \o q = Tail(b \o q) /\ Head(b \o q) = Head(b) /\ b \o q # <<>>
  <2> DEFINE h == Head(b)
             r == Tail(b)
  <2>1. h \in S /\ r \in Seq(S) /\ b = <<h>> \o r
    BY <1>3, HeadTailProperties, ConcatProperties
  <2> HIDE DEF h, r
  <2>2. b \o q = <<h>> \o (r \o q) /\ r \o q \in Seq(S)
    <3>1. <<h>> \in Seq(S)
      BY <2>1
    <3>2. QED  BY <3>1, <2>1, ConcatAssociative, ConcatProperties
  <2>3. Head(<<h>> \o (r \o q)) = h /\ Tail(<<h>> \o (r \o q)) = r \o q /\ <<h>> \o (r \o q) # <<>>
    BY <2>1, <2>2, HeadTailProperties, ConcatProperties
  <2>4. QED  BY <2>2, <2>3 DEF h, r
<1>4. b = <<>> => b \o q = q
  BY ConcatEmptySeq
<1>5. QED  BY <1>1, <1>2, <1>3, <1>4

------------------------------------------------------------------------------
(* What the connector becomes.                                                *)

\* It makes an attempt, sets a timer, or does nothing more.
Attempts(c, d) ==
  /\ d.state = "connecting" /\ d.channel = "live" /\ d.armed = c.armed /\ d.due = c.due
  /\ d.failed = IF c.channel # "none" THEN "channel" ELSE c.failed
Retries(c, d) ==
  /\ d.state = "disconnected" /\ d.channel = c.channel /\ d.armed = c.armed + 1 /\ d.due = c.due
  /\ d.failed = c.failed
Rests(c, d) ==
  /\ d.state = "disconnected" /\ d.channel = c.channel /\ d.armed = c.armed /\ d.due = c.due
  /\ d.failed = c.failed

\* The delay of a retry keeps within its limits.
LEMMA DelayFacts == ASSUME NEW n \in InitDelay..MaxDelay PROVE Doubled(n) \in InitDelay..MaxDelay
  BY DEF Doubled

\* connect() makes an attempt, sets a timer for a retry, or neither.
LEMMA ConnectFacts ==
  ASSUME NEW c \in ConnectorType, c.state = "disconnected", NEW d \in Connect(c)
  PROVE  /\ d \in ConnectorType /\ d.connect = c.connect
         /\ Attempts(c, d) \/ Retries(c, d) \/ Rests(c, d)
<1>1. CASE d = Connecting(c)
  BY <1>1 DEF Connecting, ConnectorType, Attempts
<1>2. CASE d = Retry(c)
  <2>1. Doubled(c.delay) \in InitDelay..MaxDelay
    BY DelayFacts DEF ConnectorType
  <2>2. CASE c.connect
    <3> DEFINE n == c.armed + 1
    <3>1. d = [c EXCEPT !.state = "disconnected", !.armed = n, !.delay = Doubled(c.delay)]
      BY <1>2, <2>2 DEF Retry
    <3>2. n \in Nat
      BY DEF ConnectorType
    <3> HIDE DEF n
    <3>3. d \in ConnectorType /\ d.connect = c.connect
      BY <2>1, <3>1, <3>2 DEF ConnectorType
    <3>4. d.state = "disconnected" /\ d.channel = c.channel /\ d.armed = n /\ d.due = c.due /\ d.failed = c.failed
      BY <3>1 DEF ConnectorType
    <3>5. QED  BY <3>3, <3>4 DEF Retries, n
  <2>3. CASE ~c.connect
    <3>1. d = [c EXCEPT !.state = "disconnected"]
      BY <1>2, <2>3 DEF Retry
    <3>2. QED  BY <3>1 DEF ConnectorType, Rests
  <2>4. QED  BY <2>2, <2>3
<1>3. CASE d = [c EXCEPT !.refused = TRUE]
  BY <1>3 DEF ConnectorType, Rests
<1>4. QED  BY <1>1, <1>2, <1>3 DEF Connect

\* startInLoop() does the same, if the connector is disconnected as it asserts.
LEMMA StartFacts ==
  ASSUME NEW c \in ConnectorType, NEW d \in StartInLoop(c)
  PROVE  /\ d \in ConnectorType /\ d.connect = c.connect
         /\ c.state # "disconnected" => d.failed = "start"
         /\ c.state = "disconnected" => Attempts(c, d) \/ Retries(c, d) \/ Rests(c, d)
<1>1. CASE c.state # "disconnected"
  <2>1. d = [c EXCEPT !.failed = "start"]
    BY <1>1 DEF StartInLoop
  <2>2. QED  BY <2>1, <1>1 DEF ConnectorType
<1>2. CASE c.state = "disconnected" /\ c.connect
  <2>1. d \in Connect(c)
    BY <1>2 DEF StartInLoop
  <2>2. QED  BY <2>1, <1>2, ConnectFacts
<1>3. CASE c.state = "disconnected" /\ ~c.connect
  <2>1. d = c
    BY <1>3 DEF StartInLoop
  <2>2. QED  BY <2>1, <1>3 DEF Rests
<1>4. QED  BY <1>1, <1>2, <1>3 DEF ConnectorType

\* restart() does the same, whatever the state was.
LEMMA RestartFacts ==
  ASSUME NEW c \in ConnectorType, NEW d \in Restart(c)
  PROVE  /\ d \in ConnectorType /\ d.connect
         /\ Attempts(c, d) \/ Retries(c, d) \/ Rests(c, d)
<1> DEFINE e == [c EXCEPT !.state = "disconnected", !.delay = InitDelay, !.connect = TRUE]
<1>1. /\ e \in ConnectorType /\ e.state = "disconnected" /\ e.connect = TRUE
      /\ e.channel = c.channel /\ e.armed = c.armed /\ e.due = c.due /\ e.failed = c.failed
  <2>1. InitDelay \in InitDelay..MaxDelay
    OBVIOUS
  <2>2. QED  BY <2>1 DEF ConnectorType
<1>2. d \in StartInLoop(e)
  BY DEF Restart
<1> HIDE DEF e
<1>3. /\ d \in ConnectorType /\ d.connect = e.connect
      /\ Attempts(e, d) \/ Retries(e, d) \/ Rests(e, d)
  BY <1>1, <1>2, StartFacts
<1>4. QED  BY <1>1, <1>3 DEF Attempts, Retries, Rests

\* An attempt given up: its channel is out of the poller, and a retry may be to come.
LEMMA GiveUpFacts ==
  ASSUME NEW c \in ConnectorType, NEW d, d = GiveUpAttempt(c)
  PROVE  /\ d \in ConnectorType /\ d.connect = c.connect /\ d.state = "disconnected"
         /\ d.channel = "removed" /\ d.armed \in {c.armed, c.armed + 1} /\ d.due = c.due
         /\ d.failed = c.failed
<1>1. Doubled(c.delay) \in InitDelay..MaxDelay
  BY DelayFacts DEF ConnectorType
<1> DEFINE e == [c EXCEPT !.channel = "removed"]
<1>2. /\ e \in ConnectorType /\ e.connect = c.connect /\ e.channel = "removed"
      /\ e.armed = c.armed /\ e.due = c.due /\ e.failed = c.failed /\ e.delay = c.delay
  BY DEF ConnectorType
<1>3. d = Retry(e)
  BY DEF GiveUpAttempt, RemoveAndResetChannel
<1> HIDE DEF e
<1>4. CASE e.connect
  <2> DEFINE n == e.armed + 1
             y == Doubled(e.delay)
  <2>1. d = [e EXCEPT !.state = "disconnected", !.armed = n, !.delay = y]
    BY <1>3, <1>4 DEF Retry
  <2>2. n \in Nat /\ n = c.armed + 1 /\ y \in InitDelay..MaxDelay
    BY <1>1, <1>2 DEF ConnectorType
  <2> HIDE DEF n, y
  <2>3. d \in ConnectorType
    BY <1>2, <2>1, <2>2 DEF ConnectorType
  <2>4. QED  BY <1>2, <2>1, <2>2, <2>3 DEF ConnectorType
<1>5. CASE ~e.connect
  <2>1. d = [e EXCEPT !.state = "disconnected"]
    BY <1>3, <1>5 DEF Retry
  <2>2. QED  BY <1>2, <2>1 DEF ConnectorType
<1>6. QED  BY <1>4, <1>5

\* handleWrite() takes the channel out and is connected.
LEMMA ConnectedFacts ==
  ASSUME NEW c \in ConnectorType, NEW d, d = Connected(c)
  PROVE  /\ d \in ConnectorType /\ d.connect = c.connect /\ d.state = "connected"
         /\ d.channel = "removed" /\ d.armed = c.armed /\ d.due = c.due /\ d.failed = c.failed
  BY DEF Connected, RemoveAndResetChannel, ConnectorType

\* resetChannel() destroys the channel.
LEMMA ResetFacts ==
  ASSUME NEW c \in ConnectorType, NEW d, d = ResetChannel(c)
  PROVE  /\ d \in ConnectorType /\ d.connect = c.connect /\ d.state = c.state
         /\ d.channel = "none" /\ d.armed = c.armed /\ d.due = c.due /\ d.failed = c.failed
  BY DEF ResetChannel, ConnectorType

\* A turn later the timers that were set may expire.
LEMMA AgeFacts ==
  ASSUME NEW c \in ConnectorType, NEW d, d = Age(c)
  PROVE  /\ d \in ConnectorType /\ d.connect = c.connect /\ d.state = c.state
         /\ d.channel = c.channel /\ d.armed = 0 /\ d.due = c.due + c.armed /\ d.failed = c.failed
<1> DEFINE n == c.due + c.armed
<1>1. d = [c EXCEPT !.due = n, !.armed = 0]
  BY DEF Age
<1>2. n \in Nat
  BY DEF ConnectorType
<1> HIDE DEF n
<1> DEFINE e == [c EXCEPT !.due = n]
<1>3. e \in ConnectorType
  BY <1>2 DEF ConnectorType
<1>4. d = [e EXCEPT !.armed = 0]
  BY <1>1 DEF ConnectorType
<1>5. d \in ConnectorType
  <2> HIDE DEF e
  <2>1. QED  BY <1>3, <1>4 DEF ConnectorType
<1>6. QED  BY <1>1, <1>5 DEF ConnectorType, n

\* A retry timer is gone when it runs startInLoop.
LEMMA ExpireFacts ==
  ASSUME NEW c \in ConnectorType, c.due > 0, NEW d \in Expire(c)
  PROVE  \E e \in ConnectorType :
           /\ e.due = c.due - 1 /\ e.armed = c.armed /\ e.state = c.state /\ e.channel = c.channel
           /\ e.failed = c.failed /\ e.connect = c.connect
           /\ d \in StartInLoop(e)
<1> DEFINE e == [c EXCEPT !.due = @ - 1]
<1>1. /\ e \in ConnectorType /\ e.due = c.due - 1 /\ e.armed = c.armed /\ e.state = c.state
      /\ e.channel = c.channel /\ e.failed = c.failed /\ e.connect = c.connect
  BY DEF ConnectorType
<1>2. d \in StartInLoop(e)
  BY DEF Expire
<1>3. QED  BY <1>1, <1>2

\* The user's thread assigns m_connect.
LEMMA AssignFacts ==
  ASSUME NEW c \in ConnectorType, NEW b \in BOOLEAN, NEW d, d = [c EXCEPT !.connect = b]
  PROVE  /\ d \in ConnectorType /\ d.connect = b /\ d.state = c.state
         /\ d.channel = c.channel /\ d.armed = c.armed /\ d.due = c.due /\ d.failed = c.failed
  BY DEF ConnectorType

------------------------------------------------------------------------------
(* How functors are named.                                                    *)

\* The functors there are.
LEMMA Names ==
  /\ \A o, o2, i, i2 : F(o, i) = F(o2, i2) <=> o = o2 /\ i = i2
  /\ \A o, i : F(o, i).op = o /\ F(o, i).id = i
  /\ {Starting, Stopping, Resetting} \subseteq Functor
  /\ \A i \in Ids : \A o \in {"forceClose", "destroyed", "setClose", "kcpClose", "kcpSetClose"} :
       F(o, i) \in Functor
<1>1. \A o, o2, i, i2 : F(o, i) = F(o2, i2) <=> o = o2 /\ i = i2
  BY DEF F
<1>2. QED  BY <1>1 DEF F, Functor, Starting, Stopping, Resetting

\* A functor is what its fields say.
LEMMA FunctorFields ==
  ASSUME NEW f \in Functor
  PROVE  /\ f = F(f.op, f.id)
         /\ f.op \in {"start", "stop", "reset"} => f.id = None
         /\ f.op \in {"forceClose", "destroyed", "setClose", "kcpClose", "kcpSetClose"} => f.id \in Ids
         /\ f.op \in {"start", "stop", "reset", "forceClose", "destroyed", "setClose", "kcpClose", "kcpSetClose"}
  BY DEF Functor, F

\* A functor that runs leaves the others, and may queue one.
LEMMA QueueFacts ==
  ASSUME Types
  PROVE  /\ Q \in Seq(Functor)
         /\ \A x \in Functor : queue' = Append(queue, x) /\ batch' = batch =>
              queue' \in Seq(Functor) /\ Q' = Append(Q, x) /\ Added(Q, Q', x)
<1>1. queue \in Seq(Functor) /\ batch \in Seq(Functor)
  BY DEF Types
<1>2. Q \in Seq(Functor)
  BY <1>1, QueueConcat DEF Q
<1>3. ASSUME NEW x \in Functor, queue' = Append(queue, x), batch' = batch
      PROVE  queue' \in Seq(Functor) /\ Q' = Append(Q, x) /\ Added(Q, Q', x)
  <2>1. Q' = batch \o Append(queue, x)
    BY <1>3 DEF Q
  <2>2. Q' = Append(Q, x)
    BY <2>1, <1>1, QueueConcat DEF Q
  <2>3. QED  BY <2>2, <1>1, <1>2, <1>3, AppendAdds
<1>4. QED  BY <1>2, <1>3

------------------------------------------------------------------------------
(* Turns of the loop.                                                         *)

\* What Parts says when nothing has gone wrong, and what a step has to show.
Keeps == NoFault' /\ Types' /\ (fault' = "none" => Parts(Q, batch)')

\* The timer that holds the connector touches nothing the invariant is about.
LEMMA HoldTimerKeeps ==
  ASSUME Types, fault = "none", Parts(Q, batch), HoldTimer
  PROVE  Keeps
<1>1. /\ UNCHANGED <<phase, active, todo, batch, queue, kind, retry, wish, connector>>
      /\ UNCHANGED <<connection, tcp, orphaned, kcpConnection, kcp, verifying>>
      /\ UNCHANGED <<userAt, starts, calls, gone, stopped, raced, fault>>
  BY DEF HoldTimer, InTimers, tcpVars, kcpVars, userVars
<1>2. Q' = Q
  BY <1>1 DEF Q
<1>3. Types' /\ NoFault'
  BY <1>1 DEF Types, TypeOK, NoFault
<1>4. Parts(Q, batch)'
  <2>1. AttemptInv(Q)' /\ TableInv(Q)' /\ DestroyInv(Q)'
    BY <1>1, <1>2 DEF Parts, AttemptInv, TableInv, DestroyInv
  <2>2. ResetInv(Q, batch)' /\ FirstInv(Q)' /\ OneInv(batch)'
    BY <1>1, <1>2 DEF Parts, ResetInv, FirstInv, OneInv, Tries, Fresh
  <2>3. KcpInv(Q)' /\ ForcedInv(Q)' /\ OtherInv(Q, batch)' /\ StopInv'
    BY <1>1, <1>2 DEF Parts, KcpInv, ForcedInv, OtherInv, Harmless, Finished, StopInv, Tries
  <2>4. QED  BY <2>1, <2>2, <2>3 DEF Parts
<1>5. QED  BY <1>3, <1>4 DEF Keeps

\* The batch is done, and the next turn begins.
LEMMA NextTurnKeeps ==
  ASSUME Types, fault = "none", Parts(Q, batch), NextTurn
  PROVE  Keeps
<1>1. /\ phase = "functors" /\ phase' = "timers" /\ batch = <<>>
      /\ UNCHANGED <<active, todo, batch, queue, kind, retry, wish, connector>>
      /\ UNCHANGED <<connection, tcp, orphaned, kcpConnection, kcp, verifying>>
      /\ UNCHANGED <<userAt, starts, calls, gone, stopped, raced, fault>>
  BY DEF NextTurn, tcpVars, kcpVars, userVars
<1>2. Q' = Q
  BY <1>1 DEF Q
<1>3. \A e : ~In(batch, e)
  BY <1>1, NothingIn
<1>4. Types' /\ NoFault'
  BY <1>1 DEF Types, TypeOK, NoFault
<1>5. Parts(Q, batch)'
  <2>1. AttemptInv(Q)' /\ TableInv(Q)' /\ DestroyInv(Q)'
    BY <1>1, <1>2 DEF Parts, AttemptInv, TableInv, DestroyInv
  <2>2. ResetInv(Q, batch)' /\ FirstInv(Q)' /\ OneInv(batch)'
    BY <1>1, <1>2, <1>3 DEF Parts, ResetInv, FirstInv, OneInv, Tries, Fresh
  <2>3. KcpInv(Q)' /\ ForcedInv(Q)' /\ StopInv'
    BY <1>1, <1>2 DEF Parts, KcpInv, ForcedInv, StopInv
  <2>4. OtherInv(Q, batch)'
    BY <1>1, <1>2, <1>3 DEF Parts, OtherInv, Harmless, Finished, Tries
  <2>5. QED  BY <2>1, <2>2, <2>3, <2>4 DEF Parts
<1>6. QED  BY <1>4, <1>5 DEF Keeps

\* Poll reports channels that are registered and ready.
LEMMA PollKeeps ==
  ASSUME Types, fault = "none", Parts(Q, batch), Poll
  PROVE  Keeps
<1>1. /\ phase = "timers" /\ phase' = "events" /\ todo' = active' /\ todo' \subseteq Ready
      /\ UNCHANGED <<batch, queue, kind, retry, wish, connector>>
      /\ UNCHANGED <<connection, tcp, orphaned, kcpConnection, kcp, verifying>>
      /\ UNCHANGED <<userAt, starts, calls, gone, stopped, raced, fault>>
  BY DEF Poll, tcpVars, kcpVars, userVars
<1>2. Q' = Q
  BY <1>1 DEF Q
<1>3. /\ Ready \subseteq Channels
      /\ <<"connector", None>> \in Ready => connector.channel = "live"
      /\ \A i \in Ids : <<"tcp", i>> \in Ready => tcp[i] \in {"connected", "disconnecting"}
  BY DEF Ready, CanClose
<1>4. Types' /\ NoFault'
  BY <1>1, <1>3 DEF Types, TypeOK, NoFault
<1>5. Parts(Q, batch)'
  <2>1. AttemptInv(Q)' /\ TableInv(Q)' /\ DestroyInv(Q)'
    BY <1>1, <1>2, <1>3 DEF Parts, AttemptInv, TableInv, DestroyInv
  <2>2. ResetInv(Q, batch)' /\ FirstInv(Q)' /\ OneInv(batch)'
    BY <1>1, <1>2 DEF Parts, ResetInv, FirstInv, OneInv, Tries, Fresh
  <2>3. KcpInv(Q)' /\ ForcedInv(Q)' /\ StopInv'
    BY <1>1, <1>2 DEF Parts, KcpInv, ForcedInv, StopInv
  <2>4. OtherInv(Q, batch)'
    BY <1>1, <1>2 DEF Parts, OtherInv, Harmless, Finished, Tries
  <2>5. QED  BY <2>1, <2>2, <2>3, <2>4 DEF Parts
<1>6. QED  BY <1>4, <1>5 DEF Keeps

\* What waits is the same, but now it is in the batch.
LEMMA SwapKeeps ==
  ASSUME Types, fault = "none", Parts(Q, batch), Swap
  PROVE  Keeps
<1>1. /\ phase = "events" /\ todo = {} /\ phase' = "functors" /\ active' = {} /\ batch' = queue /\ queue' = <<>>
      /\ connector' = Age(connector)
      /\ UNCHANGED <<todo, kind, retry, wish>>
      /\ UNCHANGED <<connection, tcp, orphaned, kcpConnection, kcp, verifying>>
      /\ UNCHANGED <<userAt, starts, calls, gone, stopped, raced, fault>>
  BY DEF Swap, tcpVars, kcpVars, userVars
<1>2. Q = queue /\ Q' = queue /\ batch' = Q
  <2>1. batch = <<>> /\ queue \in Seq(Functor)
    BY <1>1 DEF Types, TypeOK
  <2>2. QED  BY <1>1, <2>1, ConcatEmptySeq DEF Q
<1>3. /\ connector' \in ConnectorType /\ connector'.connect = connector.connect
      /\ connector'.state = connector.state /\ connector'.channel = connector.channel
      /\ connector'.failed = connector.failed /\ Tries' = Tries
  <2>1. connector \in ConnectorType
    BY DEF Types, TypeOK
  <2>2. /\ connector' \in ConnectorType /\ connector'.connect = connector.connect
        /\ connector'.state = connector.state /\ connector'.channel = connector.channel
        /\ connector'.failed = connector.failed
        /\ connector'.armed = 0 /\ connector'.due = connector.due + connector.armed
    BY <1>1, <2>1, AgeFacts
  <2>3. connector.armed \in Nat /\ connector.due \in Nat
    BY <2>1 DEF ConnectorType
  <2>4. Tries' = Tries
    BY <2>2, <2>3 DEF Tries
  <2>5. QED  BY <2>2, <2>4
<1>4. Types' /\ NoFault'
  <2>1. <<>> \in Seq(Functor)
    OBVIOUS
  <2>2. QED  BY <1>1, <1>3, <2>1 DEF Types, TypeOK, NoFault
<1>5. Parts(Q, batch)'
  <2>1. AttemptInv(Q)' /\ TableInv(Q)' /\ DestroyInv(Q)'
    BY <1>1, <1>2, <1>3 DEF Parts, AttemptInv, TableInv, DestroyInv
  <2>2. ResetInv(Q, batch)' /\ FirstInv(Q)'
    BY <1>1, <1>2, <1>3 DEF Parts, AttemptInv, ResetInv, FirstInv, Fresh
  <2>3. OneInv(batch)'
    BY <1>1, <1>2, <1>3 DEF Parts, AttemptInv, OneInv
  <2>4. KcpInv(Q)' /\ ForcedInv(Q)' /\ StopInv'
    BY <1>1, <1>2, <1>3 DEF Parts, KcpInv, ForcedInv, StopInv
  <2>5. OtherInv(Q, batch)'
    BY <1>1, <1>2, <1>3 DEF Parts, OtherInv, Harmless, Finished
  <2>6. QED  BY <2>1, <2>2, <2>3, <2>4, <2>5 DEF Parts
<1>6. QED  BY <1>4, <1>5 DEF Keeps

\* The functors that Queued asks for are among what waits.
LEMMA QueuedFacts ==
  ASSUME Types
  PROVE  \A ops, id : Queued(ops, id) <=> \E o \in ops : In(Q, F(o, id))
<1>1. Q \in Seq(Functor)
  BY QueueFacts
<1>2. \A p \in DOMAIN Q : Q[p] = F(Q[p].op, Q[p].id)
  <2>1. \A p \in DOMAIN Q : Q[p] \in Functor
    BY <1>1, ElementOfSeq, LenProperties
  <2>2. QED  BY <2>1, FunctorFields
<1>3. \A o, i : F(o, i).op = o /\ F(o, i).id = i
  BY Names
<1>4. QED  BY <1>2, <1>3 DEF Queued, In, Q

\* What an attempt or a retry does, where neither a channel nor a connection is left.
LEMMA RetryTimerKeeps ==
  ASSUME Types, fault = "none", Parts(Q, batch), NoFault, RetryTimer
  PROVE  Keeps
<1>1. /\ phase = "timers" /\ connector.due > 0 /\ connector' \in Expire(connector)
      /\ fault' = connector'.failed
      /\ UNCHANGED <<phase, active, todo, batch, queue, kind, retry, wish>>
      /\ UNCHANGED <<connection, tcp, orphaned, kcpConnection, kcp, verifying>>
      /\ UNCHANGED <<userAt, starts, calls, gone, stopped, raced>>
  BY DEF RetryTimer, InTimers, tcpVars, kcpVars, userVars
<1>2. Q' = Q
  BY <1>1 DEF Q
<1>3. connector \in ConnectorType /\ connector.armed \in Nat /\ connector.due \in Nat
  BY DEF Types, TypeOK, ConnectorType
<1>4. PICK e \in ConnectorType :
           /\ e.due = connector.due - 1 /\ e.armed = connector.armed /\ e.state = connector.state
           /\ e.channel = connector.channel /\ e.failed = connector.failed
           /\ e.connect = connector.connect /\ connector' \in StartInLoop(e)
  BY <1>1, <1>3, ExpireFacts
<1>5. /\ connector' \in ConnectorType /\ connector'.connect = connector.connect
      /\ connector.state # "disconnected" => connector'.failed = "start"
      /\ connector.state = "disconnected" =>
           Attempts(e, connector') \/ Retries(e, connector') \/ Rests(e, connector')
  BY <1>4, StartFacts
<1>6. todo = {} /\ starts \in 0..MaxStarts
  BY <1>1 DEF Types, TypeOK
<1>7. /\ connector.failed = "none"
      /\ connector.channel = "live" <=> connector.state = "connecting"
      /\ connector.state \in {"disconnected", "connecting", "connected"}
  BY <1>3 DEF Parts, AttemptInv, ConnectorType
\* With one start, the timer finds neither a channel nor a connection.
<1>8. starts <= 1 =>
        /\ starts = 1 /\ connector.state = "disconnected" /\ connector.channel = "none"
        /\ connection = None /\ connector.due = 1 /\ connector.armed = 0
  <2>1. Tries > 0 /\ (Tries <= 1 => connector.due = 1 /\ connector.armed = 0)
    BY <1>1, <1>3 DEF Tries
  <2>2. starts # 0
    BY <2>1 DEF Parts, FirstInv, Fresh
  <2>3. ASSUME starts <= 1
        PROVE  /\ connector.channel # "live" /\ connection = None /\ connector.state # "connected"
               /\ connector.channel # "removed" /\ Tries <= 1
    BY <2>1, <2>3, <1>1 DEF Parts, OneInv
  <2>4. connector.channel \in {"none", "live", "removed"}
    BY <1>3 DEF ConnectorType
  <2>5. QED  BY <2>1, <2>2, <2>3, <2>4, <1>6, <1>7
<1>9. NoFault'
  <2>1. connector'.failed \in {"none", "start", "channel"}
    BY <1>5 DEF ConnectorType
  <2>2. ASSUME starts <= 1 PROVE connector'.failed = "none"
    <3>1. e.channel = "none" /\ e.failed = "none"
      BY <1>4, <1>7, <1>8, <2>2
    <3>2. Attempts(e, connector') \/ Retries(e, connector') \/ Rests(e, connector')
      BY <1>5, <1>8, <2>2
    <3>3. QED  BY <3>1, <3>2 DEF Attempts, Retries, Rests
  <2>3. QED  BY <2>1, <2>2, <1>1, <1>6 DEF NoFault
<1>10. Types'
  BY <1>1, <1>5 DEF Types, TypeOK
<1>11. ASSUME fault' = "none" PROVE Parts(Q, batch)'
  <2>1. /\ connector.state = "disconnected"
        /\ Attempts(e, connector') \/ Retries(e, connector') \/ Rests(e, connector')
    BY <1>1, <1>5, <1>11
  <2>2. connection = None
    BY <2>1 DEF Parts, TableInv
  <2>3. /\ connector'.failed = "none"
        /\ \/ connector'.state = "connecting" /\ connector'.channel = "live" /\ connector.channel = "none"
           \/ connector'.state = "disconnected" /\ connector'.channel = connector.channel
    BY <1>1, <1>4, <1>11, <2>1 DEF Attempts, Retries, Rests
  <2>4. AttemptInv(Q)'
    BY <1>1, <1>2, <1>6, <1>7, <2>1, <2>3 DEF Parts, AttemptInv
  <2>5. TableInv(Q)' /\ DestroyInv(Q)' /\ ResetInv(Q, batch)'
    BY <1>1, <1>2, <2>2 DEF Parts, TableInv, DestroyInv, ResetInv
  <2>6. starts # 0 /\ Tries # 0
    BY <1>1, <1>3, <1>8 DEF Tries
  <2>7. FirstInv(Q)'
    BY <1>1, <1>2, <2>6 DEF Parts, FirstInv, Fresh
  <2>8. OneInv(batch)'
    <3>1. ASSUME starts <= 1
          PROVE  /\ connector'.due = 0 /\ connector'.armed \in {0, 1}
                 /\ connector'.state # "connected" /\ connector'.channel # "removed"
                 /\ connector'.channel = "live" => connector'.armed = 0
      <4>1. e.armed = 0 /\ e.due = 0 /\ e.channel = "none"
        BY <1>4, <1>8, <3>1
      <4>2. QED  BY <4>1, <2>1 DEF Attempts, Retries, Rests
    <3>2. starts <= 1 => Tries' = connector'.armed /\ ~(connector'.due > 0)
      BY <3>1 DEF Tries
    <3>3. QED  BY <3>1, <3>2, <1>1, <2>2 DEF OneInv
  <2>9. KcpInv(Q)' /\ ForcedInv(Q)' /\ StopInv'
    BY <1>1, <1>2, <1>5 DEF Parts, KcpInv, ForcedInv, StopInv
  <2>10. OtherInv(Q, batch)'
    BY <1>1, <1>2, <2>2, <2>6 DEF Parts, OtherInv, Harmless, Finished
  <2>11. QED  BY <2>4, <2>5, <2>7, <2>8, <2>9, <2>10 DEF Parts
<1>12. QED  BY <1>9, <1>10, <1>11 DEF Keeps

------------------------------------------------------------------------------
(* Events.                                                                    *)

\* An attempt fails: its channel is taken out and a retry is to come.
LEMMA AttemptFailsKeeps ==
  ASSUME Types, fault = "none", Parts(Q, batch), AttemptFails
  PROVE  Keeps
<1>1. /\ phase = "events" /\ <<"connector", None>> \in todo /\ todo' = todo \ {<<"connector", None>>}
      /\ connector' = GiveUpAttempt(connector)
      /\ queue' = Append(queue, Resetting)
      /\ fault' = IF ConnectorHeld THEN "none" ELSE "connector"
      /\ UNCHANGED <<phase, active, batch, kind, retry, wish, hold>>
      /\ UNCHANGED <<connection, tcp, orphaned, kcpConnection, kcp, verifying>>
      /\ UNCHANGED <<userAt, starts, calls, gone, stopped, raced>>
  BY DEF AttemptFails, Event, tcpVars, kcpVars, userVars, Resetting
<1>2. Resetting \in Functor
  BY Names
<1>3. queue' \in Seq(Functor) /\ Added(Q, Q', Resetting)
  BY <1>1, <1>2, QueueFacts
<1>4. connector \in ConnectorType /\ connector.armed \in Nat /\ connector.due \in Nat
  BY DEF Types, TypeOK, ConnectorType
<1>5. /\ connector' \in ConnectorType /\ connector'.connect = connector.connect
      /\ connector'.state = "disconnected" /\ connector'.channel = "removed"
      /\ connector'.armed \in {connector.armed, connector.armed + 1}
      /\ connector'.due = connector.due /\ connector'.failed = connector.failed
  BY <1>1, <1>4, GiveUpFacts
<1>6. connector.channel = "live" /\ connector.state = "connecting" /\ connection = None
  BY <1>1 DEF Parts, AttemptInv, TableInv
<1>7. Types' /\ NoFault'
  <2>1. Types'
    BY <1>1, <1>3, <1>5 DEF Types, TypeOK
  <2>2. NoFault'
    BY <1>1 DEF NoFault, ConnectorHeld
  <2>3. QED  BY <2>1, <2>2
<1>8. Parts(Q, batch)'
  <2>1. AttemptInv(Q)'
    BY <1>1, <1>3, <1>5, <1>6, Names DEF Parts, AttemptInv, Added
  <2>2. TableInv(Q)'
    BY <1>1, <1>3, <1>6, Names DEF Parts, TableInv, Added, Resetting
  <2>3. DestroyInv(Q)'
    BY <1>1, <1>3, <1>6, Names DEF Parts, DestroyInv, Added, Resetting, Forcing, Destroying
  <2>4. ResetInv(Q, batch)'
    BY <1>1, <1>6 DEF ResetInv
  <2>5. FirstInv(Q)'
    BY <1>1, <1>3, <1>6, Names DEF Parts, FirstInv, Fresh, Added, Resetting, Starting
  <2>6. OneInv(batch)'
    <3>1. starts <= 1 => connector.armed = 0 /\ connector.due = 0
      <4>1. starts <= 1 => Tries = 0
        BY <1>6 DEF Parts, OneInv
      <4>2. QED  BY <4>1, <1>4 DEF Tries
    <3>2. starts <= 1 => Tries' <= 1 /\ ~(connector'.due > 0)
      BY <3>1, <1>4, <1>5 DEF Tries
    <3>3. QED  BY <3>2, <1>1, <1>5, <1>6 DEF OneInv
  <2>7. KcpInv(Q)'
    BY <1>1, <1>3, Names DEF Parts, KcpInv, Added, Resetting, KcpClosing
  <2>8. ForcedInv(Q)' /\ StopInv'
    BY <1>1, <1>5, <1>6 DEF Parts, ForcedInv, StopInv
  <2>9. OtherInv(Q, batch)'
    BY <1>1, <1>3, <1>6, Names DEF Parts, OtherInv, Harmless, Finished, Added, Resetting, KcpClosing
  <2>10. QED  BY <2>1, <2>2, <2>3, <2>4, <2>5, <2>6, <2>7, <2>8, <2>9 DEF Parts
<1>9. QED  BY <1>7, <1>8 DEF Keeps

\* An attempt comes through: a connection of a number that is free.
LEMMA AttemptSucceedsKeeps ==
  ASSUME Types, fault = "none", Parts(Q, batch), AttemptSucceeds
  PROVE  Keeps
<1> DEFINE i == CHOOSE j \in Free : TRUE
           made == connector.connect /\ ~gone
<1>1. /\ phase = "events" /\ <<"connector", None>> \in todo /\ todo' = todo \ {<<"connector", None>>}
      /\ connector' = Connected(connector)
      /\ queue' = Append(queue, Resetting)
      /\ fault' \in {"none", "connector", "client"} /\ (~gone => fault' = "none")
      /\ UNCHANGED <<phase, active, batch, kind, retry, wish, hold, kcpConnection, verifying>>
      /\ UNCHANGED <<userAt, starts, calls, gone, stopped, raced>>
  BY DEF AttemptSucceeds, Event, userVars, Resetting, ConnectorHeld
<1>2. IF made
      THEN /\ connection' = i
           /\ tcp' = [tcp EXCEPT ![i] = "connected"]
           /\ kcp' = [kcp EXCEPT ![i] = "none"]
           /\ orphaned' = orphaned \ ({"tcp", "kcp"} \X {i})
      ELSE UNCHANGED <<connection, tcp, orphaned, kcp>>
  BY DEF AttemptSucceeds, NewConnection, tcpVars
<1>3. i \in Free /\ i \in Ids
  <2>1. Free # {}
    BY DEF AttemptSucceeds
  <2>2. QED  BY <2>1 DEF Free
<1>4. /\ tcp[i] \in {"none", "closed"}
      /\ ~In(Q, KcpClosing(i))
  <2>1. ~Queued({"kcpClose", "kcpSetClose"}, i)
    BY <1>3 DEF Free, KcpHeld
  <2>2. QED  BY <1>3, <2>1, QueuedFacts DEF Free, KcpClosing
<1> HIDE DEF i
<1>5. queue' \in Seq(Functor) /\ Added(Q, Q', Resetting)
  BY <1>1, Names, QueueFacts
<1>6. connector \in ConnectorType /\ connector.armed \in Nat /\ connector.due \in Nat
  BY DEF Types, TypeOK, ConnectorType
<1>7. /\ connector' \in ConnectorType /\ connector'.connect = connector.connect
      /\ connector'.state = "connected" /\ connector'.channel = "removed"
      /\ connector'.armed = connector.armed
      /\ connector'.due = connector.due /\ connector'.failed = connector.failed
  BY <1>1, <1>6, ConnectedFacts
<1>8. connector.channel = "live" /\ connector.state = "connecting" /\ connection = None
  BY <1>1 DEF Parts, AttemptInv, TableInv
<1>9. Types' /\ NoFault'
  <2>1. connection' \in Ids \cup {None} /\ orphaned' \subseteq {"tcp", "kcp"} \X Ids
    BY <1>2, <1>3 DEF Types, TypeOK
  <2>2. /\ tcp' \in [Ids -> {"none", "connected", "disconnecting", "disconnected", "closed"}]
        /\ kcp' \in [Ids -> {"none", "connecting", "connected", "disconnecting", "disconnected"}]
    BY <1>2, <1>3 DEF Types, TypeOK
  <2>3. Types'
    BY <1>1, <1>5, <1>7, <2>1, <2>2 DEF Types, TypeOK
  <2>4. NoFault'
    BY <1>1 DEF NoFault
  <2>5. QED  BY <2>3, <2>4
<1>10. /\ tcp \in [Ids -> {"none", "connected", "disconnecting", "disconnected", "closed"}]
       /\ kcp \in [Ids -> {"none", "connecting", "connected", "disconnecting", "disconnected"}]
  BY DEF Types, TypeOK
<1>11. Parts(Q, batch)'
  <2>1. AttemptInv(Q)'
    BY <1>1, <1>5, <1>7, <1>8, Names DEF Parts, AttemptInv, Added
  <2>2. connection' \in {None, i} /\ (connection' = i => ~gone /\ connector.connect)
    BY <1>2, <1>3, <1>8
  <2>3. TableInv(Q)'
    <3>1. CASE made
      <4>1. ~gone /\ orphaned = {} /\ kcpConnection = None
        BY <3>1, <1>8 DEF Parts, TableInv
      <4>2. \A j \in Ids : connection' = j <=> tcp'[j] \in {"connected", "disconnecting"}
        BY <3>1, <4>1, <1>2, <1>3, <1>8, <1>10 DEF Parts, TableInv
      <4>3. \A j \in Ids : <<"tcp", j>> \notin todo'
        BY <4>1, <1>1, <1>8 DEF Parts, TableInv
      <4>4. orphaned' = {}
        BY <3>1, <4>1, <1>2
      <4>5. \A j \in Ids : ~In(Q', F("setClose", j)) /\ ~In(Q', F("kcpSetClose", j))
        BY <4>1, <1>5, Names DEF Parts, TableInv, Added, Resetting
      <4>6. QED  BY <4>1, <4>2, <4>3, <4>4, <4>5, <1>1, <1>7 DEF TableInv
    <3>2. CASE ~made
      BY <3>2, <1>1, <1>2, <1>5, <1>8, Names DEF Parts, TableInv, Added, Resetting
    <3>3. QED  BY <3>1, <3>2
  <2>4. DestroyInv(Q)'
    <3>1. ~gone => ~In(Q, Forcing(i)) /\ ~In(Q, Destroying(i))
      BY <1>3, <1>4 DEF Parts, DestroyInv
    <3>2. \A j \in Ids : tcp'[j] \in {"none", "closed"} => tcp[j] \in {"none", "closed"}
      BY <1>2, <1>3, <1>10
    <3>3. \A j \in Ids : (In(Q', Forcing(j)) <=> In(Q, Forcing(j))) /\ (In(Q', Destroying(j)) <=> In(Q, Destroying(j)))
      BY <1>5, Names DEF Added, Resetting, Forcing, Destroying
    <3>4. \A j \in Ids : /\ NotAhead(Q', Destroying(j), Destroying(j)) <=> NotAhead(Q, Destroying(j), Destroying(j))
                         /\ NotAhead(Q', Destroying(j), Forcing(j)) <=> NotAhead(Q, Destroying(j), Forcing(j))
      BY <1>5, Names DEF Added, Resetting, Forcing, Destroying
    <3>5. QED  BY <3>1, <3>2, <3>3, <3>4, <2>2, <1>1, <1>3 DEF Parts, DestroyInv
  <2>5. ResetInv(Q, batch)'
    <3>1. ASSUME connection' # None
          PROVE  /\ connection' = i /\ <<"tcp", i>> \notin todo' /\ ~In(Q, Forcing(i)) /\ ~In(Q, Resetting)
                 /\ NotAhead(Q, Forcing(i), Resetting)
      <4>1. connection' = i /\ ~gone
        BY <3>1, <2>2
      <4>2. <<"tcp", i>> \notin todo'
        BY <4>1, <1>1, <1>3, <1>8 DEF Parts, TableInv
      <4>3. ~In(Q, Forcing(i)) /\ ~In(Q, Resetting)
        BY <4>1, <1>3, <1>4, <1>8 DEF Parts, DestroyInv, AttemptInv
      <4>4. QED  BY <4>1, <4>2, <4>3 DEF NotAhead, In
    <3>2. ASSUME connection' # None PROVE NotAhead(Q', Forcing(i), Resetting)
      BY <3>1, <3>2, <1>5, Names DEF Added
    <3>3. QED  BY <3>1, <3>2, <1>1 DEF ResetInv
  <2>6. FirstInv(Q)'
    BY <1>1, <1>5, <1>8, Names DEF Parts, FirstInv, Fresh, Added, Resetting, Starting
  <2>7. OneInv(batch)'
    <3>1. starts <= 1 => Tries = 0
      BY <1>8 DEF Parts, OneInv
    <3>2. Tries' = Tries /\ (Tries = 0 => ~(connector'.due > 0))
      BY <1>6, <1>7 DEF Tries
    <3>3. QED  BY <3>1, <3>2, <1>1 DEF OneInv
  <2>8. \A k \in Ids : In(Q', KcpClosing(k)) => In(Q, KcpClosing(k)) /\ kcp'[k] = kcp[k]
    BY <1>2, <1>3, <1>4, <1>5, <1>10, Names DEF Added, Resetting, KcpClosing
  <2>9. KcpInv(Q)'
    <3>1. kcpConnection \in Ids /\ kcpConnection = i => gone
      BY <1>3, <1>8 DEF Parts, TableInv
    <3>2. kcpConnection \in Ids \cup {None}
      BY DEF Types, TypeOK
    <3>3. kcpConnection # None => kcp'[kcpConnection] = kcp[kcpConnection]
      BY <3>1, <3>2, <1>2, <1>3, <1>10
    <3>4. QED  BY <2>8, <3>3, <1>1 DEF Parts, KcpInv
  <2>10. ForcedInv(Q)'
    <3>1. ~gone => ~In(Q', Forcing(i))
      BY <1>3, <1>4, <1>5, Names DEF Parts, DestroyInv, Added, Resetting, Forcing
    <3>2. QED  BY <3>1, <2>2, <1>1 DEF ForcedInv
  <2>11. StopInv'
    BY <1>1, <1>7 DEF Parts, StopInv
  <2>12. OtherInv(Q, batch)'
    <3>1. starts = 1 /\ ~gone => \A k \in Ids : In(Q, KcpClosing(k)) => kcp[k] = "disconnected"
      BY <1>1, <1>8 DEF Parts, OtherInv, Harmless, Finished
    <3>2. QED  BY <3>1, <2>8, <1>1 DEF OtherInv, Harmless
  <2>13. QED  BY <2>1, <2>3, <2>4, <2>5, <2>6, <2>7, <2>9, <2>10, <2>11, <2>12 DEF Parts
<1>12. QED  BY <1>9, <1>11 DEF Keeps

------------------------------------------------------------------------------
(* The end of a TCP connection.                                               *)

\* What waits when the connection has ended, "close" being whether it had a KCP
\* connection to close.
Ended(s, t, i, close) ==
  /\ \A e : In(t, e) <=> In(s, e) \/ e = Destroying(i) \/ (close /\ e = KcpClosing(i))
  /\ \A e, f : e # KcpClosing(i) /\ f # KcpClosing(i) =>
       (NotAhead(t, e, f) <=> NotAhead(s, e, f) /\ ~(In(s, e) /\ f = Destroying(i)))

\* The connector is told to start again, or it is not.
Again(c, d) ==
  /\ d.failed = "none"
  /\ \/ d.state = "connecting" /\ d.channel = "live" /\ d.armed = c.armed /\ d.due = c.due
     \/ d.state = "disconnected" /\ d.channel = "none" /\ d.armed \in {c.armed, c.armed + 1} /\ d.due = c.due
     \/ d = c

\* A client that may retry restarts its connector, another one does not.
LEMMA ReconnectFacts ==
  ASSUME NEW q, Reconnect(q), connector \in ConnectorType,
         connector.channel = "none", connector.failed = "none", wish \in BOOLEAN
  PROVE  /\ queue' = q
         /\ connector' \in ConnectorType /\ Again(connector, connector')
         /\ \/ connector' = connector /\ raced' = raced
            \/ raced' = (raced \/ ~wish) /\ (wish \/ userAt.call = "stop")
<1>1. queue' = q
  BY DEF Reconnect
<1>2. CASE connector' = connector /\ raced' = raced
  BY <1>1, <1>2 DEF Again
<1>3. CASE /\ connector' \in Restart(connector) /\ raced' = (raced \/ ~wish)
           /\ wish \/ userAt.call = "stop"
  <2>1. /\ connector' \in ConnectorType
        /\ Attempts(connector, connector') \/ Retries(connector, connector') \/ Rests(connector, connector')
    BY <1>3, RestartFacts
  <2>2. Again(connector, connector')
    BY <2>1 DEF Attempts, Retries, Rests, Again
  <2>3. QED  BY <1>1, <1>3, <2>1, <2>2
<1>4. PICK w \in Seen :
        IF retry /\ w
        THEN connector' \in Restart(connector) /\ raced' = (raced \/ ~wish)
        ELSE UNCHANGED <<connector, raced>>
  BY DEF Reconnect
<1>5. w = wish \/ userAt.call = "stop"
  BY DEF Seen
<1>6. CASE retry /\ w
  <2>1. wish \/ userAt.call = "stop"
    BY <1>5, <1>6
  <2>2. QED  BY <2>1, <1>3, <1>4, <1>6
<1>7. CASE ~(retry /\ w)
  BY <1>2, <1>4, <1>7
<1>8. QED  BY <1>6, <1>7

\* Two functors may be queued, the first of them for the KCP connection.
LEMMA EndedFacts ==
  ASSUME NEW i \in Ids, NEW b \in Seq(Functor), NEW q \in Seq(Functor)
  PROVE  /\ Append(q, Destroying(i)) \in Seq(Functor)
         /\ Ended(b \o q, b \o Append(q, Destroying(i)), i, FALSE)
         /\ Append(Append(q, KcpClosing(i)), Destroying(i)) \in Seq(Functor)
         /\ Ended(b \o q, b \o Append(Append(q, KcpClosing(i)), Destroying(i)), i, TRUE)
<1> DEFINE s == b \o q
           q1 == Append(q, KcpClosing(i))
           u == b \o q1
<1>1. Destroying(i) \in Functor /\ KcpClosing(i) \in Functor /\ Destroying(i) # KcpClosing(i)
  BY Names DEF Destroying, KcpClosing
<1>2. /\ Append(q, Destroying(i)) \in Seq(Functor) /\ q1 \in Seq(Functor) /\ s \in Seq(Functor)
      /\ Append(q1, Destroying(i)) \in Seq(Functor) /\ u \in Seq(Functor)
  BY <1>1, AppendAdds, QueueConcat
<1>3. /\ b \o Append(q, Destroying(i)) = Append(s, Destroying(i))
      /\ u = Append(s, KcpClosing(i))
  BY <1>1, QueueConcat
<1>4. b \o Append(q1, Destroying(i)) = Append(u, Destroying(i))
  <2> HIDE DEF q1
  <2>1. QED  BY <1>1, <1>2, QueueConcat
<1>5. Added(s, b \o Append(q, Destroying(i)), Destroying(i)) /\ Added(s, u, KcpClosing(i))
  <2> HIDE DEF s
  <2>1. QED  BY <1>1, <1>2, <1>3, AppendAdds
<1>6. Added(u, b \o Append(q1, Destroying(i)), Destroying(i))
  <2> HIDE DEF u, q1
  <2>1. QED  BY <1>1, <1>2, <1>4, AppendAdds
<1> DEFINE t1 == b \o Append(q, Destroying(i))
           t2 == b \o Append(q1, Destroying(i))
<1>7. Ended(s, t1, i, FALSE)
  <2> HIDE DEF s, t1
  <2>1. Added(s, t1, Destroying(i))
    BY <1>5 DEF t1
  <2>2. QED  BY <2>1, <1>1 DEF Added, Ended
<1>8. Ended(s, t2, i, TRUE)
  <2>1. Added(s, u, KcpClosing(i)) /\ Added(u, t2, Destroying(i))
    BY <1>5, <1>6
  <2> HIDE DEF s, t2, u
  <2>2. QED  BY <2>1, <1>1 DEF Added, Ended
<1>9. QED  BY <1>2, <1>7, <1>8

\* The client removes the connection that has ended, the one it had.
LEMMA RemovedFacts ==
  ASSUME NEW i \in Ids, NEW b \in Seq(Functor), b = batch',
         Types, TableInv(b \o queue), KcpInv(b \o queue), ~gone, connection = i, fault = "none",
         connector.channel = "none", connector.failed = "none",
         HandleClose(i, queue)
  PROVE  /\ connection' = None /\ kcpConnection' = None
         /\ tcp' = [tcp EXCEPT ![i] = "disconnected"]
         /\ verifying' = verifying
         /\ connector' \in ConnectorType /\ Again(connector, connector')
         /\ \/ connector' = connector /\ raced' = raced
            \/ raced' = (raced \/ ~wish) /\ (wish \/ userAt.call = "stop")
         /\ queue' \in Seq(Functor)
         /\ fault' = "none" \/ (fault' = "active" /\ calls # 0)
         /\ \E close \in BOOLEAN :
              /\ Ended(b \o queue, Q', i, close)
              /\ kcp' = IF close THEN [kcp EXCEPT ![i] = "disconnecting"] ELSE kcp
              /\ close => kcp[i] \in {"connected", "connecting"}
<1>1. /\ queue \in Seq(Functor) /\ connector \in ConnectorType /\ wish \in BOOLEAN
      /\ Q' = b \o queue'
  BY DEF Types, TypeOK, Q
<1>2. /\ orphaned = {} /\ kcpConnection \in {None, i}
      /\ kind = "tcp" => kcpConnection = None
  BY DEF TableInv
<1>3. tcp' = [tcp EXCEPT ![i] = "disconnected"]
  BY DEF HandleClose
<1>4. CASE kind = "tcp" /\ RemoveConnection(i, queue)
  <2>1. /\ connection' = None /\ Reconnect(Append(queue, Destroying(i)))
        /\ fault' = connector'.failed
        /\ UNCHANGED <<kcpConnection, kcp, verifying>>
    BY <1>4 DEF RemoveConnection, FaultIs, kcpVars, Destroying
  <2>2. /\ queue' = Append(queue, Destroying(i))
        /\ connector' \in ConnectorType /\ Again(connector, connector')
        /\ \/ connector' = connector /\ raced' = raced
           \/ raced' = (raced \/ ~wish) /\ (wish \/ userAt.call = "stop")
    BY <2>1, <1>1, ReconnectFacts
  <2>3. queue' \in Seq(Functor) /\ Ended(b \o queue, Q', i, FALSE)
    BY <2>2, <1>1, EndedFacts
  <2>4. fault' = "none"
    BY <2>1, <2>2 DEF Again
  <2>5. QED  BY <1>2, <1>3, <1>4, <2>1, <2>2, <2>3, <2>4
<1>5. CASE RemoveTcpConnection(i, queue)
  <2> DEFINE k == kcpConnection
             close == k # None /\ kcp[k] \in {"connected", "connecting"}
             q1 == IF close THEN Append(queue, KcpClosing(k)) ELSE queue
  <2>1. /\ connection' = None /\ kcpConnection' = None /\ verifying' = verifying
        /\ kcp' = IF close THEN [kcp EXCEPT ![k] = "disconnecting"] ELSE kcp
        /\ Reconnect(Append(q1, Destroying(i)))
    BY <1>5 DEF RemoveTcpConnection, KcpClosable, KcpClosing, Destroying
  <2>2. /\ fault' # "none" => fault' = connector'.failed \/ (k # None /\ kcp[k] = "disconnected")
        /\ fault' \in {"none", "active", connector'.failed}
    BY <1>5 DEF RemoveTcpConnection, FaultIs
  <2>3. /\ queue' = Append(q1, Destroying(i))
        /\ connector' \in ConnectorType /\ Again(connector, connector')
        /\ \/ connector' = connector /\ raced' = raced
           \/ raced' = (raced \/ ~wish) /\ (wish \/ userAt.call = "stop")
    <3> HIDE DEF q1
    <3>1. QED  BY <2>1, <1>1, ReconnectFacts
  <2>4. fault' = "none" \/ (fault' = "active" /\ calls # 0)
    <3>1. connector'.failed = "none"
      BY <2>3 DEF Again
    <3>2. calls = 0 /\ k # None => kcp[k] # "disconnected"
      BY DEF KcpInv
    <3>3. QED  BY <2>2, <3>1, <3>2
  <2>5. close \in BOOLEAN /\ (close => k = i /\ kcp[i] \in {"connected", "connecting"})
    BY <1>2
  <2>6. queue' \in Seq(Functor) /\ Ended(b \o queue, Q', i, close)
    <3>1. CASE close
      <4>1. queue' = Append(Append(queue, KcpClosing(i)), Destroying(i))
        BY <2>3, <2>5, <3>1
      <4>2. queue' \in Seq(Functor) /\ Ended(b \o queue, Q', i, TRUE)
        BY <4>1, <1>1, EndedFacts
      <4>3. QED  BY <4>2, <3>1 DEF Ended
    <3>2. CASE ~close
      <4>1. queue' = Append(queue, Destroying(i))
        BY <2>3, <3>2
      <4>2. queue' \in Seq(Functor) /\ Ended(b \o queue, Q', i, FALSE)
        BY <4>1, <1>1, EndedFacts
      <4>3. QED  BY <4>2, <3>2 DEF Ended
    <3>3. QED  BY <3>1, <3>2
  <2>7. kcp' = IF close THEN [kcp EXCEPT ![i] = "disconnecting"] ELSE kcp
    BY <2>1, <2>5
  <2> HIDE DEF close
  <2>8. QED  BY <1>3, <2>1, <2>3, <2>4, <2>5, <2>6, <2>7
<1>6. QED  BY <1>2, <1>4, <1>5 DEF HandleClose

\* The connection ends in an event or in a functor: s is what waits then.
LEMMA CloseKeeps ==
  ASSUME NEW i \in Ids, NEW b \in Seq(Functor), b = batch', NEW s, s = b \o queue,
         Types, fault = "none", Parts(s, b), HandleClose(i, queue),
         ~gone => tcp[i] \in {"connected", "disconnecting"},
         connector.channel = "removed" => connection # i,
         phase = "functors" /\ starts = 1 /\ ~gone =>
           (~wish /\ userAt.call # "stop") \/ kcp[i] = "disconnected",
         (phase = "events" /\ b = <<>>) \/ phase = "functors",
         todo' \subseteq todo, <<"tcp", i>> \notin todo',
         UNCHANGED <<phase, active, kind, retry, wish, hold, orphaned>>,
         UNCHANGED <<userAt, starts, calls, gone, stopped>>
  PROVE  Keeps
<1>1. /\ queue \in Seq(Functor) /\ connector \in ConnectorType /\ wish \in BOOLEAN
      /\ connector.armed \in Nat /\ connector.due \in Nat
      /\ Q' = b \o queue'
      /\ tcp \in [Ids -> {"none", "connected", "disconnecting", "disconnected", "closed"}]
      /\ kcp \in [Ids -> {"none", "connecting", "connected", "disconnecting", "disconnected"}]
  BY DEF Types, TypeOK, Q, ConnectorType
<1>2. /\ phase \in {"events", "functors"}
      /\ phase = "functors" => <<"connector", None>> \notin todo
  BY DEF Types, TypeOK
<1>3. CASE gone
  <2>1. connection = None /\ connection' = None /\ UNCHANGED <<connector, raced, kcpConnection, kcp, verifying>>
    BY <1>3 DEF HandleClose, kcpVars, Parts, TableInv
  <2>2. /\ tcp' = [tcp EXCEPT ![i] = "disconnected"]
        /\ \/ queue' = Append(queue, Destroying(i)) /\ fault' = fault
           \/ queue' = queue /\ fault' = "client"
    BY <1>3 DEF HandleClose, Destroying
  <2>3. queue' \in Seq(Functor)
    <3>1. Append(queue, Destroying(i)) \in Seq(Functor)
      BY <1>1, EndedFacts
    <3>2. QED  BY <3>1, <2>2, <1>1
  <2>4. Types'
    BY <1>1, <2>1, <2>2, <2>3 DEF Types, TypeOK
  <2>5. NoFault'
    BY <2>2, <1>3 DEF NoFault
  <2>6. ASSUME fault' = "none" PROVE Parts(Q, batch)'
    <3>1. Ended(s, Q', i, FALSE)
      BY <2>2, <2>6, <1>1, EndedFacts
    <3>2. \A e : e # Destroying(i) => (In(Q', e) <=> In(s, e)) /\ (NotAhead(Q', e, e) <=> NotAhead(s, e, e))
      <4>1. \A e : e # Destroying(i) => (In(Q', e) <=> In(s, e))
        BY <3>1 DEF Ended
      <4>2. \A e : e # KcpClosing(i) /\ e # Destroying(i) => (NotAhead(Q', e, e) <=> NotAhead(s, e, e))
        BY <3>1 DEF Ended
      <4>3. Added(s, Q', Destroying(i))
        <5>1. Destroying(i) \in Functor
          BY Names DEF Destroying
        <5>2. s \in Seq(Functor) /\ b \o Append(queue, Destroying(i)) = Append(s, Destroying(i))
          BY <5>1, <1>1, QueueConcat
        <5>3. Q' = Append(s, Destroying(i))
          BY <5>2, <2>2, <2>6, <1>1
        <5>4. QED  BY <5>1, <5>2, <5>3, AppendAdds
      <4>4. QED  BY <4>1, <4>3 DEF Added
    <3>3. AttemptInv(Q)' /\ TableInv(Q)'
      BY <3>2, <2>1, <1>3, Names DEF Parts, AttemptInv, TableInv, Resetting, Destroying
    <3>4. DestroyInv(Q)' /\ ResetInv(Q, batch)' /\ ForcedInv(Q)' /\ OtherInv(Q, batch)'
      BY <2>1, <1>3 DEF DestroyInv, ResetInv, ForcedInv, OtherInv
    <3>5. FirstInv(Q)' /\ StopInv'
      BY <3>2, <2>1, <1>3, Names DEF Parts, FirstInv, Fresh, Tries, StopInv, Starting, Destroying
    <3>6. OneInv(batch)'
      BY <2>1 DEF Parts, OneInv, Tries
    <3>7. KcpInv(Q)'
      BY <3>2, <2>1, Names DEF Parts, KcpInv, KcpClosing, Destroying
    <3>8. QED  BY <3>3, <3>4, <3>5, <3>6, <3>7 DEF Parts
  <2>7. QED  BY <2>4, <2>5, <2>6 DEF Keeps
<1>4. CASE ~gone
  <2>1. connection = i /\ connector.state = "connected" /\ kcpConnection \in {None, i}
    BY <1>4 DEF Parts, TableInv
  <2>2. connector.channel = "none" /\ connector.failed = "none" /\ ~In(s, Resetting)
    <3>1. connector.channel \in {"none", "live", "removed"}
      BY <1>1 DEF ConnectorType
    <3>2. QED  BY <3>1, <2>1 DEF Parts, AttemptInv
  <2>3. PICK close \in BOOLEAN :
          /\ Ended(s, Q', i, close)
          /\ kcp' = IF close THEN [kcp EXCEPT ![i] = "disconnecting"] ELSE kcp
          /\ close => kcp[i] \in {"connected", "connecting"}
    BY <2>1, <2>2, <1>4, RemovedFacts DEF Parts
  <2>4. /\ connection' = None /\ kcpConnection' = None
        /\ tcp' = [tcp EXCEPT ![i] = "disconnected"]
        /\ verifying' = verifying
        /\ connector' \in ConnectorType /\ Again(connector, connector')
        /\ \/ connector' = connector /\ raced' = raced
           \/ raced' = (raced \/ ~wish) /\ (wish \/ userAt.call = "stop")
        /\ queue' \in Seq(Functor)
        /\ fault' = "none" \/ (fault' = "active" /\ calls # 0)
    BY <2>1, <2>2, <1>4, RemovedFacts DEF Parts
  <2>5. starts # 0 /\ (starts = 1 => userAt.call # "connect" /\ ~In(s, Starting))
    BY <1>4, <2>1 DEF Parts, FirstInv, Fresh
  <2>6. \A e : e # Destroying(i) /\ e # KcpClosing(i) => (In(Q', e) <=> In(s, e))
    BY <2>3 DEF Ended
  <2>7. \A e, f : e # KcpClosing(i) /\ f # KcpClosing(i) /\ f # Destroying(i) =>
                    (NotAhead(Q', e, f) <=> NotAhead(s, e, f))
    BY <2>3 DEF Ended
  <2>8. Types'
    <3>1. tcp' \in [Ids -> {"none", "connected", "disconnecting", "disconnected", "closed"}]
      BY <1>1, <2>4
    <3>2. kcp' \in [Ids -> {"none", "connecting", "connected", "disconnecting", "disconnected"}]
      BY <1>1, <2>3
    <3>3. QED  BY <2>4, <3>1, <3>2 DEF Types, TypeOK
  <2>9. NoFault'
    <3>1. calls \in Nat
      BY DEF Types, TypeOK
    <3>2. QED  BY <3>1, <2>4 DEF NoFault
  <2>10. AttemptInv(Q)'
    <3>1. (In(Q', Resetting) <=> In(s, Resetting)) /\ (NotAhead(Q', Resetting, Resetting) <=> NotAhead(s, Resetting, Resetting))
      BY <2>6, <2>7, Names DEF Resetting, Destroying, KcpClosing
    <3>2. QED  BY <3>1, <2>1, <2>2, <2>4 DEF Parts, AttemptInv, Again
  <2>11. TableInv(Q)'
    <3>1. \A j \in Ids : tcp'[j] \notin {"connected", "disconnecting"} /\ <<"tcp", j>> \notin todo'
      BY <1>1, <1>4, <2>1, <2>4 DEF Parts, TableInv
    <3>2. \A j \in Ids : ~In(Q', F("setClose", j)) /\ ~In(Q', F("kcpSetClose", j))
      BY <1>4, <2>6, Names DEF Parts, TableInv, Destroying, KcpClosing
    <3>3. None \notin Ids
      OBVIOUS
    <3>4. QED  BY <3>1, <3>2, <3>3, <1>4, <2>4 DEF Parts, TableInv
  <2>12. DestroyInv(Q)'
    <3>1. \A j \in Ids : (In(Q', Forcing(j)) <=> In(s, Forcing(j))) /\ (j # i => (In(Q', Destroying(j)) <=> In(s, Destroying(j))))
      BY <2>6, Names DEF Forcing, Destroying, KcpClosing
    <3>2. \A j \in Ids : tcp'[j] \in {"none", "closed"} => j # i /\ tcp[j] \in {"none", "closed"}
      BY <1>1, <2>4
    <3>3. \A j \in Ids : NotAhead(s, Destroying(j), Destroying(j)) /\ NotAhead(s, Destroying(j), Forcing(j))
      BY <1>4 DEF Parts, DestroyInv
    <3>4. ~In(s, Destroying(i))
      BY <1>4, <2>1 DEF Parts, DestroyInv
    <3>5. \A j \in Ids : NotAhead(Q', Destroying(j), Forcing(j))
      BY <2>7, <3>3, Names DEF Forcing, Destroying, KcpClosing
    <3>6. \A j \in Ids : NotAhead(Q', Destroying(j), Destroying(j))
      BY <2>3, <3>3, <3>4, Names DEF Ended, Destroying, KcpClosing
    <3>7. QED  BY <3>1, <3>2, <3>5, <3>6, <1>4, <2>4 DEF Parts, DestroyInv
  <2>13. ResetInv(Q, batch)' /\ ForcedInv(Q)'
    <3>1. None \notin Ids
      OBVIOUS
    <3>2. QED  BY <3>1, <2>4 DEF ResetInv, ForcedInv
  <2>14. FirstInv(Q)'
    <3>1. (In(Q', Starting) <=> In(s, Starting)) /\ (NotAhead(Q', Starting, Starting) <=> NotAhead(s, Starting, Starting))
      BY <2>6, <2>7, Names DEF Starting, Destroying, KcpClosing
    <3>2. QED  BY <3>1, <2>5 DEF Parts, FirstInv
  <2>15. OneInv(batch)'
    <3>1. starts <= 1 => connector.armed = 0 /\ connector.due = 0
      <4>1. starts <= 1 => Tries = 0
        BY <2>1 DEF Parts, OneInv
      <4>2. QED  BY <4>1, <1>1 DEF Tries
    <3>2. starts <= 1 => /\ connector'.due = 0 /\ connector'.armed \in {0, 1}
                         /\ connector'.state # "disconnected" => connector'.armed = 0
                         /\ connector'.channel = "live" => connector'.state # "disconnected"
      BY <3>1, <2>1, <2>2, <2>4 DEF Again
    <3>3. starts <= 1 => Tries' = connector'.armed /\ ~(connector'.due > 0)
      BY <3>2 DEF Tries
    <3>4. QED  BY <3>2, <3>3, <2>4 DEF OneInv
  <2>16. KcpInv(Q)'
    <3>1. \A k \in Ids : In(Q', KcpClosing(k)) => In(s, KcpClosing(k)) \/ (close /\ k = i)
      BY <2>3, Names DEF Ended, Destroying, KcpClosing
    <3>2. \A k \in Ids : kcp'[k] = IF close /\ k = i THEN "disconnecting" ELSE kcp[k]
      BY <1>1, <2>3
    <3>3. QED  BY <3>1, <3>2, <2>4 DEF Parts, KcpInv
  <2>17. StopInv'
    <3>1. CASE connector' = connector /\ raced' = raced
      BY <3>1 DEF Parts, StopInv
    <3>2. CASE raced' = (raced \/ ~wish)
      <4>1. ~raced' => ~raced /\ wish
        BY <3>2
      <4>2. QED  BY <4>1, <1>4 DEF Parts, StopInv
    <3>3. QED  BY <3>1, <3>2, <2>4
  <2>18. OtherInv(Q, batch)'
    <3>1. CASE phase = "events"
      <4>1. <<"connector", None>> \notin todo'
        BY <2>2 DEF Parts, AttemptInv
      <4>2. QED  BY <4>1, <3>1, <2>4 DEF OtherInv, Harmless
    <3>2. CASE phase = "functors" /\ starts = 1
      <4>1. ASSUME kcp[i] # "disconnected"
            PROVE  connector' = connector /\ connector.channel # "live" /\ Tries = 0
        <5>1. connector' = connector
          BY <4>1, <3>2, <1>4, <2>4
        <5>2. QED  BY <5>1, <3>2, <2>1, <2>2 DEF Parts, OneInv
      <4>2. kcp[i] # "disconnected" => Finished' /\ ~In(Q', Starting)
        <5>1. ~In(Q', Starting)
          BY <3>2, <2>5, <2>6, Names DEF Starting, Destroying, KcpClosing
        <5>2. QED  BY <5>1, <4>1, <3>2, <2>4, <2>5 DEF Finished, Tries
      <4>3. ASSUME NEW k \in Ids, In(Q', KcpClosing(k)), kcp'[k] # "disconnected"
            PROVE  kcp[i] # "disconnected" \/ In(b, KcpClosing(k))
        <5>1. In(s, KcpClosing(k)) \/ (close /\ k = i)
          BY <4>3, <2>3, Names DEF Ended, Destroying, KcpClosing
        <5>2. CASE close /\ k = i
          BY <5>2, <2>3
        <5>3. CASE In(s, KcpClosing(k)) /\ ~(close /\ k = i)
          <6>1. kcp[k] # "disconnected"
            BY <5>3, <4>3, <1>1, <2>3
          <6>2. Harmless(k, s, b)
            BY <3>2, <1>4 DEF Parts, OtherInv
          <6>3. connection = k
            BY <6>1, <6>2, <5>3, <2>1 DEF Harmless
          <6>4. QED  BY <6>1, <6>3, <2>1
        <5>4. QED  BY <5>1, <5>2, <5>3
      <4>4. QED  BY <4>2, <4>3, <3>2, <2>4 DEF OtherInv, Harmless
    <3>3. CASE starts # 1
      BY <3>3 DEF OtherInv
    <3>4. QED  BY <3>1, <3>2, <3>3, <1>2
  <2>19. Parts(Q, batch)'
    BY <2>10, <2>11, <2>12, <2>13, <2>14, <2>15, <2>16, <2>17, <2>18 DEF Parts
  <2>20. QED  BY <2>8, <2>9, <2>19 DEF Keeps
<1>5. QED  BY <1>3, <1>4

\* The peer closes.
LEMMA TcpEndsKeeps ==
  ASSUME NEW i \in Ids, Types, fault = "none", Parts(Q, batch), TcpEnds(i)
  PROVE  Keeps
<1>1. /\ phase = "events" /\ <<"tcp", i>> \in todo /\ todo' = todo \ {<<"tcp", i>>}
      /\ HandleClose(i, queue)
      /\ UNCHANGED <<phase, active, batch, kind, retry, wish, hold, orphaned>>
      /\ UNCHANGED <<userAt, starts, calls, gone, stopped>>
  BY DEF TcpEnds, Event, userVars
<1>2. batch = <<>> /\ batch \in Seq(Functor) /\ Q = batch \o queue
  BY <1>1 DEF Types, TypeOK, Q
<1>3. CASE ~gone
  <2>1. tcp[i] \in {"connected", "disconnecting"}
    BY <1>1, <1>3 DEF Parts, TableInv
  <2>2. connector.channel = "removed" => connection # i
    BY <1>1 DEF Parts, ResetInv
  <2>3. QED  BY <1>1, <1>2, <2>1, <2>2, CloseKeeps
<1>4. CASE gone
  <2>1. connection # i
    BY <1>4 DEF Parts, TableInv
  <2>2. QED  BY <1>1, <1>2, <1>4, <2>1, CloseKeeps
<1>5. QED  BY <1>3, <1>4

\* The server's message makes the KCP connection of the TCP connection.
LEMMA HandleTcpMessageKeeps ==
  ASSUME NEW i \in Ids, Types, fault = "none", Parts(Q, batch), HandleTcpMessage(i)
  PROVE  Keeps
<1>1. /\ phase = "events" /\ <<"tcp", i>> \in todo /\ todo' = todo \ {<<"tcp", i>>}
      /\ kind = "kcp" /\ kcp[i] = "none"
      /\ UNCHANGED <<phase, active, batch, kind, retry, wish, connector, hold>>
      /\ UNCHANGED <<connection, tcp, orphaned, queue>>
      /\ UNCHANGED <<userAt, starts, calls, gone, stopped, raced>>
  BY DEF HandleTcpMessage, Event, userVars, tcpVars
<1>2. Q' = Q
  BY <1>1 DEF Q
<1>3. CASE gone
  <2>1. fault' = "client" /\ UNCHANGED <<kcpConnection, kcp, verifying>>
    BY <1>3 DEF HandleTcpMessage, kcpVars
  <2>2. Types'
    BY <1>1, <2>1 DEF Types, TypeOK
  <2>3. NoFault'
    BY <1>1, <1>3, <2>1 DEF NoFault
  <2>4. QED  BY <2>1, <2>2, <2>3 DEF Keeps
<1>4. CASE ~gone
  <2>1. /\ kcpConnection' = i /\ kcp' = [kcp EXCEPT ![i] = "connecting"]
        /\ verifying' = verifying \cup {i} /\ fault' = fault
    BY <1>4 DEF HandleTcpMessage
  <2>2. kcp \in [Ids -> {"none", "connecting", "connected", "disconnecting", "disconnected"}]
    BY DEF Types, TypeOK
  <2>3. kcp' \in [Ids -> {"none", "connecting", "connected", "disconnecting", "disconnected"}]
    BY <2>1, <2>2
  <2>4. Types' /\ NoFault'
    BY <1>1, <2>1, <2>3 DEF Types, TypeOK, NoFault
  <2>5. connection = i
    BY <1>1, <1>4 DEF Parts, TableInv
  <2>6. \A k \in Ids : kcp[k] = "disconnected" <=> kcp'[k] = "disconnected"
    BY <1>1, <2>1, <2>2
  <2>7. AttemptInv(Q)' /\ TableInv(Q)' /\ DestroyInv(Q)'
    BY <1>1, <1>2, <2>1, <2>5 DEF Parts, AttemptInv, TableInv, DestroyInv
  <2>8. ResetInv(Q, batch)' /\ FirstInv(Q)' /\ OneInv(batch)'
    BY <1>1, <1>2 DEF Parts, ResetInv, FirstInv, OneInv, Tries, Fresh
  <2>9. KcpInv(Q)'
    BY <1>1, <1>2, <2>1, <2>2 DEF Parts, KcpInv
  <2>10. ForcedInv(Q)' /\ StopInv'
    BY <1>1, <1>2, <2>6 DEF Parts, ForcedInv, StopInv
  <2>11. OtherInv(Q, batch)'
    BY <1>1, <1>2, <2>6 DEF Parts, OtherInv, Harmless, Finished, Tries
  <2>12. Parts(Q, batch)'
    BY <2>7, <2>8, <2>9, <2>10, <2>11 DEF Parts
  <2>13. QED  BY <2>4, <2>12 DEF Keeps
<1>5. QED  BY <1>3, <1>4

\* A datagram of the handshake ends it.
LEMMA HandleUdpMessageKeeps ==
  ASSUME NEW i \in Ids, Types, fault = "none", Parts(Q, batch), HandleUdpMessage(i)
  PROVE  Keeps
<1>1. /\ phase = "events" /\ todo' = todo \ {<<"udp", i>>}
      /\ UNCHANGED <<phase, active, batch, kind, retry, wish, connector, hold>>
      /\ UNCHANGED <<connection, tcp, orphaned, kcpConnection, queue>>
      /\ UNCHANGED <<userAt, starts, calls, gone, stopped, raced, fault>>
  BY DEF HandleUdpMessage, Event, userVars, tcpVars
<1>2. Q' = Q
  BY <1>1 DEF Q
<1>3. /\ verifying' \subseteq verifying
      /\ kcp' = kcp \/ (kcp[i] = "connecting" /\ kcp' = [kcp EXCEPT ![i] = "connected"])
  BY DEF HandleUdpMessage, VerifyAnswered
<1>4. kcp \in [Ids -> {"none", "connecting", "connected", "disconnecting", "disconnected"}]
  BY DEF Types, TypeOK
<1>5. kcp' \in [Ids -> {"none", "connecting", "connected", "disconnecting", "disconnected"}]
  BY <1>3, <1>4
<1>6. Types' /\ NoFault'
  BY <1>1, <1>3, <1>5 DEF Types, TypeOK, NoFault
<1>7. \A k \in Ids : /\ kcp[k] = "disconnected" <=> kcp'[k] = "disconnected"
                     /\ kcp[k] \in {"connecting", "connected"} <=> kcp'[k] \in {"connecting", "connected"}
                     /\ kcp[k] = "disconnecting" <=> kcp'[k] = "disconnecting"
  BY <1>3, <1>4
<1>8. Parts(Q, batch)'
  <2>1. AttemptInv(Q)' /\ TableInv(Q)' /\ DestroyInv(Q)'
    BY <1>1, <1>2 DEF Parts, AttemptInv, TableInv, DestroyInv
  <2>2. ResetInv(Q, batch)' /\ FirstInv(Q)' /\ OneInv(batch)'
    BY <1>1, <1>2 DEF Parts, ResetInv, FirstInv, OneInv, Tries, Fresh
  <2>3. KcpInv(Q)'
    <3>1. kcpConnection \in Ids \cup {None}
      BY DEF Types, TypeOK
    <3>2. QED  BY <1>1, <1>2, <1>7, <3>1 DEF Parts, KcpInv
  <2>4. ForcedInv(Q)' /\ StopInv'
    BY <1>1, <1>2, <1>7 DEF Parts, ForcedInv, StopInv
  <2>5. OtherInv(Q, batch)'
    BY <1>1, <1>2, <1>7 DEF Parts, OtherInv, Harmless, Finished, Tries
  <2>6. QED  BY <2>1, <2>2, <2>3, <2>4, <2>5 DEF Parts
<1>9. QED  BY <1>6, <1>8 DEF Keeps

------------------------------------------------------------------------------
(* Functors.                                                                  *)

\* What waits when the functor that runs has been taken.
Rest == Tail(batch) \o queue

\* To take a functor disturbs nothing, but for what the functor is there to do.
LEMMA TakenFacts ==
  ASSUME NEW s, NEW t, NEW b, NEW c, NEW x, Parts(s, b), Taken(s, t, x), Taken(b, c, x)
  PROVE  /\ TableInv(t) /\ DestroyInv(t) /\ FirstInv(t) /\ KcpInv(t) /\ ForcedInv(t) /\ StopInv
         /\ x # Resetting => AttemptInv(t) /\ ResetInv(t, c) /\ OneInv(c)
         /\ starts = 1 /\ ~gone => \A k \in Ids : x # KcpClosing(k) => Harmless(k, t, c)
<1>1. \A e : In(t, e) => In(s, e)
  BY DEF Taken
<1>2. \A e, f : NotAhead(s, e, f) => NotAhead(t, e, f)
  BY DEF Taken
<1>3. TableInv(t) /\ DestroyInv(t)
  BY <1>1, <1>2 DEF Parts, TableInv, DestroyInv
<1>4. FirstInv(t) /\ KcpInv(t) /\ ForcedInv(t) /\ StopInv
  BY <1>1, <1>2 DEF Parts, FirstInv, KcpInv, ForcedInv
<1>5. ASSUME x # Resetting PROVE AttemptInv(t) /\ ResetInv(t, c) /\ OneInv(c)
  <2>1. (In(t, Resetting) <=> In(s, Resetting)) /\ (In(c, Resetting) <=> In(b, Resetting))
    BY <1>5 DEF Taken
  <2>2. QED  BY <1>2, <2>1 DEF Parts, AttemptInv, ResetInv, OneInv
<1>6. ASSUME starts = 1, ~gone, NEW k \in Ids, x # KcpClosing(k) PROVE Harmless(k, t, c)
  <2>1. In(c, KcpClosing(k)) <=> In(b, KcpClosing(k))
    BY <1>6 DEF Taken
  <2>2. Harmless(k, s, b)
    BY <1>6 DEF Parts, OtherInv
  <2>3. QED  BY <1>1, <2>1, <2>2 DEF Harmless
<1>7. QED  BY <1>3, <1>4, <1>5, <1>6

\* What a functor does is done to the connector or to what is named here.
LEMMA RunFacts ==
  ASSUME Types, Parts(Q, batch), batch # <<>>, phase = "functors", batch' = Tail(batch)
  PROVE  /\ todo = {} /\ active = {}
         /\ batch' \in Seq(Functor) /\ Head(batch) \in Functor /\ queue \in Seq(Functor)
         /\ Taken(Q, Rest, Head(batch)) /\ Taken(batch, batch', Head(batch))
         /\ In(Q, Head(batch))
         /\ Q' = batch' \o queue' /\ Rest = batch' \o queue
         /\ queue' = queue => Q' = Rest
         /\ \A y \in Functor : queue' = Append(queue, y) => queue' \in Seq(Functor) /\ Added(Rest, Q', y)
<1>1. todo = {} /\ active = {} /\ queue \in Seq(Functor) /\ batch \in Seq(Functor)
  BY DEF Types, TypeOK
<1>2. batch' \in Seq(Functor) /\ Head(batch) \in Functor /\ Taken(batch, batch', Head(batch))
  BY <1>1, TailTakes
<1>3. /\ Q \in Seq(Functor) /\ Q # <<>> /\ Head(Q) = Head(batch) /\ Tail(Q) = Rest
  BY <1>1, QueueConcat DEF Q, Rest
<1>4. Rest \in Seq(Functor) /\ Taken(Q, Rest, Head(batch))
  BY <1>3, TailTakes
<1>5. Q' = batch' \o queue' /\ Rest = batch' \o queue
  BY DEF Q, Rest
<1>6. ASSUME NEW y \in Functor, queue' = Append(queue, y)
      PROVE  queue' \in Seq(Functor) /\ Added(Rest, Q', y)
  <2>1. Q' = Append(Rest, y)
    <3>1. batch' \o Append(queue, y) = Append(batch' \o queue, y)
      BY <1>1, <1>2, QueueConcat
    <3>2. QED  BY <3>1, <1>5, <1>6
  <2>2. QED  BY <2>1, <1>1, <1>4, <1>6, AppendAdds
<1>7. In(Q, Head(batch))
  BY <1>4 DEF Taken
<1>8. QED  BY <1>1, <1>2, <1>4, <1>5, <1>6, <1>7

\* The functor x runs.
Running(x) ==
  /\ phase = "functors" /\ batch # <<>> /\ x = Head(batch) /\ batch' = Tail(batch)
  /\ UNCHANGED <<kind, retry, wish, hold, phase, active, todo, userAt, starts, calls, gone, stopped>>

\* startInLoop.
LEMMA StartRuns ==
  ASSUME Types, fault = "none", Parts(Q, batch), Running(Starting), RunConnector("start")
  PROVE  Keeps
<1>1. /\ phase = "functors" /\ batch # <<>> /\ Starting = Head(batch) /\ batch' = Tail(batch)
      /\ UNCHANGED <<kind, retry, wish, hold, phase, active, todo, userAt, starts, calls, gone, stopped>>
  BY DEF Running
<1>2. /\ connector' \in StartInLoop(connector)
      /\ fault' = IF ConnectorHeld THEN connector'.failed ELSE "connector"
      /\ UNCHANGED <<queue, connection, tcp, orphaned, kcpConnection, kcp, verifying, raced>>
  BY DEF RunConnector, kcpVars
<1>3. /\ todo = {} /\ batch' \in Seq(Functor) /\ Q' = Rest
      /\ Taken(Q, Rest, Starting) /\ Taken(batch, batch', Starting) /\ In(Q, Starting)
  BY <1>1, <1>2, RunFacts
<1>4. connector \in ConnectorType /\ starts \in 0..MaxStarts
  BY DEF Types, TypeOK
<1>5. /\ connector' \in ConnectorType /\ connector'.connect = connector.connect
      /\ connector.state # "disconnected" => connector'.failed = "start"
      /\ connector.state = "disconnected" =>
           Attempts(connector, connector') \/ Retries(connector, connector') \/ Rests(connector, connector')
  BY <1>2, <1>4, StartFacts
<1>6. connector.armed \in Nat /\ connector.due \in Nat /\ connector.failed = "none"
  BY <1>4 DEF ConnectorType, Parts, AttemptInv
\* With one start, it is the first that the connector is told.
<1>7. starts <= 1 => starts = 1 /\ Fresh /\ userAt.call # "connect" /\ ~In(Rest, Starting)
  <2>1. starts # 0
    BY <1>3 DEF Parts, FirstInv
  <2>2. starts = 1 => NotAhead(Q, Starting, Starting) /\ Fresh /\ userAt.call # "connect"
    BY <1>3 DEF Parts, FirstInv
  <2>3. NotAhead(Q, Starting, Starting) => ~In(Rest, Starting)
    BY <1>3 DEF Taken
  <2>4. QED  BY <1>4, <2>1, <2>2, <2>3
<1>8. NoFault'
  <2>1. connector'.failed \in {"none", "start", "channel"}
    BY <1>5 DEF ConnectorType
  <2>2. starts <= 1 => connector'.failed = "none"
    BY <1>5, <1>6, <1>7 DEF Fresh, Attempts, Retries, Rests
  <2>3. QED  BY <2>1, <2>2, <1>1, <1>2, <1>4 DEF NoFault, ConnectorHeld
<1>9. Types'
  BY <1>1, <1>2, <1>3, <1>5 DEF Types, TypeOK
<1>10. ASSUME fault' = "none" PROVE Parts(Q, batch)'
  <2>1. /\ connector.state = "disconnected"
        /\ Attempts(connector, connector') \/ Retries(connector, connector') \/ Rests(connector, connector')
    BY <1>2, <1>5, <1>10
  <2>2. connection = None
    BY <2>1 DEF Parts, TableInv
  <2>3. /\ connector'.failed = "none"
        /\ \/ connector'.state = "connecting" /\ connector'.channel = "live" /\ connector.channel = "none"
           \/ connector'.state = "disconnected" /\ connector'.channel = connector.channel
    BY <1>2, <1>6, <1>10, <2>1 DEF Attempts, Retries, Rests
  <2>4. Starting # Resetting /\ \A k \in Ids : Starting # KcpClosing(k)
    BY Names DEF Starting, Resetting, KcpClosing
  <2>5. /\ TableInv(Rest) /\ DestroyInv(Rest) /\ FirstInv(Rest) /\ KcpInv(Rest) /\ ForcedInv(Rest) /\ StopInv
        /\ AttemptInv(Rest)
        /\ starts = 1 /\ ~gone => \A k \in Ids : Harmless(k, Rest, batch')
    BY <1>3, <2>4, TakenFacts
  <2>6. AttemptInv(Q)'
    BY <1>1, <1>3, <2>1, <2>3, <2>5 DEF AttemptInv
  <2>7. TableInv(Q)' /\ DestroyInv(Q)' /\ ResetInv(Q, batch)'
    BY <1>1, <1>2, <1>3, <2>2, <2>5 DEF TableInv, DestroyInv, ResetInv
  <2>8. FirstInv(Q)'
    <3>1. starts # 0
      BY <1>7
    <3>2. QED  BY <3>1, <1>1, <1>3, <1>7, <2>5 DEF FirstInv
  <2>9. OneInv(batch)'
    <3>1. starts <= 1 => connector.armed = 0 /\ connector.due = 0 /\ connector.channel = "none"
      BY <1>6, <1>7 DEF Fresh, Tries
    <3>2. ASSUME starts <= 1
          PROVE  /\ connector'.due = 0 /\ connector'.armed \in {0, 1}
                 /\ connector'.state # "connected" /\ connector'.channel # "removed"
                 /\ connector'.channel = "live" => connector'.armed = 0
      BY <3>1, <3>2, <2>1 DEF Attempts, Retries, Rests
    <3>3. starts <= 1 => Tries' = connector'.armed /\ ~(connector'.due > 0)
      BY <3>2 DEF Tries
    <3>4. QED  BY <3>2, <3>3, <1>1, <1>2, <2>2 DEF OneInv
  <2>10. KcpInv(Q)' /\ ForcedInv(Q)' /\ StopInv'
    BY <1>1, <1>2, <1>3, <1>5, <2>5 DEF KcpInv, ForcedInv, StopInv
  <2>11. OtherInv(Q, batch)'
    <3>1. ASSUME starts = 1, ~gone, NEW k \in Ids, In(Rest, KcpClosing(k)), kcp[k] # "disconnected"
          PROVE  In(batch', KcpClosing(k))
      <4>1. Harmless(k, Q, batch) /\ In(Q, KcpClosing(k))
        BY <3>1, <1>3 DEF Parts, OtherInv, Taken
      <4>2. In(batch, KcpClosing(k))
        BY <4>1, <3>1, <1>1, <1>3, <2>2 DEF Harmless
      <4>3. QED  BY <4>2, <1>3, <2>4 DEF Taken
    <3>2. QED  BY <3>1, <1>1, <1>2, <1>3, <2>2 DEF OtherInv, Harmless
  <2>12. QED  BY <2>6, <2>7, <2>8, <2>9, <2>10, <2>11 DEF Parts
<1>11. QED  BY <1>8, <1>9, <1>10 DEF Keeps

\* stopInLoop.
LEMMA StopRuns ==
  ASSUME Types, fault = "none", Parts(Q, batch), Running(Stopping), RunConnector("stop")
  PROVE  Keeps
<1>1. /\ phase = "functors" /\ batch # <<>> /\ Stopping = Head(batch) /\ batch' = Tail(batch)
      /\ UNCHANGED <<kind, retry, wish, hold, phase, active, todo, userAt, starts, calls, gone, stopped>>
  BY DEF Running
<1>2. /\ IF connector.state = "connecting"
         THEN connector' = GiveUpAttempt(connector) /\ queue' = Append(queue, Resetting)
         ELSE UNCHANGED <<connector, queue>>
      /\ fault' = IF ConnectorHeld THEN connector'.failed ELSE "connector"
      /\ UNCHANGED <<connection, tcp, orphaned, kcpConnection, kcp, verifying, raced>>
  BY DEF RunConnector, kcpVars, Resetting
<1>3. /\ todo = {} /\ batch' \in Seq(Functor) /\ queue \in Seq(Functor)
      /\ Taken(Q, Rest, Stopping) /\ Taken(batch, batch', Stopping)
      /\ queue' = queue => Q' = Rest
      /\ \A y \in Functor : queue' = Append(queue, y) => queue' \in Seq(Functor) /\ Added(Rest, Q', y)
  BY <1>1, RunFacts
<1>4. /\ connector \in ConnectorType /\ connector.armed \in Nat /\ connector.due \in Nat
      /\ connector.failed = "none"
  BY DEF Types, TypeOK, ConnectorType, Parts, AttemptInv
<1>5. Stopping # Resetting /\ \A k \in Ids : Stopping # KcpClosing(k)
  BY Names DEF Stopping, Resetting, KcpClosing
<1>6. /\ TableInv(Rest) /\ DestroyInv(Rest) /\ FirstInv(Rest) /\ KcpInv(Rest) /\ ForcedInv(Rest) /\ StopInv
      /\ AttemptInv(Rest) /\ ResetInv(Rest, batch') /\ OneInv(batch')
      /\ starts = 1 /\ ~gone => \A k \in Ids : Harmless(k, Rest, batch')
  BY <1>3, <1>5, TakenFacts
<1>7. CASE connector.state # "connecting"
  <2>1. connector' = connector /\ Q' = Rest /\ queue' = queue /\ fault' \in {"none", "connector"}
    BY <1>2, <1>3, <1>4, <1>7
  <2>2. fault' = "connector" => gone
    BY <1>2, <1>4, <2>1 DEF ConnectorHeld
  <2>3. Types' /\ NoFault'
    BY <1>1, <1>2, <1>3, <2>1, <2>2 DEF Types, TypeOK, NoFault
  <2>4. AttemptInv(Q)' /\ TableInv(Q)' /\ DestroyInv(Q)'
    BY <1>1, <1>2, <1>6, <2>1 DEF AttemptInv, TableInv, DestroyInv
  <2>5. ResetInv(Q, batch)' /\ FirstInv(Q)' /\ OneInv(batch)'
    BY <1>1, <1>2, <1>6, <2>1 DEF ResetInv, FirstInv, OneInv, Fresh, Tries
  <2>6. KcpInv(Q)' /\ ForcedInv(Q)' /\ StopInv'
    BY <1>1, <1>2, <1>6, <2>1 DEF KcpInv, ForcedInv, StopInv
  <2>7. OtherInv(Q, batch)'
    BY <1>1, <1>2, <1>6, <2>1 DEF OtherInv, Harmless, Finished, Tries
  <2>8. Parts(Q, batch)'
    BY <2>4, <2>5, <2>6, <2>7 DEF Parts
  <2>9. QED  BY <2>3, <2>8 DEF Keeps
<1>8. CASE connector.state = "connecting"
  <2>1. queue' \in Seq(Functor) /\ Added(Rest, Q', Resetting)
    BY <1>2, <1>3, <1>8, Names
  <2>2. /\ connector' \in ConnectorType /\ connector'.connect = connector.connect
        /\ connector'.state = "disconnected" /\ connector'.channel = "removed"
        /\ connector'.armed \in {connector.armed, connector.armed + 1}
        /\ connector'.due = connector.due /\ connector'.failed = "none"
    BY <1>2, <1>4, <1>8, GiveUpFacts
  <2>3. connector.channel = "live" /\ connection = None
    BY <1>6, <1>8 DEF AttemptInv, TableInv
  <2>4. fault' \in {"none", "connector"} /\ (fault' = "connector" => gone)
    BY <1>2, <2>2 DEF ConnectorHeld
  <2>5. Types' /\ NoFault'
    BY <1>1, <1>2, <1>3, <2>1, <2>2, <2>4 DEF Types, TypeOK, NoFault
  <2>6. AttemptInv(Q)'
    BY <1>1, <1>3, <1>6, <1>8, <2>1, <2>2, <2>3, Names DEF AttemptInv, Added
  <2>7. TableInv(Q)'
    BY <1>1, <1>2, <1>3, <1>6, <2>1, <2>3, Names DEF TableInv, Added, Resetting
  <2>8. DestroyInv(Q)'
    BY <1>1, <1>2, <1>6, <2>1, <2>3, Names DEF DestroyInv, Added, Resetting, Forcing, Destroying
  <2>9. ResetInv(Q, batch)'
    BY <1>2, <2>3 DEF ResetInv
  <2>10. FirstInv(Q)'
    BY <1>1, <1>6, <1>8, <2>1, Names DEF FirstInv, Fresh, Added, Resetting, Starting
  <2>11. OneInv(batch)'
    <3>1. starts <= 1 => connector.armed = 0 /\ connector.due = 0
      <4>1. starts <= 1 => Tries = 0
        BY <1>6, <2>3 DEF OneInv
      <4>2. QED  BY <4>1, <1>4 DEF Tries
    <3>2. starts <= 1 => Tries' <= 1 /\ ~(connector'.due > 0)
      BY <3>1, <1>4, <2>2 DEF Tries
    <3>3. QED  BY <3>2, <1>1, <1>2, <2>2, <2>3 DEF OneInv
  <2>12. KcpInv(Q)'
    BY <1>1, <1>2, <1>6, <2>1, Names DEF KcpInv, Added, Resetting, KcpClosing
  <2>13. ForcedInv(Q)' /\ StopInv'
    BY <1>1, <1>2, <1>6, <2>2, <2>3 DEF ForcedInv, StopInv
  <2>14. OtherInv(Q, batch)'
    BY <1>1, <1>2, <1>6, <2>1, <2>3, Names DEF OtherInv, Harmless, Finished, Added, Resetting, KcpClosing
  <2>15. Parts(Q, batch)'
    BY <2>6, <2>7, <2>8, <2>9, <2>10, <2>11, <2>12, <2>13, <2>14 DEF Parts
  <2>16. QED  BY <2>5, <2>15 DEF Keeps
<1>9. QED  BY <1>7, <1>8

\* resetChannel.
LEMMA ResetRuns ==
  ASSUME Types, fault = "none", Parts(Q, batch), Running(Resetting), RunConnector("reset")
  PROVE  Keeps
<1>1. /\ phase = "functors" /\ batch # <<>> /\ Resetting = Head(batch) /\ batch' = Tail(batch)
      /\ UNCHANGED <<kind, retry, wish, hold, phase, active, todo, userAt, starts, calls, gone, stopped>>
  BY DEF Running
<1>2. /\ connector' = ResetChannel(connector)
      /\ fault' = IF ConnectorHeld THEN connector'.failed ELSE "connector"
      /\ UNCHANGED <<queue, connection, tcp, orphaned, kcpConnection, kcp, verifying, raced>>
  BY DEF RunConnector, kcpVars
<1>3. /\ todo = {} /\ batch' \in Seq(Functor) /\ Q' = Rest
      /\ Taken(Q, Rest, Resetting) /\ Taken(batch, batch', Resetting) /\ In(Q, Resetting)
  BY <1>1, <1>2, RunFacts
<1>4. connector \in ConnectorType /\ connector.failed = "none"
  BY DEF Types, TypeOK, Parts, AttemptInv
<1>5. /\ connector' \in ConnectorType /\ connector'.connect = connector.connect
      /\ connector'.state = connector.state /\ connector'.channel = "none"
      /\ connector'.armed = connector.armed /\ connector'.due = connector.due
      /\ connector'.failed = "none"
  BY <1>2, <1>4, ResetFacts
<1>6. connector.channel = "removed" /\ connector.state # "connecting" /\ ~In(Rest, Resetting)
  <2>1. /\ connector.channel = "removed" /\ NotAhead(Q, Resetting, Resetting)
        /\ connector.state = "connecting" <=> connector.channel = "live"
    BY <1>3 DEF Parts, AttemptInv
  <2>2. ~In(Rest, Resetting)
    BY <2>1, <1>3 DEF Taken
  <2>3. QED  BY <2>1, <2>2
<1>7. \A k \in Ids : Resetting # KcpClosing(k)
  BY Names DEF Resetting, KcpClosing
<1>8. /\ TableInv(Rest) /\ DestroyInv(Rest) /\ FirstInv(Rest) /\ KcpInv(Rest) /\ ForcedInv(Rest) /\ StopInv
      /\ starts = 1 /\ ~gone => \A k \in Ids : Harmless(k, Rest, batch')
  BY <1>3, <1>7, TakenFacts
<1>9. Types' /\ NoFault'
  BY <1>1, <1>2, <1>3, <1>5 DEF Types, TypeOK, NoFault, ConnectorHeld
<1>10. Tries' = Tries
  BY <1>5 DEF Tries
<1>11. AttemptInv(Q)'
  <2>1. NotAhead(Rest, Resetting, Resetting)
    BY <1>6 DEF NotAhead, In
  <2>2. QED  BY <2>1, <1>1, <1>3, <1>5, <1>6 DEF AttemptInv
<1>12. TableInv(Q)' /\ DestroyInv(Q)' /\ ResetInv(Q, batch)'
  BY <1>1, <1>2, <1>3, <1>5, <1>8 DEF TableInv, DestroyInv, ResetInv
<1>13. FirstInv(Q)' /\ KcpInv(Q)' /\ ForcedInv(Q)' /\ StopInv'
  BY <1>1, <1>2, <1>3, <1>5, <1>6, <1>8 DEF FirstInv, Fresh, KcpInv, ForcedInv, StopInv
<1>14. OneInv(batch)'
  BY <1>1, <1>2, <1>5, <1>10 DEF Parts, OneInv
<1>15. OtherInv(Q, batch)'
  BY <1>1, <1>2, <1>3, <1>5, <1>6, <1>8, <1>10 DEF OtherInv, Harmless, Finished
<1>16. Parts(Q, batch)'
  BY <1>11, <1>12, <1>13, <1>14, <1>15 DEF Parts
<1>17. QED  BY <1>9, <1>16 DEF Keeps

\* forceCloseInLoop.
LEMMA ForceRuns ==
  ASSUME NEW i \in Ids, Types, fault = "none", Parts(Q, batch), Running(Forcing(i)),
         CanClose(i), HandleClose(i, queue), UNCHANGED orphaned
  PROVE  Keeps
<1>1. /\ phase = "functors" /\ batch # <<>> /\ Forcing(i) = Head(batch) /\ batch' = Tail(batch)
      /\ UNCHANGED <<kind, retry, wish, hold, phase, active, todo, userAt, starts, calls, gone, stopped>>
  BY DEF Running
<1>2. /\ todo = {} /\ batch' \in Seq(Functor) /\ Rest = batch' \o queue
      /\ Taken(Q, Rest, Forcing(i)) /\ Taken(batch, batch', Forcing(i)) /\ In(Q, Forcing(i))
  BY <1>1, RunFacts
<1>3. Forcing(i) # Resetting /\ \A k \in Ids : Forcing(i) # KcpClosing(k)
  BY Names DEF Forcing, Resetting, KcpClosing
<1>4. Parts(Rest, batch')
  BY <1>2, <1>3, TakenFacts DEF Parts, OtherInv
<1>5. tcp[i] \in {"connected", "disconnecting"}
  BY DEF CanClose
<1>6. connector.channel = "removed" => connection # i
  <2> SUFFICES ASSUME connector.channel = "removed", connection = i PROVE FALSE
    OBVIOUS
  <2>1. In(Rest, Resetting)
    BY <1>4 DEF Parts, AttemptInv
  <2>2. NotAhead(Q, Forcing(i), Resetting)
    BY DEF Parts, ResetInv
  <2>3. QED  BY <2>1, <2>2, <1>2 DEF Taken
<1>7. starts = 1 /\ ~gone => (~wish /\ userAt.call # "stop") \/ kcp[i] = "disconnected"
  BY <1>2, <1>5 DEF Parts, TableInv, ForcedInv
<1>8. QED  BY <1>1, <1>2, <1>4, <1>5, <1>6, <1>7, CloseKeeps

\* connectDestroyed of the connection.
LEMMA DestroyedRuns ==
  ASSUME NEW i \in Ids, Types, fault = "none", Parts(Q, batch), Running(Destroying(i)),
         tcp' = [tcp EXCEPT ![i] = "closed"],
         UNCHANGED <<connector, raced, queue, connection, orphaned, kcpVars, fault>>
  PROVE  Keeps
<1>1. /\ phase = "functors" /\ batch # <<>> /\ Destroying(i) = Head(batch) /\ batch' = Tail(batch)
      /\ UNCHANGED <<kind, retry, wish, hold, phase, active, todo, userAt, starts, calls, gone, stopped>>
      /\ UNCHANGED <<connector, raced, queue, connection, orphaned, kcpConnection, kcp, verifying, fault>>
  BY DEF Running, kcpVars
<1>2. /\ todo = {} /\ batch' \in Seq(Functor) /\ Q' = Rest
      /\ Taken(Q, Rest, Destroying(i)) /\ Taken(batch, batch', Destroying(i)) /\ In(Q, Destroying(i))
  BY <1>1, RunFacts
<1>3. Destroying(i) # Resetting /\ \A k \in Ids : Destroying(i) # KcpClosing(k)
  BY Names DEF Destroying, Resetting, KcpClosing
<1>4. Parts(Rest, batch')
  BY <1>2, <1>3, TakenFacts DEF Parts, OtherInv
<1>5. tcp \in [Ids -> {"none", "connected", "disconnecting", "disconnected", "closed"}]
  BY DEF Types, TypeOK
<1>6. tcp' \in [Ids -> {"none", "connected", "disconnecting", "disconnected", "closed"}]
  BY <1>5
<1>7. Types' /\ NoFault'
  BY <1>1, <1>2, <1>6 DEF Types, TypeOK, NoFault
<1>8. ~gone => connection # i /\ ~In(Rest, Destroying(i)) /\ ~In(Rest, Forcing(i))
  BY <1>2 DEF Parts, DestroyInv, Taken
<1>9. AttemptInv(Q)' /\ ResetInv(Q, batch)' /\ FirstInv(Q)' /\ OneInv(batch)'
  BY <1>1, <1>2, <1>4 DEF Parts, AttemptInv, ResetInv, FirstInv, Fresh, OneInv, Tries
<1>10. TableInv(Q)'
  BY <1>1, <1>2, <1>4, <1>5, <1>8 DEF Parts, TableInv
<1>11. DestroyInv(Q)'
  BY <1>1, <1>2, <1>4, <1>5, <1>8 DEF Parts, DestroyInv
<1>12. KcpInv(Q)' /\ ForcedInv(Q)' /\ StopInv'
  BY <1>1, <1>2, <1>4 DEF Parts, KcpInv, ForcedInv, StopInv
<1>13. OtherInv(Q, batch)'
  BY <1>1, <1>2, <1>4 DEF Parts, OtherInv, Harmless, Finished, Tries
<1>14. Parts(Q, batch)'
  BY <1>9, <1>10, <1>11, <1>12, <1>13 DEF Parts
<1>15. QED  BY <1>7, <1>14 DEF Keeps

\* A functor that only says where the close callback of a connection goes: the
\* client is gone.
LEMMA SetCloseRuns ==
  ASSUME NEW i \in Ids, NEW o \in {"setClose", "kcpSetClose"},
         Types, fault = "none", Parts(Q, batch), Running(F(o, i)),
         orphaned' \subseteq {"tcp", "kcp"} \X Ids, fault' \in {"none", "kcp"},
         UNCHANGED <<connector, raced, queue, connection, tcp, kcpVars>>
  PROVE  Keeps
<1>1. /\ phase = "functors" /\ batch # <<>> /\ F(o, i) = Head(batch) /\ batch' = Tail(batch)
      /\ UNCHANGED <<kind, retry, wish, hold, phase, active, todo, userAt, starts, calls, gone, stopped>>
      /\ UNCHANGED <<connector, raced, queue, connection, tcp, kcpConnection, kcp, verifying>>
  BY DEF Running, kcpVars
<1>2. /\ todo = {} /\ batch' \in Seq(Functor) /\ Q' = Rest
      /\ Taken(Q, Rest, F(o, i)) /\ Taken(batch, batch', F(o, i)) /\ In(Q, F(o, i))
  BY <1>1, RunFacts
<1>3. F(o, i) # Resetting /\ \A k \in Ids : F(o, i) # KcpClosing(k)
  BY Names DEF Resetting, KcpClosing
<1>4. Parts(Rest, batch')
  BY <1>2, <1>3, TakenFacts DEF Parts, OtherInv
<1>5. gone /\ gone'
  BY <1>1, <1>2 DEF Parts, TableInv
<1>6. Types' /\ NoFault'
  BY <1>1, <1>2, <1>5 DEF Types, TypeOK, NoFault
<1>7. AttemptInv(Q)' /\ ResetInv(Q, batch)' /\ FirstInv(Q)' /\ OneInv(batch)'
  BY <1>1, <1>2, <1>4 DEF Parts, AttemptInv, ResetInv, FirstInv, Fresh, OneInv, Tries
<1>8. TableInv(Q)' /\ DestroyInv(Q)'
  BY <1>1, <1>4, <1>5 DEF Parts, TableInv, DestroyInv
<1>9. KcpInv(Q)' /\ ForcedInv(Q)' /\ StopInv' /\ OtherInv(Q, batch)'
  BY <1>1, <1>2, <1>4, <1>5 DEF Parts, KcpInv, ForcedInv, StopInv, OtherInv
<1>10. Parts(Q, batch)'
  BY <1>7, <1>8, <1>9 DEF Parts
<1>11. QED  BY <1>6, <1>10 DEF Keeps

\* A functor finds its connection closed.
LEMMA NothingRuns ==
  ASSUME NEW i \in Ids, NEW x \in Functor, x = Forcing(i) \/ (x = KcpClosing(i) /\ kcp[i] = "disconnected"),
         Types, fault = "none", Parts(Q, batch), Running(x),
         UNCHANGED <<connector, raced, queue, tcpVars, kcpVars, fault>>
  PROVE  Keeps
<1>1. /\ phase = "functors" /\ batch # <<>> /\ x = Head(batch) /\ batch' = Tail(batch)
      /\ UNCHANGED <<kind, retry, wish, hold, phase, active, todo, userAt, starts, calls, gone, stopped>>
      /\ UNCHANGED <<connector, raced, queue, connection, tcp, orphaned, kcpConnection, kcp, verifying, fault>>
  BY DEF Running, kcpVars, tcpVars
<1>2. /\ todo = {} /\ batch' \in Seq(Functor) /\ Q' = Rest
      /\ Taken(Q, Rest, x) /\ Taken(batch, batch', x)
  BY <1>1, RunFacts
<1>3. x # Resetting /\ \A k \in Ids : x = KcpClosing(k) => kcp[k] = "disconnected"
  BY Names DEF Forcing, Resetting, KcpClosing
<1>4. Parts(Rest, batch')
  <2>1. /\ TableInv(Rest) /\ DestroyInv(Rest) /\ FirstInv(Rest) /\ KcpInv(Rest) /\ ForcedInv(Rest) /\ StopInv
        /\ AttemptInv(Rest) /\ ResetInv(Rest, batch') /\ OneInv(batch')
        /\ starts = 1 /\ ~gone => \A k \in Ids : x # KcpClosing(k) => Harmless(k, Rest, batch')
    BY <1>2, <1>3, TakenFacts
  <2>2. OtherInv(Rest, batch')
    BY <2>1, <1>3 DEF OtherInv, Harmless
  <2>3. QED  BY <2>1, <2>2 DEF Parts
<1>5. Types' /\ NoFault'
  BY <1>1, <1>2 DEF Types, TypeOK, NoFault
<1>6. AttemptInv(Q)' /\ ResetInv(Q, batch)' /\ FirstInv(Q)' /\ OneInv(batch)'
  BY <1>1, <1>2, <1>4 DEF Parts, AttemptInv, ResetInv, FirstInv, Fresh, OneInv, Tries
<1>7. TableInv(Q)' /\ DestroyInv(Q)'
  BY <1>1, <1>2, <1>4 DEF Parts, TableInv, DestroyInv
<1>8. KcpInv(Q)' /\ ForcedInv(Q)' /\ StopInv'
  BY <1>1, <1>2, <1>4 DEF Parts, KcpInv, ForcedInv, StopInv
<1>9. OtherInv(Q, batch)'
  BY <1>1, <1>2, <1>4 DEF Parts, OtherInv, Harmless, Finished, Tries
<1>10. Parts(Q, batch)'
  BY <1>6, <1>7, <1>8, <1>9 DEF Parts
<1>11. QED  BY <1>5, <1>10 DEF Keeps

------------------------------------------------------------------------------
(* The connection of the client is asked to close.                            *)

\* s is what waited; the functor that closes the connection is queued.
LEMMA ForcedFacts ==
  ASSUME Types, NEW s, NEW i \in Ids, connection = i, ~gone, ~gone',
         TableInv(s), DestroyInv(s), Added(s, Q', Forcing(i)),
         tcp' = [tcp EXCEPT ![i] = "disconnecting"],
         UNCHANGED <<connection, orphaned, kcpConnection, kind, connector>>, todo' \subseteq todo
  PROVE  /\ TableInv(Q)' /\ DestroyInv(Q)'
         /\ tcp' \in [Ids -> {"none", "connected", "disconnecting", "disconnected", "closed"}]
         /\ \A e : (\A j \in Ids : e # Forcing(j)) =>
              (In(Q', e) <=> In(s, e)) /\ (NotAhead(Q', e, e) <=> NotAhead(s, e, e))
         /\ \A j \in Ids : In(Q', Forcing(j)) <=> In(s, Forcing(j)) \/ j = i
         /\ NotAhead(Q', Forcing(i), Resetting) <=> NotAhead(s, Forcing(i), Resetting)
<1>1. tcp \in [Ids -> {"none", "connected", "disconnecting", "disconnected", "closed"}]
  BY DEF Types, TypeOK
<1>2. tcp' \in [Ids -> {"none", "connected", "disconnecting", "disconnected", "closed"}]
  BY <1>1
<1>3. \A e : (\A j \in Ids : e # Forcing(j)) =>
              (In(Q', e) <=> In(s, e)) /\ (NotAhead(Q', e, e) <=> NotAhead(s, e, e))
  BY DEF Added
<1>4. \A j \in Ids : In(Q', Forcing(j)) <=> In(s, Forcing(j)) \/ j = i
  BY Names DEF Added, Forcing
<1>5. NotAhead(Q', Forcing(i), Resetting) <=> NotAhead(s, Forcing(i), Resetting)
  BY Names DEF Added, Forcing, Resetting
<1>6. TableInv(Q)'
  <2>1. tcp[i] \in {"connected", "disconnecting"}
    BY DEF TableInv
  <2>2. \A j \in Ids : connection' = j <=> tcp'[j] \in {"connected", "disconnecting"}
    BY <1>1, <2>1 DEF TableInv
  <2>3. \A j \in Ids : ~In(Q', F("setClose", j)) /\ ~In(Q', F("kcpSetClose", j))
    BY <1>3, Names DEF TableInv, Forcing
  <2>4. QED  BY <2>2, <2>3 DEF TableInv
<1>7. DestroyInv(Q)'
  <2>1. \A j \in Ids : In(Q', Destroying(j)) <=> In(s, Destroying(j))
    BY Names DEF Added, Forcing, Destroying
  <2>2. \A j \in Ids : NotAhead(Q', Destroying(j), Destroying(j)) <=> NotAhead(s, Destroying(j), Destroying(j))
    BY Names DEF Added, Forcing, Destroying
  <2>3. ~In(s, Destroying(i))
    BY DEF DestroyInv
  <2>4. \A j \in Ids : NotAhead(Q', Destroying(j), Forcing(j)) <=> NotAhead(s, Destroying(j), Forcing(j))
    BY <2>3, Names DEF Added, Forcing, Destroying
  <2>5. \A j \in Ids : tcp'[j] \in {"none", "closed"} => j # i /\ tcp[j] \in {"none", "closed"}
    BY <1>1
  <2>6. QED  BY <1>4, <2>1, <2>2, <2>4, <2>5 DEF DestroyInv
<1>8. QED  BY <1>2, <1>3, <1>4, <1>5, <1>6, <1>7

\* The KCP connection closes, and with it the TCP connection the client has.
LEMMA KcpCloseRuns ==
  ASSUME NEW k \in Ids, Types, fault = "none", Parts(Q, batch), Running(KcpClosing(k)),
         kcp[k] \in {"connected", "connecting", "disconnecting"}, HandleKcpClose(k),
         UNCHANGED <<connector, raced, connection, orphaned, kcpConnection>>
  PROVE  Keeps
<1>1. /\ phase = "functors" /\ batch # <<>> /\ KcpClosing(k) = Head(batch) /\ batch' = Tail(batch)
      /\ UNCHANGED <<kind, retry, wish, hold, phase, active, todo, userAt, starts, calls, gone, stopped>>
      /\ UNCHANGED <<connector, raced, connection, orphaned, kcpConnection>>
  BY DEF Running
<1>2. /\ kcp' = [kcp EXCEPT ![k] = "disconnected"] /\ verifying' \subseteq verifying
      /\ IF ~gone /\ CanClose(connection)
         THEN /\ tcp' = [tcp EXCEPT ![connection] = "disconnecting"]
              /\ queue' = Append(queue, Forcing(connection))
         ELSE UNCHANGED <<tcp, queue>>
      /\ fault' \in {"none", "client", "other"}
      /\ fault' = "client" => gone
      /\ fault' = "other" => ~gone /\ connection \notin {None, k}
      /\ connection \notin {None, k} => fault' # "none"
  <2>1. /\ kcp' = [kcp EXCEPT ![k] = "disconnected"] /\ verifying' \subseteq verifying
        /\ IF ~gone /\ CanClose(connection)
           THEN /\ tcp' = [tcp EXCEPT ![connection] = "disconnecting"]
                /\ queue' = Append(queue, Forcing(connection))
           ELSE UNCHANGED <<tcp, queue>>
    BY DEF HandleKcpClose, RemoveKcpConnection, Forcing
  <2>2. /\ fault' \in {"none", "client", "other"}
        /\ fault' = "client" => gone
        /\ fault' = "other" => ~gone /\ connection \notin {None, k}
        /\ ~gone /\ connection \notin {None, k} => fault' # "none"
    BY DEF HandleKcpClose, RemoveKcpConnection
  <2>3. gone => connection = None
    BY DEF Parts, TableInv
  <2>4. QED  BY <2>1, <2>2, <2>3
<1>3. /\ todo = {} /\ batch' \in Seq(Functor) /\ queue \in Seq(Functor)
      /\ Taken(Q, Rest, KcpClosing(k)) /\ Taken(batch, batch', KcpClosing(k)) /\ In(Q, KcpClosing(k))
      /\ queue' = queue => Q' = Rest
      /\ \A y \in Functor : queue' = Append(queue, y) => queue' \in Seq(Functor) /\ Added(Rest, Q', y)
  BY <1>1, RunFacts
<1>4. KcpClosing(k) # Resetting /\ \A j \in Ids : KcpClosing(k) = KcpClosing(j) <=> j = k
  BY Names DEF Resetting, KcpClosing
<1>5. /\ TableInv(Rest) /\ DestroyInv(Rest) /\ FirstInv(Rest) /\ KcpInv(Rest) /\ ForcedInv(Rest) /\ StopInv
      /\ AttemptInv(Rest) /\ ResetInv(Rest, batch') /\ OneInv(batch')
      /\ starts = 1 /\ ~gone => \A j \in Ids : j # k => Harmless(j, Rest, batch')
  BY <1>3, <1>4, TakenFacts
<1>6. /\ kcp \in [Ids -> {"none", "connecting", "connected", "disconnecting", "disconnected"}]
      /\ connection \in Ids \cup {None} /\ starts \in 0..MaxStarts /\ calls \in 0..MaxCalls
      /\ kcpConnection \in Ids \cup {None}
  BY DEF Types, TypeOK
<1>7. kcp' \in [Ids -> {"none", "connecting", "connected", "disconnecting", "disconnected"}]
  BY <1>2, <1>6
<1>8. \A j \in Ids : kcp'[j] = IF j = k THEN "disconnected" ELSE kcp[j]
  BY <1>2, <1>6
<1>9. NoFault'
  <2>1. ~gone /\ starts <= 1 => connection \in {None, k}
    <3>1. ~gone => starts # 0
      BY <1>3 DEF Parts, FirstInv
    <3>2. ~gone /\ starts = 1 => Harmless(k, Q, batch)
      BY DEF Parts, OtherInv
    <3>3. Harmless(k, Q, batch) => connection \in {None, k}
      BY <1>3 DEF Harmless
    <3>4. QED  BY <3>1, <3>2, <3>3, <1>6
  <2>2. QED  BY <2>1, <1>1, <1>2, <1>6 DEF NoFault
\* In both cases.
<1>10. /\ TableInv(Q)' /\ DestroyInv(Q)' /\ queue' \in Seq(Functor)
       /\ tcp' \in [Ids -> {"none", "connected", "disconnecting", "disconnected", "closed"}]
       /\ \A e : (\A j \in Ids : e # Forcing(j)) =>
            (In(Q', e) <=> In(Rest, e)) /\ (NotAhead(Q', e, e) <=> NotAhead(Rest, e, e))
       /\ \A j \in Ids : In(Q', Forcing(j)) => In(Rest, Forcing(j)) \/ j = connection
       /\ connection # None =>
            (NotAhead(Q', Forcing(connection), Resetting) <=> NotAhead(Rest, Forcing(connection), Resetting))
  <2>1. CASE ~gone /\ CanClose(connection)
    <3>1. /\ connection \in Ids /\ tcp' = [tcp EXCEPT ![connection] = "disconnecting"]
          /\ queue' = Append(queue, Forcing(connection))
      BY <1>2, <1>6, <2>1 DEF CanClose
    <3>2. queue' \in Seq(Functor) /\ Added(Rest, Q', Forcing(connection))
      BY <3>1, <1>3, Names DEF Forcing
    <3>3. ~gone' /\ todo' \subseteq todo
      BY <1>1, <2>1
    <3>4. QED  BY <3>1, <3>2, <3>3, <1>1, <1>5, <2>1, ForcedFacts
  <2>2. CASE ~(~gone /\ CanClose(connection))
    <3>1. tcp' = tcp /\ queue' = queue /\ Q' = Rest
      BY <1>2, <1>3, <2>2
    <3>2. tcp' \in [Ids -> {"none", "connected", "disconnecting", "disconnected", "closed"}]
      BY <3>1 DEF Types, TypeOK
    <3>3. TableInv(Q)' /\ DestroyInv(Q)'
      BY <3>1, <1>1, <1>5 DEF TableInv, DestroyInv
    <3>4. QED  BY <3>1, <3>2, <3>3, <1>3
  <2>3. QED  BY <2>1, <2>2
<1>11. Types'
  BY <1>1, <1>2, <1>3, <1>7, <1>10 DEF Types, TypeOK
<1>12. /\ \A j \in Ids : In(Q', KcpClosing(j)) <=> In(Rest, KcpClosing(j))
       /\ In(Q', Starting) <=> In(Rest, Starting)
       /\ NotAhead(Q', Starting, Starting) <=> NotAhead(Rest, Starting, Starting)
       /\ In(Q', Resetting) <=> In(Rest, Resetting)
       /\ NotAhead(Q', Resetting, Resetting) <=> NotAhead(Rest, Resetting, Resetting)
  BY <1>10, Names DEF KcpClosing, Forcing, Starting, Resetting
<1>13. ASSUME fault' = "none" PROVE Parts(Q, batch)'
  <2>1. connection \in {None, k}
    BY <1>2, <1>13
  <2>2. AttemptInv(Q)' /\ OneInv(batch)' /\ StopInv'
    BY <1>1, <1>5, <1>12 DEF AttemptInv, OneInv, Tries, StopInv
  <2>3. ResetInv(Q, batch)'
    BY <1>1, <1>5, <1>10 DEF ResetInv
  <2>4. FirstInv(Q)'
    <3>1. starts = 0 => connection = None /\ gone
      BY <1>3 DEF Parts, FirstInv, Fresh
    <3>2. QED  BY <3>1, <1>1, <1>5, <1>12 DEF FirstInv, Fresh, Tries
  <2>5. KcpInv(Q)'
    <3>1. calls = 0 /\ kcpConnection # None => kcpConnection # k
      BY <1>3 DEF Parts, KcpInv
    <3>2. QED  BY <3>1, <1>1, <1>5, <1>6, <1>8, <1>12 DEF KcpInv
  <2>6. ForcedInv(Q)'
    BY <2>1, <1>1, <1>8 DEF ForcedInv
  <2>7. OtherInv(Q, batch)'
    BY <1>1, <1>5, <1>8, <1>12 DEF OtherInv, Harmless, Finished, Tries
  <2>8. QED  BY <2>2, <2>3, <2>4, <2>5, <2>6, <2>7, <1>10 DEF Parts
<1>14. QED  BY <1>9, <1>11, <1>13 DEF Keeps

\* Whichever functor runs.
LEMMA RunFunctorKeeps ==
  ASSUME Types, fault = "none", Parts(Q, batch), RunFunctor
  PROVE  Keeps
<1> DEFINE x == Head(batch)
           op == x.op
           i == x.id
<1>1. batch # <<>> /\ Running(x)
  BY DEF RunFunctor, Running, userVars
<1>2. x \in Functor /\ x = F(op, i)
  BY <1>1, RunFacts, FunctorFields DEF Running
<1>3. /\ op \in {"start", "stop", "reset"} => i = None
      /\ op \in {"forceClose", "destroyed", "setClose", "kcpClose", "kcpSetClose"} => i \in Ids
  BY <1>2, FunctorFields
<1>4. CASE op \in {"start", "stop", "reset"} /\ RunConnector(op)
  BY <1>1, <1>2, <1>3, <1>4, StartRuns, StopRuns, ResetRuns DEF Starting, Stopping, Resetting
<1>5. CASE op = "forceClose" /\ CanClose(i) /\ HandleClose(i, queue) /\ UNCHANGED orphaned
  BY <1>1, <1>2, <1>3, <1>5, ForceRuns DEF Forcing
<1>6. CASE /\ op = "destroyed" /\ tcp' = [tcp EXCEPT ![i] = "closed"]
           /\ UNCHANGED <<connector, raced, queue, connection, orphaned, kcpVars, fault>>
  BY <1>1, <1>2, <1>3, <1>6, DestroyedRuns DEF Destroying
<1>7. CASE /\ op = "setClose" /\ orphaned' = orphaned \cup {<<"tcp", i>>}
           /\ UNCHANGED <<connector, raced, queue, connection, tcp, kcpVars, fault>>
  <2>1. orphaned' \subseteq {"tcp", "kcp"} \X Ids
    BY <1>3, <1>7 DEF Types, TypeOK
  <2>2. QED  BY <2>1, <1>1, <1>2, <1>3, <1>7, SetCloseRuns
<1>8. CASE /\ op = "kcpClose" /\ kcp[i] \in {"connected", "connecting", "disconnecting"}
           /\ HandleKcpClose(i)
           /\ UNCHANGED <<connector, raced, connection, orphaned, kcpConnection>>
  BY <1>1, <1>2, <1>3, <1>8, KcpCloseRuns DEF KcpClosing
<1>9. CASE /\ op = "forceClose" \/ (op = "kcpClose" /\ kcp[i] = "disconnected")
           /\ UNCHANGED <<connector, raced, queue, tcpVars, kcpVars, fault>>
  BY <1>1, <1>2, <1>3, <1>9, NothingRuns DEF Forcing, KcpClosing
<1>10. CASE /\ op = "kcpSetClose" /\ orphaned' = orphaned \cup {<<"kcp", i>>}
            /\ fault' \in {"none", "kcp"}
            /\ UNCHANGED <<connector, raced, queue, connection, tcp, kcpVars>>
  <2>1. orphaned' \subseteq {"tcp", "kcp"} \X Ids
    BY <1>3, <1>10 DEF Types, TypeOK
  <2>2. QED  BY <2>1, <1>1, <1>2, <1>3, <1>10, SetCloseRuns
<1>11. QED
  BY <1>4, <1>5, <1>6, <1>7, <1>8, <1>9, <1>10 DEF RunFunctor

------------------------------------------------------------------------------
(* Calls of users.                                                            *)

\* A user calls connect, up to the assignments.
LEMMA CallConnectKeeps ==
  ASSUME Types, fault = "none", Parts(Q, batch), CallConnect
  PROVE  Keeps
<1>1. /\ userAt = Idle /\ ~gone /\ starts < MaxStarts /\ starts' = starts + 1
      /\ userAt' = [call |-> "connect", id |-> None] /\ wish' = TRUE /\ stopped' = FALSE
      /\ connector' = [connector EXCEPT !.connect = TRUE]
      /\ UNCHANGED <<kind, retry, hold, kcpConnection, connection, orphaned, phase, active, todo, batch, raced, fault>>
      /\ UNCHANGED <<tcp, kcp, verifying, queue, calls, gone>>
  BY DEF CallConnect, Unread
<1>2. Q' = Q /\ userAt'.call = "connect"
  BY <1>1 DEF Q
<1>3. /\ connector' \in ConnectorType /\ connector'.state = connector.state
      /\ connector'.channel = connector.channel /\ connector'.armed = connector.armed
      /\ connector'.due = connector.due /\ connector'.failed = connector.failed
  BY <1>1, AssignFacts DEF Types, TypeOK
<1>4. /\ starts \in Nat /\ starts' # 0 /\ (starts' <= 1 => starts = 0) /\ starts' \in 0..MaxStarts
  BY <1>1 DEF Types, TypeOK
<1>5. Tries' = Tries /\ Fresh' = Fresh
  BY <1>1, <1>3 DEF Tries, Fresh
<1>6. Types' /\ NoFault'
  <2>1. userAt' \in Calling
    BY <1>1 DEF Calling
  <2>2. QED  BY <2>1, <1>1, <1>3, <1>4 DEF Types, TypeOK, NoFault
<1>7. AttemptInv(Q)' /\ TableInv(Q)' /\ DestroyInv(Q)' /\ ResetInv(Q, batch)'
  BY <1>1, <1>2, <1>3 DEF Parts, AttemptInv, TableInv, DestroyInv, ResetInv
<1>8. FirstInv(Q)'
  <2>1. starts' = 1 => starts = 0
    BY <1>4
  <2>2. starts = 0 => Fresh /\ ~In(Q, Starting) /\ NotAhead(Q, Starting, Starting)
    BY DEF Parts, FirstInv, In, NotAhead
  <2>3. QED  BY <2>1, <2>2, <1>2, <1>4, <1>5 DEF FirstInv
<1>9. OneInv(batch)'
  BY <1>1, <1>3, <1>4, <1>5 DEF Parts, OneInv
<1>10. KcpInv(Q)' /\ StopInv'
  BY <1>1, <1>2 DEF Parts, KcpInv, StopInv
<1>11. ForcedInv(Q)' /\ OtherInv(Q, batch)'
  <2>1. starts' = 1 => \A i \in Ids : ~In(Q, Forcing(i)) /\ ~In(Q, KcpClosing(i))
    BY <1>1, <1>4 DEF Parts, FirstInv
  <2>2. QED  BY <2>1, <1>2 DEF ForcedInv, OtherInv, Harmless
<1>12. QED  BY <1>6, <1>7, <1>8, <1>9, <1>10, <1>11 DEF Keeps, Parts

\* A user calls stop, up to the assignments.
LEMMA CallStopKeeps ==
  ASSUME Types, fault = "none", Parts(Q, batch), CallStop
  PROVE  Keeps
<1>1. /\ userAt = Idle /\ ~gone /\ calls < MaxCalls /\ calls' = calls + 1
      /\ userAt' = [call |-> IF wish THEN "stop" ELSE "stopAgain", id |-> None]
      /\ wish' = FALSE /\ stopped' = TRUE
      /\ connector' = [connector EXCEPT !.connect = FALSE]
      /\ UNCHANGED <<kind, retry, hold, kcpConnection, connection, orphaned, phase, active, todo, batch, raced, fault>>
      /\ UNCHANGED <<tcp, kcp, verifying, queue, starts, gone>>
  BY DEF CallStop, Calls, Unread
<1>2. /\ Q' = Q /\ userAt'.call \in {"stop", "stopAgain"} /\ userAt.call = "none"
      /\ userAt'.call = "stop" => wish
  BY <1>1 DEF Q, Idle
<1>3. /\ connector' \in ConnectorType /\ connector'.state = connector.state /\ connector'.connect = FALSE
      /\ connector'.channel = connector.channel /\ connector'.armed = connector.armed
      /\ connector'.due = connector.due /\ connector'.failed = connector.failed
  BY <1>1, AssignFacts DEF Types, TypeOK
<1>4. calls' # 0 /\ calls' \in 0..MaxCalls
  BY <1>1 DEF Types, TypeOK
<1>5. Tries' = Tries /\ Fresh' = Fresh
  BY <1>1, <1>3 DEF Tries, Fresh
<1>6. Types' /\ NoFault'
  <2>1. userAt' \in Calling
    BY <1>1 DEF Calling
  <2>2. QED  BY <2>1, <1>1, <1>3, <1>4 DEF Types, TypeOK, NoFault
<1>7. AttemptInv(Q)' /\ TableInv(Q)' /\ DestroyInv(Q)' /\ ResetInv(Q, batch)'
  BY <1>1, <1>2, <1>3 DEF Parts, AttemptInv, TableInv, DestroyInv, ResetInv
<1>8. FirstInv(Q)' /\ OneInv(batch)'
  BY <1>1, <1>2, <1>3, <1>5 DEF Parts, FirstInv, OneInv
<1>9. KcpInv(Q)' /\ StopInv'
  BY <1>1, <1>3, <1>4 DEF KcpInv, StopInv
<1>10. ForcedInv(Q)'
  BY <1>1, <1>2 DEF Parts, ForcedInv
<1>11. OtherInv(Q, batch)'
  BY <1>1, <1>2, <1>3, <1>5 DEF Parts, OtherInv, Harmless, Finished
<1>12. QED  BY <1>6, <1>7, <1>8, <1>9, <1>10, <1>11 DEF Keeps, Parts

\* Both queue a functor for the connector.
LEMMA EndCallKeeps ==
  ASSUME Types, fault = "none", Parts(Q, batch), EndCall
  PROVE  Keeps
<1> DEFINE x == IF userAt.call = "connect" THEN Starting ELSE Stopping
<1>1. /\ userAt' = Idle /\ queue' = Append(queue, x)
      /\ UNCHANGED <<kind, retry, hold, kcpConnection, connection, orphaned, phase, active, todo, batch, raced, fault>>
      /\ UNCHANGED <<wish, connector, tcp, kcp, verifying, starts, calls, gone, stopped>>
  BY DEF EndCall, Unread, Starting, Stopping
<1>2. /\ x \in Functor /\ (x = Starting <=> userAt.call = "connect") /\ x # Resetting
      /\ \A i \in Ids : /\ x # Forcing(i) /\ x # Destroying(i) /\ x # KcpClosing(i)
                        /\ x # F("setClose", i) /\ x # F("kcpSetClose", i)
  BY Names DEF Starting, Stopping, Resetting, Forcing, Destroying, KcpClosing
<1> HIDE DEF x
<1>3. queue' \in Seq(Functor) /\ Added(Q, Q', x)
  BY <1>1, <1>2, QueueFacts
<1>4. userAt'.call = "none"
  BY <1>1 DEF Idle
<1>5. Types' /\ NoFault'
  <2>1. userAt' \in Calling
    BY <1>1 DEF Calling, Idle
  <2>2. QED  BY <2>1, <1>1, <1>3 DEF Types, TypeOK, NoFault
<1>6. AttemptInv(Q)' /\ TableInv(Q)'
  BY <1>1, <1>2, <1>3 DEF Parts, AttemptInv, TableInv, Added
<1>7. DestroyInv(Q)' /\ ResetInv(Q, batch)'
  BY <1>1, <1>2, <1>3 DEF Parts, DestroyInv, ResetInv, Added
<1>8. FirstInv(Q)'
  BY <1>1, <1>2, <1>3, <1>4 DEF Parts, FirstInv, Added, Fresh, Tries
<1>9. OneInv(batch)' /\ KcpInv(Q)' /\ StopInv'
  BY <1>1, <1>2, <1>3 DEF Parts, OneInv, Tries, KcpInv, StopInv, Added
<1>10. ForcedInv(Q)'
  BY <1>1, <1>2, <1>3, <1>4 DEF Parts, ForcedInv, Added
<1>11. OtherInv(Q, batch)'
  <2>1. Finished /\ ~In(Q, Starting) => Finished' /\ ~In(Q', Starting)
    BY <1>1, <1>2, <1>3, <1>4 DEF Finished, Tries, Added
  <2>2. QED  BY <2>1, <1>1, <1>2, <1>3 DEF Parts, OtherInv, Harmless, Added
<1>12. QED  BY <1>5, <1>6, <1>7, <1>8, <1>9, <1>10, <1>11 DEF Keeps, Parts

\* A user calls disconnect.
LEMMA DisconnectKeeps ==
  ASSUME Types, fault = "none", Parts(Q, batch), Disconnect
  PROVE  Keeps
<1>1. /\ userAt = Idle /\ ~gone /\ calls < MaxCalls /\ calls' = calls + 1 /\ wish' = FALSE
      /\ IF CanClose(connection)
         THEN /\ tcp' = [tcp EXCEPT ![connection] = "disconnecting"]
              /\ queue' = Append(queue, Forcing(connection))
         ELSE UNCHANGED <<tcp, queue>>
      /\ UNCHANGED <<kind, retry, hold, kcpConnection, connection, orphaned, phase, active, todo, batch, raced, fault>>
      /\ UNCHANGED <<connector, kcp, verifying, userAt, starts, gone, stopped>>
  BY DEF Disconnect, Calls, Unread, Forcing
<1>2. userAt.call = "none" /\ connection \in Ids \cup {None}
  BY <1>1 DEF Idle, Types, TypeOK
<1>3. calls' # 0 /\ calls' \in 0..MaxCalls
  BY <1>1 DEF Types, TypeOK
<1>4. /\ TableInv(Q)' /\ DestroyInv(Q)' /\ queue' \in Seq(Functor)
      /\ tcp' \in [Ids -> {"none", "connected", "disconnecting", "disconnected", "closed"}]
      /\ \A e : (\A j \in Ids : e # Forcing(j)) =>
           (In(Q', e) <=> In(Q, e)) /\ (NotAhead(Q', e, e) <=> NotAhead(Q, e, e))
      /\ \A j \in Ids : In(Q', Forcing(j)) => In(Q, Forcing(j)) \/ j = connection
      /\ connection # None =>
           (NotAhead(Q', Forcing(connection), Resetting) <=> NotAhead(Q, Forcing(connection), Resetting))
  <2>1. CASE CanClose(connection)
    <3>1. /\ connection \in Ids /\ tcp' = [tcp EXCEPT ![connection] = "disconnecting"]
          /\ queue' = Append(queue, Forcing(connection))
      BY <1>1, <1>2, <2>1 DEF CanClose
    <3>2. queue' \in Seq(Functor) /\ Added(Q, Q', Forcing(connection))
      BY <3>1, <1>1, Names, QueueFacts DEF Forcing
    <3>3. ~gone' /\ todo' \subseteq todo /\ TableInv(Q) /\ DestroyInv(Q)
      BY <1>1 DEF Parts
    <3>4. QED  BY <3>1, <3>2, <3>3, <1>1, ForcedFacts
  <2>2. CASE ~CanClose(connection)
    <3>1. tcp' = tcp /\ queue' = queue /\ Q' = Q
      BY <1>1, <2>2 DEF Q
    <3>2. /\ tcp' \in [Ids -> {"none", "connected", "disconnecting", "disconnected", "closed"}]
          /\ queue' \in Seq(Functor)
      BY <3>1 DEF Types, TypeOK
    <3>3. TableInv(Q)' /\ DestroyInv(Q)'
      BY <3>1, <1>1 DEF Parts, TableInv, DestroyInv
    <3>4. QED  BY <3>1, <3>2, <3>3
  <2>3. QED  BY <2>1, <2>2
<1>5. Types' /\ NoFault'
  BY <1>1, <1>3, <1>4 DEF Types, TypeOK, NoFault
<1>6. /\ \A j \in Ids : In(Q', KcpClosing(j)) <=> In(Q, KcpClosing(j))
      /\ In(Q', Starting) <=> In(Q, Starting)
      /\ NotAhead(Q', Starting, Starting) <=> NotAhead(Q, Starting, Starting)
      /\ In(Q', Resetting) <=> In(Q, Resetting)
      /\ NotAhead(Q', Resetting, Resetting) <=> NotAhead(Q, Resetting, Resetting)
  BY <1>4, Names DEF KcpClosing, Forcing, Starting, Resetting
<1>7. AttemptInv(Q)' /\ OneInv(batch)'
  BY <1>1, <1>6 DEF Parts, AttemptInv, OneInv, Tries
<1>8. ResetInv(Q, batch)'
  BY <1>1, <1>4 DEF Parts, ResetInv
<1>9. FirstInv(Q)'
  <2>1. starts = 0 => \A j \in Ids : ~In(Q', Forcing(j))
    BY <1>1, <1>4 DEF Parts, FirstInv, Fresh
  <2>2. QED  BY <2>1, <1>1, <1>6 DEF Parts, FirstInv, Fresh, Tries
<1>10. KcpInv(Q)' /\ StopInv' /\ ForcedInv(Q)'
  BY <1>1, <1>2, <1>3 DEF Parts, KcpInv, StopInv, ForcedInv
<1>11. OtherInv(Q, batch)'
  BY <1>1, <1>6 DEF Parts, OtherInv, Harmless, Finished, Tries
<1>12. QED  BY <1>4, <1>5, <1>7, <1>8, <1>9, <1>10, <1>11 DEF Keeps, Parts

\* A user closes the KCP connection.
LEMMA CloseKcpKeeps ==
  ASSUME Types, fault = "none", Parts(Q, batch), CloseKcp
  PROVE  Keeps
<1> DEFINE k == kcpConnection
<1>1. /\ userAt = Idle /\ ~gone /\ calls < MaxCalls /\ calls' = calls + 1
      /\ k # None /\ kcp[k] \in {"connected", "connecting"}
      /\ kcp' = [kcp EXCEPT ![k] = "disconnecting"]
      /\ queue' = Append(queue, KcpClosing(k))
      /\ UNCHANGED <<kind, retry, hold, kcpConnection, connection, orphaned, phase, active, todo, batch, raced, fault>>
      /\ UNCHANGED <<wish, connector, tcp, verifying, userAt, starts, gone, stopped>>
  BY DEF CloseKcp, Calls, Unread, KcpClosable, KcpClosing
<1>2. k \in Ids /\ connection = k
  BY <1>1 DEF Types, TypeOK, Parts, TableInv
<1>3. /\ calls' # 0 /\ calls' \in 0..MaxCalls
      /\ kcp \in [Ids -> {"none", "connecting", "connected", "disconnecting", "disconnected"}]
  BY <1>1 DEF Types, TypeOK
<1>4. queue' \in Seq(Functor) /\ Added(Q, Q', KcpClosing(k))
  BY <1>1, <1>2, Names, QueueFacts DEF KcpClosing
<1>5. /\ \A j \in Ids : In(Q', KcpClosing(j)) => In(Q, KcpClosing(j)) \/ j = k
      /\ \A j \in Ids : kcp'[j] = "disconnected" <=> kcp[j] = "disconnected"
  BY <1>1, <1>2, <1>3, <1>4, Names DEF Added, KcpClosing
<1> HIDE DEF k
<1>6. \A e : (\A j \in Ids : e # KcpClosing(j)) =>
        /\ In(Q', e) <=> In(Q, e)
        /\ \A f : (\A j \in Ids : f # KcpClosing(j)) => (NotAhead(Q', e, f) <=> NotAhead(Q, e, f))
  BY <1>2, <1>4 DEF Added
<1>7. \A j \in Ids : /\ Starting # KcpClosing(j) /\ Resetting # KcpClosing(j)
                     /\ \A i \in Ids : /\ Forcing(i) # KcpClosing(j) /\ Destroying(i) # KcpClosing(j)
                                       /\ F("setClose", i) # KcpClosing(j) /\ F("kcpSetClose", i) # KcpClosing(j)
  BY Names DEF Starting, Resetting, Forcing, Destroying, KcpClosing
<1>8. Types' /\ NoFault'
  <2>1. kcp' \in [Ids -> {"none", "connecting", "connected", "disconnecting", "disconnected"}]
    BY <1>1, <1>3
  <2>2. QED  BY <2>1, <1>1, <1>3, <1>4 DEF Types, TypeOK, NoFault
<1>9. AttemptInv(Q)' /\ TableInv(Q)'
  BY <1>1, <1>6, <1>7 DEF Parts, AttemptInv, TableInv
<1>10. DestroyInv(Q)' /\ ResetInv(Q, batch)'
  <2>1. DestroyInv(Q)'
    BY <1>1, <1>6, <1>7 DEF Parts, DestroyInv
  <2>2. NotAhead(Q', Forcing(k), Resetting) <=> NotAhead(Q, Forcing(k), Resetting)
    BY <1>2, <1>6, <1>7
  <2>3. QED  BY <2>1, <2>2, <1>1, <1>2 DEF Parts, ResetInv
<1>11. FirstInv(Q)'
  <2>1. starts # 0
    BY <1>2 DEF Parts, FirstInv, Fresh
  <2>2. (In(Q', Starting) <=> In(Q, Starting)) /\ (NotAhead(Q', Starting, Starting) <=> NotAhead(Q, Starting, Starting))
    BY <1>6, <1>7
  <2>3. QED  BY <2>1, <2>2, <1>1 DEF Parts, FirstInv, Fresh, Tries
<1>12. OneInv(batch)' /\ KcpInv(Q)' /\ StopInv'
  BY <1>1, <1>3 DEF Parts, OneInv, Tries, KcpInv, StopInv
<1>13. ForcedInv(Q)'
  BY <1>1, <1>5, <1>6, <1>7 DEF Parts, ForcedInv
<1>14. OtherInv(Q, batch)'
  <2>1. ASSUME Finished, ~In(Q, Starting) PROVE Finished' /\ ~In(Q', Starting)
    BY <2>1, <1>1, <1>6, <1>7 DEF Finished, Tries
  <2>2. QED  BY <2>1, <1>1, <1>2, <1>5 DEF Parts, OtherInv, Harmless
<1>15. QED  BY <1>8, <1>9, <1>10, <1>11, <1>12, <1>13, <1>14 DEF Keeps, Parts

\* A user destroys the client, up to what the destructor queues.
LEMMA DestroyKeeps ==
  ASSUME Types, fault = "none", Parts(Q, batch), Destroy
  PROVE  Keeps
<1>1. /\ userAt = Idle /\ ~gone /\ calls < MaxCalls /\ calls' = calls + 1
      /\ userAt'.call \in {"destroy", "destroyShared"} /\ userAt'.id = connection
      /\ userAt' = [call |-> userAt'.call, id |-> connection]
      /\ UNCHANGED <<kind, retry, hold, kcpConnection, connection, orphaned, phase, active, todo, batch, raced, fault>>
      /\ UNCHANGED <<wish, connector, tcp, kcp, verifying, queue, starts, gone, stopped>>
  BY DEF Destroy, Calls, Unread
<1>2. Q' = Q
  BY <1>1 DEF Q
<1>3. calls' # 0 /\ calls' \in 0..MaxCalls
  BY <1>1 DEF Types, TypeOK
<1>4. Types' /\ NoFault'
  <2>1. userAt' \in Calling
    BY <1>1 DEF Calling, Types, TypeOK
  <2>2. QED  BY <2>1, <1>1, <1>3 DEF Types, TypeOK, NoFault
<1>5. AttemptInv(Q)' /\ TableInv(Q)' /\ DestroyInv(Q)'
  BY <1>1, <1>2 DEF Parts, AttemptInv, TableInv, DestroyInv
<1>6. ResetInv(Q, batch)' /\ FirstInv(Q)' /\ OneInv(batch)'
  BY <1>1, <1>2 DEF Parts, ResetInv, FirstInv, OneInv, Tries, Fresh
<1>7. KcpInv(Q)' /\ StopInv'
  BY <1>1, <1>3 DEF Parts, KcpInv, StopInv
<1>8. ForcedInv(Q)'
  BY <1>1, <1>2 DEF Parts, ForcedInv
<1>9. OtherInv(Q, batch)'
  BY <1>1, <1>2 DEF Parts, OtherInv, Harmless, Finished, Tries
<1>10. QED  BY <1>4, <1>5, <1>6, <1>7, <1>8, <1>9 DEF Keeps, Parts

\* What the destructor queues.
FromDestructor == {F(o, i) : o \in {"setClose", "forceClose", "kcpSetClose"}, i \in Ids} \cup {Stopping}

Grown(s, t) ==
  \A e : e \notin FromDestructor => (In(t, e) <=> In(s, e)) /\ (NotAhead(s, e, e) => NotAhead(t, e, e))

\* What is queued of these alone changes nothing else that waits.
LEMMA ConcatGrows ==
  ASSUME NEW s \in Seq(Functor), NEW u \in Seq(Functor), \A e : In(u, e) => e \in FromDestructor
  PROVE  s \o u \in Seq(Functor) /\ Grown(s, s \o u)
<1>1. s \o u \in Seq(Functor)
  BY ConcatProperties
<1>2. \A e : In(s \o u, e) <=> In(s, e) \/ In(u, e)
  BY InConcat
<1>3. \A e : NotAhead(s \o u, e, e) <=> NotAhead(s, e, e) /\ NotAhead(u, e, e) /\ ~(In(s, e) /\ In(u, e))
  BY NotAheadConcat
<1>4. \A e : ~In(u, e) => NotAhead(u, e, e)
  BY DEF NotAhead, In
<1>5. QED  BY <1>1, <1>2, <1>3, <1>4 DEF Grown

\* Three parts of what waits may be put together in either order.
LEMMA FunctorsAssociate ==
  \A s, t, u \in Seq(Functor) : s \o (t \o u) = (s \o t) \o u
BY ConcatAssociative, SMTT(30)

\* What the destructor queues is of that kind.
LEMMA EndDestroyQueue ==
  ASSUME Types, EndDestroy
  PROVE  queue' \in Seq(Functor) /\ Grown(Q, Q')
<1> DEFINE c == userAt.id
           k == IF kcpConnection # None THEN <<F("kcpSetClose", kcpConnection)>> ELSE <<>>
<1>1. /\ userAt \in Calling /\ queue \in Seq(Functor) /\ batch \in Seq(Functor)
      /\ c \in Ids \cup {None} /\ kcpConnection \in Ids \cup {None}
  BY DEF Types, TypeOK, Calling
<1>2. \E a \in {<<F("setClose", c), F("forceClose", c)>>, <<F("setClose", c)>>, <<Stopping>>} :
        /\ queue' = (queue \o a) \o k
        /\ a # <<Stopping>> => c # None
  BY DEF EndDestroy, Stopping
<1>3. batch' = batch
  BY DEF EndDestroy
<1>4. k \in Seq(Functor) /\ \A e : In(k, e) => e \in FromDestructor
  <2>1. CASE kcpConnection # None
    <3>1. F("kcpSetClose", kcpConnection) \in Functor \cap FromDestructor
      BY <1>1, <2>1, Names DEF FromDestructor
    <3>2. k = <<F("kcpSetClose", kcpConnection)>>
      BY <2>1
    <3> HIDE DEF k
    <3>3. QED  BY <3>1, <3>2 DEF In
  <2>2. CASE kcpConnection = None
    BY <2>2, NothingIn
  <2>3. QED  BY <2>1, <2>2
<1> HIDE DEF k
<1>5. ASSUME NEW a \in {<<F("setClose", c), F("forceClose", c)>>, <<F("setClose", c)>>, <<Stopping>>},
             a # <<Stopping>> => c # None
      PROVE  a \in Seq(Functor) /\ \A e : In(a, e) => e \in FromDestructor
  <2>1. Stopping \in Functor \cap FromDestructor
    BY Names DEF FromDestructor
  <2>2. c # None => F("setClose", c) \in Functor \cap FromDestructor /\ F("forceClose", c) \in Functor \cap FromDestructor
    BY <1>1, Names DEF FromDestructor
  <2>3. CASE a = <<Stopping>>
    BY <2>1, <2>3 DEF In
  <2>4. CASE a = <<F("setClose", c)>> /\ c # None
    BY <2>2, <2>4 DEF In
  <2>5. CASE a = <<F("setClose", c), F("forceClose", c)>> /\ c # None
    BY <2>2, <2>5 DEF In
  <2>6. QED  BY <2>3, <2>4, <2>5, <1>5
<1>6. PICK a \in Seq(Functor) : queue' = (queue \o a) \o k /\ \A e : In(a, e) => e \in FromDestructor
  BY <1>2, <1>5
<1>7. queue \o a \in Seq(Functor) /\ Q \in Seq(Functor) /\ Q \o a \in Seq(Functor) /\ queue' \in Seq(Functor)
  BY <1>1, <1>4, <1>6, ConcatProperties DEF Q
<1>8. Q' = (Q \o a) \o k
  <2>1. batch \in Seq(Functor) /\ queue \in Seq(Functor) /\ a \in Seq(Functor) /\ k \in Seq(Functor)
    BY <1>1, <1>4, <1>6
  <2>2. batch \o ((queue \o a) \o k) = (batch \o (queue \o a)) \o k
    <3>1. queue \o a \in Seq(Functor)
      BY <1>7
    <3> QED  BY <2>1, <3>1, FunctorsAssociate
  <2>3. batch \o (queue \o a) = (batch \o queue) \o a
    BY <2>1, FunctorsAssociate
  <2> QED  BY <2>2, <2>3, <1>3, <1>6 DEF Q
<1>9. Grown(Q, Q \o a)
  BY <1>6, <1>7, ConcatGrows
<1> DEFINE r == Q \o a
<1>10. Grown(r, r \o k)
  <2>1. r \in Seq(Functor)
    BY <1>7
  <2> HIDE DEF r
  <2>2. QED  BY <2>1, <1>4, ConcatGrows
<1>11. QED  BY <1>7, <1>8, <1>9, <1>10 DEF Grown

\* The destructor has queued all and is over.
LEMMA EndDestroyKeeps ==
  ASSUME Types, fault = "none", Parts(Q, batch), EndDestroy
  PROVE  Keeps
<1>1. /\ userAt' = Idle /\ gone' = TRUE /\ connection' = None /\ kcpConnection' = None
      /\ connector' = connector \/ connector' = [connector EXCEPT !.connect = FALSE]
      /\ fault' \in {"none", "connector"}
      /\ tcp' = tcp \/ (userAt.id # None /\ tcp' = [tcp EXCEPT ![userAt.id] = "disconnecting"])
      /\ UNCHANGED <<kind, retry, wish, orphaned, kcp, verifying, phase, active, todo, batch, starts, calls, raced>>
  BY DEF EndDestroy
<1>2. queue' \in Seq(Functor) /\ Grown(Q, Q')
  BY EndDestroyQueue
<1>3. connector \in ConnectorType
  BY DEF Types, TypeOK
<1>4. /\ connector' \in ConnectorType /\ connector'.state = connector.state
      /\ connector'.channel = connector.channel /\ connector'.armed = connector.armed
      /\ connector'.due = connector.due /\ connector'.failed = connector.failed
  BY <1>1, <1>3, AssignFacts
<1>5. userAt'.call = "none" /\ userAt' \in Calling
  BY <1>1 DEF Idle, Calling
<1>6. Types' /\ NoFault'
  <2>1. tcp' \in [Ids -> {"none", "connected", "disconnecting", "disconnected", "closed"}]
    BY <1>1 DEF Types, TypeOK
  <2>2. QED  BY <2>1, <1>1, <1>2, <1>4, <1>5 DEF Types, TypeOK, NoFault
<1>7. Starting \notin FromDestructor /\ Resetting \notin FromDestructor /\ \A j \in Ids : KcpClosing(j) \notin FromDestructor
  BY Names DEF FromDestructor, Starting, Stopping, Resetting, KcpClosing
<1>8. /\ In(Q', Starting) <=> In(Q, Starting)
      /\ NotAhead(Q, Starting, Starting) => NotAhead(Q', Starting, Starting)
      /\ In(Q', Resetting) <=> In(Q, Resetting)
      /\ NotAhead(Q, Resetting, Resetting) => NotAhead(Q', Resetting, Resetting)
      /\ \A j \in Ids : In(Q', KcpClosing(j)) <=> In(Q, KcpClosing(j))
  BY <1>2, <1>7 DEF Grown
<1>9. AttemptInv(Q)'
  BY <1>1, <1>4, <1>8 DEF Parts, AttemptInv
<1>10. TableInv(Q)' /\ DestroyInv(Q)' /\ ResetInv(Q, batch)' /\ ForcedInv(Q)' /\ OtherInv(Q, batch)'
  BY <1>1 DEF TableInv, DestroyInv, ResetInv, ForcedInv, OtherInv
<1>11. Tries' = Tries /\ (Fresh => Fresh')
  BY <1>1, <1>4 DEF Tries, Fresh
<1>12. FirstInv(Q)' /\ OneInv(batch)'
  BY <1>1, <1>4, <1>5, <1>8, <1>11 DEF Parts, FirstInv, OneInv
<1>13. KcpInv(Q)' /\ StopInv'
  BY <1>1, <1>8 DEF Parts, KcpInv, StopInv
<1>14. QED  BY <1>6, <1>9, <1>10, <1>12, <1>13 DEF Keeps, Parts

------------------------------------------------------------------------------
(* The theorems.                                                              *)

\* The invariant holds at first.
LEMMA InitInv == Init => IInv
<1> SUFFICES ASSUME Init PROVE IInv
  OBVIOUS
<1>1. /\ connector = NewConnector /\ fault = "none" /\ batch = <<>> /\ queue = <<>>
      /\ connection = None /\ kcpConnection = None /\ gone = FALSE /\ orphaned = {} /\ todo = {}
      /\ active = {} /\ verifying = {} /\ phase = "timers" /\ userAt = Idle /\ wish = TRUE
      /\ starts = 0 /\ calls = 0 /\ stopped = FALSE
      /\ tcp = [i \in Ids |-> "none"] /\ kcp = [i \in Ids |-> "none"]
  BY DEF Init
<1>2. Q = <<>> /\ \A e, f : ~In(Q, e) /\ NotAhead(Q, e, f)
  <2>1. Q = <<>>
    <3>1. <<>> \in Seq(Functor) /\ Q = <<>> \o <<>>
      BY <1>1 DEF Q
    <3>2. QED  BY <3>1, ConcatEmptySeq
  <2>2. QED  BY <2>1, NothingIn
<1>3. /\ connector \in ConnectorType /\ connector.state = "disconnected" /\ connector.channel = "none"
      /\ connector.armed = 0 /\ connector.due = 0 /\ connector.failed = "none"
  <2>1. InitDelay \in InitDelay..MaxDelay
    OBVIOUS
  <2>2. QED  BY <2>1, <1>1 DEF NewConnector, ConnectorType
<1>4. userAt.call = "none" /\ userAt \in Calling
  BY <1>1 DEF Idle, Calling
<1>5. NoFault
  BY <1>1 DEF NoFault
<1>6. Types
  <2>1. tcp \in [Ids -> {"none", "connected", "disconnecting", "disconnected", "closed"}]
    BY <1>1
  <2>2. kcp \in [Ids -> {"none", "connecting", "connected", "disconnecting", "disconnected"}]
    BY <1>1
  <2>3. queue \in Seq(Functor) /\ batch \in Seq(Functor)
    BY <1>1
  <2>4. starts \in 0..MaxStarts /\ calls \in 0..MaxCalls
    BY <1>1
  <2>5. /\ connection \in Ids \cup {None} /\ kcpConnection \in Ids \cup {None}
        /\ verifying \subseteq Ids /\ orphaned \subseteq {"tcp", "kcp"} \X Ids
        /\ todo \subseteq active /\ active \subseteq Channels
        /\ gone \in BOOLEAN /\ wish \in BOOLEAN
    BY <1>1
  <2>6. TypeOK
    BY <1>1, <1>3, <2>1, <2>2, <2>4, <2>5 DEF TypeOK
  <2>7. QED  BY <1>4, <2>3, <2>5, <2>6 DEF Types
<1>7. Tries = 0
  BY <1>3 DEF Tries
<1>8. AttemptInv(Q) /\ TableInv(Q) /\ DestroyInv(Q) /\ ResetInv(Q, batch)
  BY <1>1, <1>2, <1>3 DEF AttemptInv, TableInv, DestroyInv, ResetInv
<1>9. FirstInv(Q) /\ OneInv(batch) /\ KcpInv(Q)
  BY <1>1, <1>2, <1>3, <1>4, <1>7 DEF FirstInv, Fresh, OneInv, KcpInv
<1>10. ForcedInv(Q) /\ OtherInv(Q, batch) /\ StopInv
  BY <1>1, <1>2 DEF ForcedInv, OtherInv, StopInv
<1>11. QED  BY <1>5, <1>6, <1>8, <1>9, <1>10 DEF IInv, Parts

\* Every step keeps it.
LEMMA NextInv == IInv /\ Next => IInv'
<1> SUFFICES ASSUME IInv, Next PROVE IInv'
  OBVIOUS
<1>1. fault = "none" /\ NoFault /\ Types /\ Parts(Q, batch)
  BY DEF IInv, Next
<1> SUFFICES Keeps
  BY DEF Keeps, IInv
<1>2. CASE RetryTimer
  BY <1>1, <1>2, RetryTimerKeeps
<1>3. CASE HoldTimer
  BY <1>1, <1>3, HoldTimerKeeps
<1>4. CASE Poll
  BY <1>1, <1>4, PollKeeps
<1>5. CASE AttemptFails
  BY <1>1, <1>5, AttemptFailsKeeps
<1>6. CASE AttemptSucceeds
  BY <1>1, <1>6, AttemptSucceedsKeeps
<1>7. CASE \E i \in Ids : TcpEnds(i)
  BY <1>1, <1>7, TcpEndsKeeps
<1>8. CASE \E i \in Ids : HandleTcpMessage(i)
  BY <1>1, <1>8, HandleTcpMessageKeeps
<1>9. CASE \E i \in Ids : HandleUdpMessage(i)
  BY <1>1, <1>9, HandleUdpMessageKeeps
<1>10. CASE Swap
  BY <1>1, <1>10, SwapKeeps
<1>11. CASE RunFunctor
  BY <1>1, <1>11, RunFunctorKeeps
<1>12. CASE NextTurn
  BY <1>1, <1>12, NextTurnKeeps
<1>13. CASE CallConnect
  BY <1>1, <1>13, CallConnectKeeps
<1>14. CASE CallStop
  BY <1>1, <1>14, CallStopKeeps
<1>15. CASE EndCall
  BY <1>1, <1>15, EndCallKeeps
<1>16. CASE Disconnect
  BY <1>1, <1>16, DisconnectKeeps
<1>17. CASE CloseKcp
  BY <1>1, <1>17, CloseKcpKeeps
<1>18. CASE Destroy
  BY <1>1, <1>18, DestroyKeeps
<1>19. CASE EndDestroy
  BY <1>1, <1>19, EndDestroyKeeps
<1>20. QED
  BY <1>2, <1>3, <1>4, <1>5, <1>6, <1>7, <1>8, <1>9, <1>10, <1>11, <1>12, <1>13, <1>14, <1>15,
     <1>16, <1>17, <1>18, <1>19
  DEF Next, Timers, Events, Functors, Users

\* So does a step in which nothing changes.
LEMMA StutterInv == IInv /\ UNCHANGED vars => IInv'
<1> SUFFICES ASSUME IInv, UNCHANGED vars PROVE IInv'
  OBVIOUS
<1>1. /\ UNCHANGED <<kind, retry, wish, connector, hold, connection, tcp, orphaned, kcpConnection, kcp, verifying>>
      /\ UNCHANGED <<phase, active, todo, queue, batch, userAt, starts, calls, gone, stopped, raced, fault>>
  BY DEF vars, tcpVars, kcpVars, loopVars, userVars
<1>2. Q' = Q /\ NoFault' /\ Types'
  BY <1>1 DEF IInv, Q, NoFault, Types, TypeOK
<1>3. ASSUME fault = "none" PROVE Parts(Q, batch)'
  <2>1. Parts(Q, batch)
    BY <1>3 DEF IInv
  <2>2. AttemptInv(Q)' /\ TableInv(Q)' /\ DestroyInv(Q)'
    BY <1>1, <1>2, <2>1 DEF Parts, AttemptInv, TableInv, DestroyInv
  <2>3. ResetInv(Q, batch)' /\ FirstInv(Q)' /\ OneInv(batch)'
    BY <1>1, <1>2, <2>1 DEF Parts, ResetInv, FirstInv, OneInv, Tries, Fresh
  <2>4. KcpInv(Q)' /\ ForcedInv(Q)' /\ StopInv'
    BY <1>1, <1>2, <2>1 DEF Parts, KcpInv, ForcedInv, StopInv
  <2>5. OtherInv(Q, batch)'
    BY <1>1, <1>2, <2>1 DEF Parts, OtherInv, Harmless, Finished, Tries
  <2>6. QED  BY <2>2, <2>3, <2>4, <2>5 DEF Parts
<1>4. QED  BY <1>1, <1>2, <1>3 DEF IInv

\* So it holds always.
LEMMA Invariance == Spec => []IInv
<1>1. IInv /\ [Next]_vars => IInv'
  BY NextInv, StutterInv
<1>2. QED  BY InitInv, <1>1, PTL DEF Spec

\* What a client does keeps its types, and each thing that can go wrong has the cause
\* that is named: a second connect() for an assertion of the connector and for an older
\* KCP connection that closes a newer TCP connection, the destructor for an object
\* that is used after its end, a user's close for the KCP channel that is destroyed
\* while it is active.  removeConnection never meets another connection.
THEOREM ClientSound == Spec => []Sound
<1>1. IInv => Sound
  BY DEF IInv, Types, Sound
<1>2. QED  BY Invariance, <1>1, PTL

\* The channel of an attempt, the functor that resets it and the state of the connector
\* agree, and with one connect() there is at most one of: an attempt, a retry, a start
\* that waits, a connection.
THEOREM OneAttemptAtATime == Spec => []OneAttempt
<1>1. IInv => OneAttempt
  <2> SUFFICES ASSUME IInv, fault = "none" PROVE OneAttempt
    BY DEF OneAttempt
  <2>1. Types /\ Parts(Q, batch)
    BY DEF IInv
  <2>2. /\ connector.state = "connecting" <=> connector.channel = "live"
        /\ connector.channel = "removed" <=> In(Q, Resetting)
    BY <2>1 DEF Parts, AttemptInv
  <2>3. /\ Queued({"reset"}, None) <=> In(Q, Resetting)
        /\ Queued({"start"}, None) <=> In(Q, Starting)
    BY <2>1, QueuedFacts DEF Resetting, Starting
  <2>4. /\ connector.armed \in Nat /\ connector.due \in Nat /\ starts \in 0..MaxStarts
        /\ connector.channel = "live" => connector.state # "connected"
    BY <2>1, <2>2 DEF Types, TypeOK, ConnectorType
  <2> DEFINE count(b) == IF b THEN 1 ELSE 0
             live == connector.channel = "live"
             there == connection # None
             starting == Queued({"start"}, None)
  <2>5. ASSUME starts <= 1
        PROVE  count(live) + connector.armed + connector.due + count(starting) + count(there) <= 1
    <3>1. live \/ there => connector.armed + connector.due = 0
      BY <2>1, <2>5 DEF Parts, OneInv, Tries
    <3>2. connector.armed + connector.due <= 1
      BY <2>1, <2>5 DEF Parts, OneInv, Tries
    <3>3. ~(live /\ there)
      BY <2>1, <2>4 DEF Parts, TableInv
    <3>4. starting => ~live /\ ~there /\ connector.armed + connector.due = 0
      <4>1. starting => starts = 1
        BY <2>1, <2>3, <2>4, <2>5 DEF Parts, FirstInv
      <4>2. QED  BY <4>1, <2>1, <2>3 DEF Parts, FirstInv, Fresh, Tries
    <3> HIDE DEF live, there, starting
    <3>5. QED  BY <3>1, <3>2, <3>3, <3>4, <2>4
  <2>6. /\ (connector.state = "connecting") = (connector.channel = "live")
        /\ (connector.channel = "removed") = Queued({"reset"}, None)
    BY <2>2, <2>3 DEF Queued
  <2>7. QED  BY <2>5, <2>6 DEF OneAttempt
<1>2. QED  BY Invariance, <1>1, PTL

\* After stop() no connection is made, unless a restart has undone what stop() assigned.
THEOREM StopAlwaysHolds == Spec => StopHolds
<1>1. ASSUME IInv, [Next]_vars, stopped, stopped', ~raced'
      PROVE  connection' \in {connection, None}
  <2>1. CASE UNCHANGED vars
    BY <2>1 DEF vars, tcpVars
  <2>2. CASE Next
    <3>1. StopInv
      BY <1>1, <2>2 DEF IInv, Next, Parts
    <3>2. CASE AttemptSucceeds
      <4>1. raced' = raced
        BY <3>2 DEF AttemptSucceeds
      <4>2. ~(connector.connect /\ ~gone)
        BY <4>1, <3>1, <1>1 DEF StopInv
      <4>3. QED  BY <4>2, <3>2 DEF AttemptSucceeds, tcpVars
    <3>3. CASE Timers \/ Poll \/ AttemptFails
      BY <3>3 DEF Timers, RetryTimer, HoldTimer, Poll, AttemptFails, tcpVars
    <3>4. CASE \E i \in Ids : TcpEnds(i) \/ HandleTcpMessage(i) \/ HandleUdpMessage(i)
      BY <3>4 DEF TcpEnds, HandleClose, RemoveConnection, RemoveTcpConnection, HandleTcpMessage,
                  HandleUdpMessage, tcpVars
    <3>5. CASE Swap \/ NextTurn
      BY <3>5 DEF Swap, NextTurn, tcpVars
    <3>6. CASE RunFunctor
      BY <3>6 DEF RunFunctor, RunConnector, HandleClose, RemoveConnection, RemoveTcpConnection, tcpVars
    <3>7. CASE Users
      BY <3>7 DEF Users, CallConnect, CallStop, EndCall, Disconnect, CloseKcp, Destroy, EndDestroy, Unread
    <3>8. QED
      BY <3>2, <3>3, <3>4, <3>5, <3>6, <3>7, <2>2 DEF Next, Events, Functors
  <2>3. QED  BY <2>1, <2>2, <1>1
<1>2. IInv /\ [Next]_vars => [stopped /\ stopped' /\ ~raced' => connection' \in {connection, None}]_vars
  BY <1>1
<1>3. QED  BY Invariance, <1>2, PTL DEF Spec, StopHolds
=============================================================================

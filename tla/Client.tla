------------------------------- MODULE Client --------------------------------
(***************************************************************************)
(* TcpClient and KcpWithTcpClient: the connector, the connection it makes, *)
(* which may be made again when it ends, and the KCP connection that goes  *)
(* with it.  A user's thread starts, stops, disconnects and destroys the   *)
(* client while the loop's thread runs timers, then events, then functors. *)
(*                                                                         *)
(* The run ends at an assertion that fails and at the use of an object     *)
(* that is gone.  What KCP does with data is in Kcp and KcpServer; a test  *)
(* of m_state and the assignment after it are one step here, and two in    *)
(* TcpServer and KcpServer.                                                *)
(***************************************************************************)
EXTENDS Connector, FiniteSets, Sequences, SequencesExt

CONSTANTS
  Kinds,      \* "tcp": TcpClient, "kcp": KcpWithTcpClient
  Ids,        \* bound: connections there are at one time
  None,       \* the value of "no connection"
  MaxStarts,  \* bound: calls of connect()
  MaxCalls    \* bound: other calls of users

ASSUME ClientAssumption ==
  /\ Kinds \subseteq {"tcp", "kcp"} /\ Kinds # {}
  /\ Ids # {} /\ IsFiniteSet(Ids)
  /\ None \notin Ids
  /\ MaxStarts \in Nat /\ MaxCalls \in Nat

VARIABLES
  kind,        \* the class of the client
  retry,       \* m_retry
  wish,        \* m_connect of the client
  connector,   \* m_connector
  hold,        \* the timer of removeConnector, which keeps the connector, runs
  connection,  \* m_connection
  tcp,         \* m_state of the TcpConnections, "none" before, "closed" after
  kcpConnection, \* m_kcpConnection
  kcp,         \* m_state of the KcpConnection that belongs to a TcpConnection
  verifying,   \* those whose verify timer runs
  orphaned,    \* those whose close callback does not go to the client any more
  phase,       \* of the loop: "timers", "events", "functors"
  active,      \* m_activeChannels
  todo,        \* those of them that are still to be handled
  queue,       \* m_pendingFunctors
  batch,       \* what doPendingFunctors has swapped out
  userAt,      \* the call a user's thread is in
  starts, calls,   \* calls so far
  gone,        \* the client has been destroyed
  raced,       \* history: restart() has undone what stop() had assigned
  stopped,     \* history: the last call but disconnect() was stop()
  fault        \* what ended the run

loopVars == <<phase, active, todo, queue, batch>>
tcpVars == <<connection, tcp, orphaned>>
kcpVars == <<kcpConnection, kcp, verifying>>
userVars == <<userAt, starts, calls, gone, stopped>>
vars == <<kind, retry, wish, connector, hold, tcpVars, kcpVars, loopVars, userVars, raced, fault>>

F(op, id) == [op |-> op, id |-> id]
Channels == {"connector", "tcp", "udp"} \X (Ids \cup {None})
Idle == [call |-> "none", id |-> None]

Init ==
  /\ kind \in Kinds
  /\ retry \in BOOLEAN
  /\ wish = TRUE
  /\ connector = NewConnector
  /\ hold = FALSE
  /\ connection = None
  /\ tcp = [i \in Ids |-> "none"]
  /\ kcpConnection = None
  /\ kcp = [i \in Ids |-> "none"]
  /\ verifying = {} /\ orphaned = {}
  /\ phase = "timers"
  /\ active = {} /\ todo = {}
  /\ queue = <<>> /\ batch = <<>>
  /\ userAt = Idle
  /\ starts = 0 /\ calls = 0
  /\ gone = FALSE
  /\ raced = FALSE /\ stopped = FALSE
  /\ fault = "none"

Queued(ops, id) == \E i \in DOMAIN (batch \o queue) : (batch \o queue)[i].id = id /\ (batch \o queue)[i].op \in ops

\* Somebody has a pointer to the object.
TcpHeld(i) == connection = i \/ Queued({"forceClose", "setClose", "destroyed"}, i)
KcpHeld(i) == kcpConnection = i \/ Queued({"kcpClose", "kcpSetClose"}, i)
ConnectorHeld == ~gone \/ hold \/ connector.armed + connector.due > 0

\* Both connections of i are history.
Free == {i \in Ids : tcp[i] \in {"none", "closed"} /\ ~KcpHeld(i)}

\* The first of the failures of a handler.
FaultIs(f, c) == fault' = IF f # "none" THEN f ELSE c.failed

------------------------------------------------------------------------------
(* What the handlers are made of.  q is the queue as they find it.            *)

\* forceClose() of a TcpConnection.
CanClose(i) == i # None /\ tcp[i] \in {"connected", "disconnecting"}

\* newConnection, newTcpConnection: of the client, if that is still there.
NewConnection(i) ==
  /\ connection' = i
  /\ tcp' = [tcp EXCEPT ![i] = "connected"]
  /\ kcp' = [kcp EXCEPT ![i] = "none"]
  /\ orphaned' = orphaned \ ({"tcp", "kcp"} \X {i})

\* What the handler sees of m_connect: a call of stop() may change it after that.
Seen == {wish} \cup (IF userAt.call = "stop" THEN {TRUE} ELSE {})

\* mutant: stop() is not looked at.
ReconnectAlways(q) ==
  /\ queue' = q
  /\ IF retry THEN connector' \in Restart(connector) ELSE UNCHANGED connector
  /\ UNCHANGED raced

\* removeConnection's last lines.
Reconnect(q) ==
  /\ queue' = q
  /\ \E w \in Seen :
       IF retry /\ w
       THEN /\ connector' \in Restart(connector)
            /\ raced' = (raced \/ ~wish)
       ELSE UNCHANGED <<connector, raced>>

\* TcpClient::removeConnection.
RemoveConnection(i, q) ==
  /\ connection' = None
  /\ Reconnect(Append(q, F("destroyed", i)))
  /\ FaultIs(IF connection # i THEN "connection" ELSE "none", connector')
  /\ UNCHANGED kcpVars

\* KcpConnection::forceClose().
KcpClosable(i) == kcp[i] \in {"connected", "connecting"}

\* mutant: the KCP connection is only let go.
RemoveTcpConnectionOnly(i, q) ==
  /\ connection' = None
  /\ kcpConnection' = None
  /\ Reconnect(Append(q, F("destroyed", i)))
  /\ FaultIs(IF connection # i THEN "connection" ELSE "none", connector')
  /\ UNCHANGED <<kcp, verifying>>

\* KcpWithTcpClient::removeTcpConnection.  To let a closed KCP connection go
\* destroys it, with its channel, which may be active in this turn.
RemoveTcpConnection(i, q) ==
  LET k == kcpConnection
      close == k # None /\ KcpClosable(k)
      q1 == IF close THEN Append(q, F("kcpClose", k)) ELSE q
  IN /\ connection' = None
     /\ kcpConnection' = None
     /\ kcp' = IF close THEN [kcp EXCEPT ![k] = "disconnecting"] ELSE kcp
     /\ Reconnect(Append(q1, F("destroyed", i)))
     /\ FaultIs(CASE connection # i -> "connection"
                  [] k # None /\ kcp[k] = "disconnected" /\ <<"udp", k>> \in active -> "active"
                  [] OTHER -> "none", connector')
     /\ UNCHANGED verifying

\* TcpConnection::handleClose and the close callback.
HandleClose(i, q) ==
  /\ tcp' = [tcp EXCEPT ![i] = "disconnected"]
  /\ \/ /\ <<"tcp", i>> \in orphaned
        /\ queue' = Append(q, F("destroyed", i))
        /\ UNCHANGED <<connection, connector, raced, kcpVars, fault>>
     \/ /\ <<"tcp", i>> \notin orphaned /\ gone
        /\ fault' = "client"
        /\ queue' = q
        /\ UNCHANGED <<connection, connector, raced, kcpVars>>
     \/ /\ <<"tcp", i>> \notin orphaned /\ ~gone /\ kind = "tcp"
        /\ RemoveConnection(i, q)
     \/ /\ <<"tcp", i>> \notin orphaned /\ ~gone /\ kind = "kcp"
        /\ RemoveTcpConnection(i, q)

------------------------------------------------------------------------------
(* Turns of the loop: timers, events, functors.                               *)

InTimers == phase = "timers" /\ UNCHANGED <<phase, active, todo, batch>>

\* A retry timer expires.
RetryTimer ==
  /\ InTimers
  /\ connector.due > 0
  /\ connector' \in Expire(connector)
  /\ fault' = connector'.failed
  /\ UNCHANGED <<kind, retry, wish, hold, tcpVars, kcpVars, queue, userVars, raced>>

\* removeConnector lets the connector go, after a second: what stop() has queued
\* has been run by then.
HoldTimer ==
  /\ InTimers
  /\ hold
  /\ ~Queued({"stop", "reset"}, None)
  /\ hold' = FALSE
  /\ UNCHANGED <<kind, retry, wish, connector, tcpVars, kcpVars, queue, userVars, raced, fault>>

Ready ==
  {x \in Channels :
     \/ x = <<"connector", None>> /\ connector.channel = "live"
     \/ x[1] = "tcp" /\ CanClose(x[2])
     \/ x[1] = "udp" /\ x[2] # None /\ kcp[x[2]] # "none" /\ KcpHeld(x[2])}

Poll ==
  /\ phase = "timers"
  /\ \E S \in SUBSET Ready :
       /\ S # {} \/ queue # <<>> \/ connector.armed > 0
       /\ active' = S /\ todo' = S
  /\ phase' = "events"
  /\ UNCHANGED <<kind, retry, wish, connector, hold, tcpVars, kcpVars, queue, batch, userVars, raced, fault>>

Event(x) == phase = "events" /\ x \in todo /\ todo' = todo \ {x} /\ UNCHANGED <<phase, active, batch>>

\* handleWrite or handleError of an attempt, with its raw pointer.
AttemptFails ==
  /\ Event(<<"connector", None>>)
  /\ connector' = GiveUpAttempt(connector)
  /\ queue' = Append(queue, F("reset", None))
  /\ fault' = IF ConnectorHeld THEN "none" ELSE "connector"
  /\ UNCHANGED <<kind, retry, wish, hold, tcpVars, kcpVars, userVars, raced>>

AttemptSucceeds ==
  /\ Event(<<"connector", None>>)
  /\ Free # {}
  /\ connector' = Connected(connector)
  /\ queue' = Append(queue, F("reset", None))
  /\ IF connector.connect /\ ~gone
     THEN \E i \in {CHOOSE j \in Free : TRUE} : NewConnection(i)
     ELSE UNCHANGED <<tcpVars, kcp>>
  /\ fault' = CASE ~ConnectorHeld -> "connector"
                [] ConnectorHeld /\ connector.connect /\ gone -> "client"
                [] OTHER -> "none"
  /\ UNCHANGED <<kind, retry, wish, hold, kcpConnection, verifying, userVars, raced>>

\* The connection ends: handleRead of the end of the stream.
TcpEnds(i) ==
  /\ Event(<<"tcp", i>>)
  /\ HandleClose(i, queue)
  /\ UNCHANGED <<kind, retry, wish, hold, orphaned, userVars>>

\* handleTcpMessage: the server's one message, with the conv and a secret.
HandleTcpMessage(i) ==
  /\ kind = "kcp"
  /\ Event(<<"tcp", i>>)
  /\ kcp[i] = "none"
  /\ IF gone
     THEN fault' = "client" /\ UNCHANGED kcpVars
     ELSE /\ kcpConnection' = i
          /\ kcp' = [kcp EXCEPT ![i] = "connecting"]
          /\ verifying' = verifying \cup {i}
          /\ UNCHANGED fault
  /\ UNCHANGED <<kind, retry, wish, connector, hold, tcpVars, queue, userVars, raced>>

\* The end of handleUdpMessage.  A handshake that failed leaves the connection
\* as it is: disconnected() only asks for the state.
VerifyAnswered(i, ok) ==
  /\ kcp' = IF ok /\ kcp[i] = "connecting" THEN [kcp EXCEPT ![i] = "connected"] ELSE kcp
  /\ verifying' = verifying \ {i}

\* handleUdpMessage of an answer to the handshake, which is sent again as long
\* as the verify timer runs and may be answered more than once.
HandleUdpMessage(i) ==
  /\ Event(<<"udp", i>>)
  /\ \E ok \in BOOLEAN : VerifyAnswered(i, ok)
  /\ UNCHANGED <<kind, retry, wish, connector, hold, tcpVars, kcpConnection, queue, userVars, raced, fault>>

\* doPendingFunctors.
Swap ==
  /\ phase = "events"
  /\ todo = {}
  /\ phase' = "functors"
  /\ active' = {}
  /\ batch' = queue
  /\ queue' = <<>>
  /\ connector' = Age(connector)
  /\ UNCHANGED <<kind, retry, wish, hold, tcpVars, kcpVars, todo, userVars, raced, fault>>

NextTurn ==
  /\ phase = "functors"
  /\ batch = <<>>
  /\ phase' = "timers"
  /\ UNCHANGED <<kind, retry, wish, connector, hold, tcpVars, kcpVars, active, todo, queue, batch, userVars, raced, fault>>

\* A functor with a raw pointer to the connector.
RunConnector(op) ==
  /\ CASE op = "start" -> connector' \in StartInLoop(connector) /\ UNCHANGED queue
       [] op = "stop" -> IF connector.state = "connecting"
                         THEN /\ connector' = GiveUpAttempt(connector)
                              /\ queue' = Append(queue, F("reset", None))
                         ELSE UNCHANGED <<connector, queue>>
       [] op = "reset" -> connector' = ResetChannel(connector) /\ UNCHANGED queue
  /\ fault' = IF ConnectorHeld THEN connector'.failed ELSE "connector"
  /\ UNCHANGED <<connection, tcp, orphaned, kcpVars, raced>>

\* removeKcpConnection closes the TCP connection there is now; a KCP connection
\* the client has left behind on its end only goes.
RemoveKcpConnection(k) ==
  /\ IF ~gone /\ CanClose(connection)
     THEN /\ tcp' = [tcp EXCEPT ![connection] = "disconnecting"]
          /\ queue' = Append(queue, F("forceClose", connection))
     ELSE UNCHANGED <<tcp, queue>>
  /\ fault' = CASE gone /\ <<"kcp", k>> \notin orphaned -> "client"
                [] ~gone /\ connection \notin {None, k} -> "other"
                [] OTHER -> "none"

HandleKcpClose(k) ==
  /\ kcp' = [kcp EXCEPT ![k] = "disconnected"]
  /\ verifying' = verifying \ {k}
  /\ RemoveKcpConnection(k)

RunFunctor ==
  /\ phase = "functors"
  /\ batch # <<>>
  /\ batch' = Tail(batch)
  /\ LET op == Head(batch).op
         i == Head(batch).id
     IN \/ /\ op \in {"start", "stop", "reset"}
           /\ RunConnector(op)
        \/ /\ op = "forceClose" /\ CanClose(i)
           /\ HandleClose(i, queue)
           /\ UNCHANGED orphaned
        \/ /\ op = "destroyed"
           /\ tcp' = [tcp EXCEPT ![i] = "closed"]
           /\ UNCHANGED <<connector, raced, queue, connection, orphaned, kcpVars, fault>>
        \/ /\ op = "setClose"
           /\ orphaned' = orphaned \cup {<<"tcp", i>>}
           /\ UNCHANGED <<connector, raced, queue, connection, tcp, kcpVars, fault>>
        \/ /\ op = "kcpClose" /\ kcp[i] \in {"connected", "connecting", "disconnecting"}
           /\ HandleKcpClose(i)
           /\ UNCHANGED <<connector, raced, connection, orphaned, kcpConnection>>
        \/ /\ \/ op = "forceClose" /\ ~CanClose(i)
              \/ op = "kcpClose" /\ kcp[i] = "disconnected"
           /\ UNCHANGED <<connector, raced, queue, tcpVars, kcpVars, fault>>
        \/ /\ op = "kcpSetClose"
           /\ orphaned' = orphaned \cup {<<"kcp", i>>}
           /\ fault' = IF kcp[i] # "disconnected" /\ F("kcpClose", i) \notin ToSet(batch \o queue)
                       THEN "kcp" ELSE "none"
           /\ UNCHANGED <<connector, raced, queue, connection, tcp, kcpVars>>
  /\ UNCHANGED <<kind, retry, wish, hold, phase, active, todo, userVars>>

------------------------------------------------------------------------------
(* Calls of a user's thread.                                                  *)

Calls(n) == userAt = Idle /\ ~gone /\ calls < n
Unread == <<kind, retry, hold, kcpConnection, connection, orphaned, phase, active, todo, batch, raced, fault>>

\* connect() and stop() assign, and then queue.
CallConnect ==
  /\ userAt = Idle /\ ~gone /\ starts < MaxStarts
  /\ starts' = starts + 1
  /\ userAt' = [call |-> "connect", id |-> None]
  /\ wish' = TRUE
  /\ connector' = [connector EXCEPT !.connect = TRUE]
  /\ stopped' = FALSE
  /\ UNCHANGED <<Unread, tcp, kcp, verifying, queue, calls, gone>>

CallStop ==
  /\ Calls(MaxCalls)
  /\ calls' = calls + 1
  /\ userAt' = [call |-> IF wish THEN "stop" ELSE "stopAgain", id |-> None]
  /\ wish' = FALSE
  /\ connector' = [connector EXCEPT !.connect = FALSE]
  /\ stopped' = TRUE
  /\ UNCHANGED <<Unread, tcp, kcp, verifying, queue, starts, gone>>

EndCall ==
  /\ userAt.call \in {"connect", "stop", "stopAgain"}
  /\ userAt' = Idle
  /\ queue' = Append(queue, F(IF userAt.call = "connect" THEN "start" ELSE "stop", None))
  /\ UNCHANGED <<Unread, wish, connector, tcp, kcp, verifying, starts, calls, gone, stopped>>

\* disconnect(): nothing happens to an attempt.
Disconnect ==
  /\ Calls(MaxCalls)
  /\ calls' = calls + 1
  /\ wish' = FALSE
  /\ IF CanClose(connection)
     THEN /\ tcp' = [tcp EXCEPT ![connection] = "disconnecting"]
          /\ queue' = Append(queue, F("forceClose", connection))
     ELSE UNCHANGED <<tcp, queue>>
  /\ UNCHANGED <<Unread, connector, kcp, verifying, userAt, starts, gone, stopped>>

\* forceClose() of the KCP connection.
CloseKcp ==
  /\ Calls(MaxCalls)
  /\ kcpConnection # None /\ KcpClosable(kcpConnection)
  /\ calls' = calls + 1
  /\ kcp' = [kcp EXCEPT ![kcpConnection] = "disconnecting"]
  /\ queue' = Append(queue, F("kcpClose", kcpConnection))
  /\ UNCHANGED <<Unread, wish, connector, tcp, verifying, userAt, starts, gone, stopped>>

\* The destructor looks at the connection...
Destroy ==
  /\ Calls(MaxCalls)
  /\ calls' = calls + 1
  /\ userAt' = [call |-> IF TcpHeld(connection) /\ Queued({"forceClose", "setClose", "destroyed"}, connection)
                         THEN "destroyShared" ELSE "destroy", id |-> connection]
  /\ UNCHANGED <<Unread, wish, connector, tcp, kcp, verifying, queue, starts, gone, stopped>>

\* ... and closes it, if nobody else has it, or stops the connector, which the
\* timer of a second keeps.  The KCP connection is let go as it is.
EndDestroy ==
  LET c == userAt.id
      kcpOps == IF kcpConnection # None THEN <<F("kcpSetClose", kcpConnection)>> ELSE <<>>
  IN /\ userAt.call \in {"destroy", "destroyShared"}
     /\ userAt' = Idle
     /\ gone' = TRUE
     /\ connection' = None
     /\ kcpConnection' = None
     /\ IF c # None
        THEN /\ IF userAt.call = "destroy" /\ CanClose(c)
                THEN /\ tcp' = [tcp EXCEPT ![c] = "disconnecting"]
                     /\ queue' = queue \o <<F("setClose", c), F("forceClose", c)>> \o kcpOps
                ELSE /\ queue' = queue \o <<F("setClose", c)>> \o kcpOps
                     /\ UNCHANGED tcp
             /\ fault' = IF connector.channel # "none" /\ ~hold /\ connector.armed + connector.due = 0
                         THEN "connector" ELSE "none"
             /\ UNCHANGED <<connector, hold, stopped>>
        ELSE /\ connector' = [connector EXCEPT !.connect = FALSE]
             /\ queue' = queue \o <<F("stop", None)>> \o kcpOps
             /\ hold' = TRUE
             /\ stopped' = TRUE
             /\ UNCHANGED <<tcp, fault>>
     /\ UNCHANGED <<kind, retry, wish, orphaned, kcp, verifying, phase, active, todo, batch, starts, calls, raced>>

------------------------------------------------------------------------------
Timers == RetryTimer \/ HoldTimer
Events == AttemptFails \/ AttemptSucceeds \/ \E i \in Ids : TcpEnds(i) \/ HandleTcpMessage(i) \/ HandleUdpMessage(i)
Functors == Swap \/ RunFunctor \/ NextTurn
Users == CallConnect \/ CallStop \/ EndCall \/ Disconnect \/ CloseKcp \/ Destroy \/ EndDestroy

Next == fault = "none" /\ (Timers \/ Poll \/ Events \/ Functors \/ Users)

Spec == Init /\ [][Next]_vars

\* The loop goes on, and so does a call that has begun.  A timer that is due and
\* a socket that is ready are come to in some turn, and an attempt that is made
\* again and again comes through in the end: connect() does not fail forever, nor
\* does what comes after it.
Fairness ==
  /\ WF_vars(fault = "none" /\ (Poll \/ Events \/ Functors))
  /\ WF_vars(fault = "none" /\ EndCall)
  /\ SF_vars(fault = "none" /\ RetryTimer /\ connector'.state = "connecting")
  /\ SF_vars(fault = "none" /\ Poll /\ <<"connector", None>> \in active')
  /\ SF_vars(fault = "none" /\ AttemptSucceeds)

FairSpec == Spec /\ Fairness

------------------------------------------------------------------------------
(* Properties.                                                                *)

\* The types of the connector, of the connections and of the loop.
TypeOK ==
  /\ connector \in ConnectorType
  /\ connection \in Ids \cup {None} /\ kcpConnection \in Ids \cup {None}
  /\ tcp \in [Ids -> {"none", "connected", "disconnecting", "disconnected", "closed"}]
  /\ kcp \in [Ids -> {"none", "connecting", "connected", "disconnecting", "disconnected"}]
  /\ verifying \subseteq Ids /\ orphaned \subseteq {"tcp", "kcp"} \X Ids
  /\ phase \in {"timers", "events", "functors"}
  /\ todo \subseteq active /\ active \subseteq Channels /\ (active # {} => phase = "events")
  /\ batch # <<>> => phase = "functors"
  /\ starts \in 0..MaxStarts /\ calls \in 0..MaxCalls

\* What can go wrong has a cause.  The assertions of startInLoop and connecting,
\* and the close of a connection by the end of an older one, need a second
\* connect(); an object that is gone is used only when the destructor has met
\* a connection that was just being made or closed; a channel is destroyed
\* while it is active only when a user has closed KCP.  That removeConnection
\* meets another connection than its own is impossible.
NoFault ==
  /\ fault \in {"start", "channel", "other"} => starts > 1
  /\ fault \in {"client", "connector", "kcp"} => gone
  /\ fault = "active" => calls > 0
  /\ fault # "connection"

\* The state is of its types, and what goes wrong is one of these.
Sound == TypeOK /\ NoFault

\* An attempt has its channel in the poller, a channel that has been removed has
\* the functor that resets it, and with one connect() there is at most one of:
\* an attempt, a retry to come, a start to come, a connection.
OneAttempt ==
  fault = "none" =>
    /\ (connector.state = "connecting") = (connector.channel = "live")
    /\ (connector.channel = "removed") = Queued({"reset"}, None)
    /\ starts <= 1 =>
         LET count(b) == IF b THEN 1 ELSE 0
         IN count(connector.channel = "live") + connector.armed + connector.due
              + count(Queued({"start"}, None)) + count(connection # None) <= 1

\* After stop() no connection is made, unless restart() had read m_connect
\* before stop() assigned it and undid that: then the retries go on.
StopHolds == [][stopped /\ stopped' /\ ~raced' => connection' \in {connection, None}]_vars

\* The TCP and the KCP connection of a client end together.
Over == gone \/ fault # "none"
TcpOver(i) == tcp[i] \in {"disconnected", "closed"}
EndTogether ==
  \A i \in Ids : /\ TcpOver(i) ~> (kcp[i] \in {"none", "disconnected"} \/ Over)
                 /\ (kcp[i] = "disconnected") ~> (TcpOver(i) \/ Over)

\* A client that may retry and is left alone is connected again and again.
Connects ==
  <>[](retry /\ starts = 1 /\ calls = 0 /\ fault = "none" /\ ~connector.refused)
    => []<>(connection # None)
=============================================================================

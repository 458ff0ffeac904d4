----------------------------- MODULE KcpServer -----------------------------
(***************************************************************************)
(* KcpWithTcpServer and one KcpTcpEventLoop: a client connects over TCP,   *)
(* is sent a conversation number (conv) and a secret, shows them in a UDP  *)
(* handshake, and from then on also has a KCP connection over UDP.  Either *)
(* connection takes the other one down with it.                            *)
(*                                                                         *)
(* A conv is the number of an accepted connection.  The I/O loop runs one  *)
(* handler or functor at a time, and so does the base loop; oneLoop is     *)
(* setThreadNum(0), where both are the same loop.  Other threads test and  *)
(* assign a KcpConnection's m_state in two steps.                          *)
(*                                                                         *)
(* A failed assertion is recorded in fault and the program goes on, as the *)
(* Release build does; a Debug run ends there.  Use of a destroyed object  *)
(* ends the run.  What KCP does with its data is left out: only            *)
(* kcpUpdateManual, which every input and output comes down to, is here.   *)
(***************************************************************************)
EXTENDS Integers, FiniteSets, Sequences, SequencesExt

CONSTANTS
  NoConv,     \* the value of "no connection"
  MaxConns,   \* bound: connections accepted
  MaxCalls    \* bound: calls of the user's threads

ASSUME KcpServerAssumption ==
  /\ MaxConns \in Nat \ {0}
  /\ MaxCalls \in Nat
  /\ NoConv \notin 1..MaxConns

Convs == 1..MaxConns

\* A UDP address goes by the first client that has it.
Addrs == Convs

VARIABLES
  oneLoop,         \* the base loop is the I/O loop
  numAccepted,     \* m_nextConnId - 1
  addrOf,          \* the UDP address of each client
  connections,     \* KcpWithTcpServer::m_connections
  tcpConnections, kcpConnections, crypts,   \* keys of the loop's tables
  addrConns,       \* m_addrConns: address -> KCP connection
  current,         \* m_curTcpConn and m_curKcpConn, which keep what they refer to
  tcpState,        \* of each TcpConnection; "removed" after connectDestroyed
  kcpState,        \* m_state of each KcpConnection, "none" before it exists
  updating,        \* m_kcpUpdateTimerId is the id of a running timer
  firstUpdate,     \* the timer of connectEstablished, whose id nobody has, runs
  delayed,         \* the timer of forceCloseWithDelay runs
  baseQueue,       \* convs for which removeConnectionInLoop is queued
  queue,           \* functors of the I/O loop
  userAt,          \* of each connection: the call a user's thread is in
  numCalls,        \* calls of users so far
  ups, downs,      \* history: calls of the KCP connection callback
  overwritten,     \* history: a user's call has assigned m_state after the close
  asked,           \* history: users have called a closing method or send()
  left,            \* history: closed while the timer of connectEstablished ran
  fault            \* assertions the last step failed, or its use of a destroyed object

tables == <<connections, tcpConnections, kcpConnections, crypts, addrConns>>
timers == <<updating, firstUpdate, delayed>>
callbacks == <<ups, downs, left>>
client == <<oneLoop, numAccepted, addrOf>>
users == <<userAt, numCalls, overwritten, asked>>
vars == <<client, tables, current, tcpState, kcpState, timers, baseQueue, queue, users, callbacks,
          fault>>

Created == 1..numAccepted
Functor(op, c) == [op |-> op, conv |-> c]
OpsOfTcp == {"established", "removeTcp", "tcpDestroyed"}
OpsOfKcp == {"kcpDestroyed", "forceClose"}
\* send() from another thread binds `this', not a KcpConnectionPtr.
Ops == OpsOfTcp \cup OpsOfKcp \cup {"send"}

Queued(ops, c) == \E i \in DOMAIN queue : queue[i].conv = c /\ queue[i].op \in ops

\* Somebody has a KcpConnectionPtr.
Alive(c) ==
  \/ c \in kcpConnections
  \/ c = current
  \/ \E a \in Addrs : addrConns[a] = c
  \/ Queued(OpsOfKcp, c)
  \/ userAt[c] # "idle"

\* Somebody has a TcpConnectionPtr; the last one closes the socket.
SocketOpen(c) ==
  \/ c \in connections \cup tcpConnections
  \/ c = current
  \/ Queued(OpsOfTcp, c)
  \/ c \in ToSet(baseQueue)

FaultIf(cond, kind, c) == IF cond THEN {<<kind, c>>} ELSE {}

TypeOK ==
  /\ oneLoop \in BOOLEAN
  /\ numAccepted \in 0..MaxConns
  /\ addrOf \in [Convs -> Addrs]
  /\ \A t \in {connections, tcpConnections, kcpConnections, crypts} : t \subseteq Created
  /\ addrConns \in [Addrs -> Created \cup {NoConv}]
  /\ current \in Created \cup {NoConv}
  /\ \A c \in Convs :
       /\ tcpState[c] \in {"connecting", "connected", "disconnected", "removed"}
       /\ kcpState[c] \in {"none", "connecting", "connected", "delay", "disconnecting",
                           "disconnected"}
       /\ kcpState[c] = "none" => c \notin kcpConnections /\ c # current
       /\ userAt[c] \in {"idle", "forceClose", "delay", "send"}
       /\ ups[c] \in 0..1 /\ downs[c] \in 0..2
  /\ \A t \in {updating, firstUpdate, delayed} : t \subseteq Created
  /\ baseQueue \in Seq(Created)
  /\ queue \in Seq([op : Ops, conv : Created])
  /\ numCalls \in 0..MaxCalls
  /\ overwritten \subseteq asked /\ asked \cup left \subseteq Created

Init ==
  /\ oneLoop \in BOOLEAN
  /\ numAccepted = 0
  /\ addrOf \in {f \in [Convs -> Addrs] : \A c \in Convs : f[c] <= c /\ f[f[c]] = f[c]}
  /\ connections = {} /\ tcpConnections = {} /\ kcpConnections = {} /\ crypts = {}
  /\ addrConns = [a \in Addrs |-> NoConv]
  /\ current = NoConv
  /\ tcpState = [c \in Convs |-> "connecting"]
  /\ kcpState = [c \in Convs |-> "none"]
  /\ updating = {} /\ firstUpdate = {} /\ delayed = {}
  /\ baseQueue = <<>>
  /\ queue = <<>>
  /\ userAt = [c \in Convs |-> "idle"]
  /\ numCalls = 0
  /\ ups = [c \in Convs |-> 0]
  /\ downs = [c \in Convs |-> 0]
  /\ overwritten = {} /\ asked = {} /\ left = {}
  /\ fault = {}

------------------------------------------------------------------------------
(* The TCP connection.                                                        *)

\* TcpConnection::connectEstablished, which calls tcpConnection(): the client
\* is sent its conv and a secret, and enters two of the four tables.
Established(c) ==
  /\ tcpState' = [tcpState EXCEPT ![c] = "connected"]
  /\ tcpConnections' = tcpConnections \cup {c}
  /\ crypts' = crypts \cup {c}
  /\ fault' = FaultIf(c \in tcpConnections \/ c \in kcpConnections, "new", c)
  /\ UNCHANGED <<kcpConnections, addrConns, kcpState, timers, callbacks, baseQueue>>

\* KcpWithTcpServer::newConnection.
NewConnection ==
  LET c == numAccepted + 1
  IN /\ numAccepted < MaxConns
     /\ numAccepted' = c
     /\ connections' = connections \cup {c}
     /\ IF oneLoop
        THEN Established(c) /\ UNCHANGED queue
        ELSE /\ queue' = Append(queue, Functor("established", c))
             /\ fault' = {}
             /\ UNCHANGED <<tcpConnections, kcpConnections, crypts, addrConns, tcpState, kcpState,
                            timers, callbacks, baseQueue>>
     /\ UNCHANGED <<oneLoop, addrOf, current, users>>

\* removeConnectionInLoop: out of m_connections, then on to the I/O loop.
RemoveConnectionInLoop(c, q) ==
  /\ connections' = connections \ {c}
  /\ queue' = Append(q, Functor("removeTcp", c))

\* TcpConnection::handleClose with removeConnection as the close callback.
CloseTcp(c, q) ==
  /\ tcpState' = [tcpState EXCEPT ![c] = "disconnected"]
  /\ IF oneLoop
     THEN RemoveConnectionInLoop(c, q) /\ UNCHANGED baseQueue
     ELSE /\ baseQueue' = Append(baseQueue, c)
          /\ queue' = q
          /\ UNCHANGED connections

\* The client closes its TCP connection, or it breaks.
TcpEnds(c) ==
  /\ c \in Created
  /\ tcpState[c] = "connected"
  /\ CloseTcp(c, queue)
  /\ fault' = FaultIf(oneLoop /\ c \notin connections, "erase", c)
  /\ UNCHANGED <<client, tcpConnections, kcpConnections, crypts, addrConns, current, kcpState,
                 timers, users, callbacks>>

BaseRunsFunctor ==
  /\ baseQueue # <<>>
  /\ baseQueue' = Tail(baseQueue)
  /\ RemoveConnectionInLoop(Head(baseQueue), queue)
  /\ fault' = FaultIf(Head(baseQueue) \notin connections, "erase", Head(baseQueue))
  /\ UNCHANGED <<client, tcpConnections, kcpConnections, crypts, addrConns, current, tcpState,
                 kcpState, timers, users, callbacks>>

------------------------------------------------------------------------------
(* The two removals.                                                          *)

\* assertVessels(), of the tables as the handler leaves them.
VesselsFault(c) ==
  LET n == Cardinality(tcpConnections')
  IN FaultIf(\/ n # Cardinality(kcpConnections')
             \/ n # Cardinality({a \in Addrs : addrConns'[a] # NoConv})
             \/ n # Cardinality(crypts'), "vessels", c)

EraseAddr(c) == [addrConns EXCEPT ![addrOf[c]] = NoConv]

\* mutant: the timer is not cancelled.
KcpDownTimed(c) ==
  /\ kcpState' = [kcpState EXCEPT ![c] = "disconnected"]
  /\ UNCHANGED updating
  /\ downs' = [downs EXCEPT ![c] = @ + 1]
  /\ left' = left \cup (firstUpdate \cap {c})
  /\ kcpConnections' = kcpConnections \ {c}

\* handleKcpClose as far as the close callback, and the first lines of that:
\* the timer whose id is known is cancelled, users are told.
KcpDown(c) ==
  /\ kcpState' = [kcpState EXCEPT ![c] = "disconnected"]
  /\ updating' = updating \ {c}
  /\ downs' = [downs EXCEPT ![c] = @ + 1]
  /\ left' = left \cup (firstUpdate \cap {c})
  /\ kcpConnections' = kcpConnections \ {c}

Closable(c) == kcpState[c] \in {"connecting", "connected", "disconnecting"}

\* mutant: the secret of a connection without KCP is kept.
RemoveTcpKeepsSecret(c, q) ==
  /\ tcpConnections' = tcpConnections \ {c}
  /\ crypts' = IF c \in kcpConnections THEN crypts \ {c} ELSE crypts
  /\ addrConns' = IF c \in kcpConnections THEN EraseAddr(c) ELSE addrConns
  /\ queue' = Append(q, Functor("tcpDestroyed", c))
  /\ IF c \in kcpConnections /\ Closable(c)
     THEN KcpDown(c)
     ELSE UNCHANGED <<kcpConnections, kcpState, updating, downs, left>>
  /\ fault' = FaultIf(c \notin tcpConnections, "findTcp", c)
            \cup (IF c \notin kcpConnections' THEN VesselsFault(c) ELSE {})

\* removeTcpConnectionInLoop.  A KCP connection that waits for its delayed close
\* ignores the forceCloseInLoop and stays, alone.
RemoveTcp(c, q) ==
  /\ tcpConnections' = tcpConnections \ {c}
  /\ crypts' = crypts \ {c}
  /\ addrConns' = IF c \in kcpConnections THEN EraseAddr(c) ELSE addrConns
  /\ queue' = Append(q, Functor("tcpDestroyed", c))
  /\ IF c \in kcpConnections /\ Closable(c)
     THEN KcpDown(c)
     ELSE UNCHANGED <<kcpConnections, kcpState, updating, downs, left>>
  /\ fault' = FaultIf(c \notin tcpConnections, "findTcp", c)
            \cup (IF c \notin kcpConnections' THEN VesselsFault(c) ELSE {})

\* mutant: the TCP connection is left open.
ForceCloseKcpOnly(c, q) ==
  /\ Closable(c)
  /\ KcpDown(c)
  /\ IF c \in tcpConnections
     THEN /\ crypts' = crypts \ {c}
          /\ addrConns' = EraseAddr(c)
          /\ queue' = Append(q, Functor("kcpDestroyed", c))
     ELSE /\ UNCHANGED <<crypts, addrConns>>
          /\ queue' = q
  /\ fault' = {}
  /\ UNCHANGED <<tcpConnections, connections, tcpState, baseQueue>>

\* KcpConnection::forceCloseInLoop, with removeKcpConnectionInLoop, which closes
\* the TCP connection if that is still in its table.
ForceCloseKcp(c, q) ==
  /\ Closable(c)
  /\ KcpDown(c)
  /\ UNCHANGED tcpConnections
  /\ IF c \in tcpConnections
     THEN /\ crypts' = crypts \ {c}
          /\ addrConns' = EraseAddr(c)
          /\ LET q1 == Append(q, Functor("kcpDestroyed", c))
             IN IF tcpState[c] = "connected"
                THEN CloseTcp(c, q1)
                ELSE queue' = q1 /\ UNCHANGED <<connections, tcpState, baseQueue>>
     ELSE /\ UNCHANGED <<crypts, addrConns, connections, tcpState, baseQueue>>
          /\ queue' = q
  /\ fault' = FaultIf(c \notin kcpConnections, "findKcp", c)
            \cup (IF c \notin tcpConnections THEN VesselsFault(c) ELSE {})

------------------------------------------------------------------------------
(* UDP datagrams and timers of the I/O loop.                                  *)

\* handleNewUdpMessage with c's conv and secret, the first time.  Any other
\* datagram that comes here is at most answered.
HandshakeAccepted(c) ==
  /\ c \in tcpConnections \cap crypts
  /\ tcpState[c] = "connected"
  /\ c \notin kcpConnections
  /\ kcpState' = [kcpState EXCEPT ![c] = "connecting"]
  /\ kcpConnections' = kcpConnections \cup {c}
  /\ addrConns' = [addrConns EXCEPT ![addrOf[c]] = c]

\* A handshake of c's client arrives, sent once or again.
Handshake(c) ==
  /\ c \in Created
  /\ HandshakeAccepted(c)
  /\ fault' = {}
  /\ UNCHANGED <<client, connections, tcpConnections, crypts, current, tcpState, timers, baseQueue,
                 queue, users, callbacks>>

\* What the user does in the connection callback, of a connection that is up.
Closings == {"connected", "disconnecting", "delay"}
MayClose == IF numCalls < MaxCalls THEN Closings ELSE {"connected"}

\* connectEstablished, in whose callback the user may close the connection, and
\* then kcpUpdateManual.
ConnectEstablished(c) ==
  /\ ups' = [ups EXCEPT ![c] = @ + 1]
  /\ firstUpdate' = firstUpdate \cup {c}
  /\ \E s \in MayClose :
       /\ kcpState' = [kcpState EXCEPT ![c] = s]
       /\ queue' = IF s = "disconnecting" THEN Append(queue, Functor("forceClose", c)) ELSE queue
       /\ delayed' = IF s = "delay" THEN delayed \cup {c} ELSE delayed
       /\ asked' = IF s # "connected" THEN asked \cup {c} ELSE asked
       /\ numCalls' = IF s # "connected" THEN numCalls + 1 ELSE numCalls
       /\ fault' = FaultIf(tcpState[c] # "connected", "tcpDown", c)
                \cup FaultIf(s # "connected", "update", c)

\* A KCP packet from an address that is known.
Datagram(a) ==
  LET c == addrConns[a]
  IN /\ c # NoConv
     /\ current' = c
     /\ updating' = updating \cup {c}
     /\ IF kcpState[c] = "connecting"
        THEN ConnectEstablished(c)
        ELSE /\ fault' = FaultIf(tcpState[c] # "connected", "tcpDown", c)
                      \cup FaultIf(kcpState[c] # "connected", "update", c)
             /\ UNCHANGED <<kcpState, ups, firstUpdate, queue, delayed, numCalls, asked>>
     /\ UNCHANGED <<client, tables, tcpState, baseQueue, userAt, overwritten, downs, left>>

\* kcpUpdateManual, of `this': it arms the timer again, whatever m_state is.
Update(c) ==
  IF Alive(c)
  THEN /\ updating' = updating \cup {c}
       /\ fault' = FaultIf(kcpState[c] # "connected", "update", c)
  ELSE /\ fault' = {<<"freed", c>>}
       /\ UNCHANGED updating

UpdateTimer(c) ==
  /\ \/ c \in firstUpdate /\ firstUpdate' = firstUpdate \ {c}
     \/ c \in updating /\ UNCHANGED firstUpdate
  /\ Update(c)
  /\ UNCHANGED <<client, tables, current, tcpState, kcpState, delayed, baseQueue, queue, users,
                 callbacks>>

\* The timer of forceCloseWithDelay: forceClose(), if the connection is alive.
DelayOver(c) ==
  /\ c \in delayed
  /\ delayed' = delayed \ {c}
  /\ IF Alive(c) /\ kcpState[c] \in {"connected", "connecting", "delay"}
     THEN /\ kcpState' = [kcpState EXCEPT ![c] = "disconnecting"]
          /\ queue' = Append(queue, Functor("forceClose", c))
     ELSE UNCHANGED <<kcpState, queue>>
  /\ fault' = {}
  /\ UNCHANGED <<client, tables, current, tcpState, updating, firstUpdate, baseQueue, users,
                 callbacks>>

------------------------------------------------------------------------------
(* Functors of the I/O loop.                                                  *)

RunFunctor ==
  /\ queue # <<>>
  /\ LET c == Head(queue).conv
         op == Head(queue).op
         q == Tail(queue)
     IN \/ /\ op = "established"
           /\ Established(c)
           /\ queue' = q
           /\ UNCHANGED connections
        \/ /\ op = "removeTcp"
           /\ RemoveTcp(c, q)
           /\ UNCHANGED <<connections, tcpState, baseQueue, firstUpdate, delayed, ups>>
        \/ /\ op = "tcpDestroyed"
           /\ tcpState' = [tcpState EXCEPT ![c] = "removed"]
           /\ queue' = q
           /\ fault' = {}
           /\ UNCHANGED <<tables, kcpState, timers, callbacks, baseQueue>>
        \/ /\ op = "forceClose"
           /\ \/ ForceCloseKcp(c, q) /\ UNCHANGED <<firstUpdate, delayed, ups>>
              \/ /\ ~Closable(c)
                 /\ queue' = q
                 /\ fault' = {}
                 /\ UNCHANGED <<tables, tcpState, kcpState, timers, callbacks, baseQueue>>
        \/ /\ op = "kcpDestroyed"
           /\ queue' = q
           /\ IF kcpState[c] = "connected"
              THEN /\ kcpState' = [kcpState EXCEPT ![c] = "disconnected"]
                   /\ downs' = [downs EXCEPT ![c] = @ + 1]
              ELSE UNCHANGED <<kcpState, downs>>
           /\ fault' = {}
           /\ UNCHANGED <<tables, tcpState, timers, ups, left, baseQueue>>
        \/ /\ op = "send"
           /\ queue' = q
           /\ IF Alive(c) /\ kcpState[c] \in {"disconnected", "connecting"}
              THEN fault' = {} /\ UNCHANGED <<updating>>
              ELSE Update(c)
           /\ UNCHANGED <<tables, tcpState, kcpState, firstUpdate, delayed, callbacks, baseQueue>>
  /\ UNCHANGED <<client, current, users>>

------------------------------------------------------------------------------
(* Threads of the user that have a KcpConnectionPtr from the UP callback, and *)
(* give it up in the DOWN callback.                                           *)

\* forceClose(), forceCloseWithDelay() and send() test m_state...
TestState(c) ==
  /\ c \in Created
  /\ userAt[c] = "idle"
  /\ ups[c] > downs[c]
  /\ numCalls < MaxCalls
  /\ \E op \in {"forceClose", "delay", "send"} :
       /\ \/ kcpState[c] = "connected"
          \/ op = "forceClose" /\ kcpState[c] = "delay"
       /\ userAt' = [userAt EXCEPT ![c] = op]
  /\ numCalls' = numCalls + 1
  /\ asked' = asked \cup {c}
  /\ fault' = {}
  /\ UNCHANGED <<client, tables, current, tcpState, kcpState, timers, baseQueue, queue, overwritten,
                 callbacks>>

\* ... and act ("FIXME: use compare and swap").
SetState(c) ==
  /\ userAt[c] # "idle"
  /\ userAt' = [userAt EXCEPT ![c] = "idle"]
  /\ kcpState' = [kcpState EXCEPT ![c] =
                    CASE userAt[c] = "forceClose" -> "disconnecting"
                      [] userAt[c] = "delay" -> "delay"
                      [] userAt[c] = "send" -> @]
  /\ queue' = IF userAt[c] = "delay" THEN queue ELSE Append(queue, Functor(userAt[c], c))
  /\ delayed' = IF userAt[c] = "delay" THEN delayed \cup {c} ELSE delayed
  /\ overwritten' = IF kcpState[c] = "disconnected" /\ userAt[c] # "send"
                    THEN overwritten \cup {c} ELSE overwritten
  /\ fault' = {}
  /\ UNCHANGED <<client, tables, current, tcpState, updating, firstUpdate, baseQueue, numCalls,
                 asked, callbacks>>

------------------------------------------------------------------------------

NoneFreed == \A f \in fault : f[1] # "freed"

Loop == RunFunctor \/ BaseRunsFunctor

Client(c) == TcpEnds(c) \/ Handshake(c)
Timer(c) == UpdateTimer(c) \/ DelayOver(c)
User(c) == TestState(c) \/ SetState(c)

Next ==
  /\ NoneFreed
  /\ \/ NewConnection \/ Loop
     \/ \E a \in Addrs : Datagram(a)
     \/ \E c \in Convs : Client(c) \/ Timer(c) \/ User(c)

Spec == Init /\ [][Next]_vars

\* The loops execute their functors, timers expire and a thread in the middle of
\* a call goes on; clients and users owe nothing.
Fairness ==
  /\ WF_vars(NoneFreed /\ RunFunctor)
  /\ WF_vars(NoneFreed /\ BaseRunsFunctor)
  /\ \A c \in Convs : WF_vars(NoneFreed /\ DelayOver(c)) /\ WF_vars(NoneFreed /\ SetState(c))

FairSpec == Spec /\ Fairness

------------------------------------------------------------------------------
(* Properties.                                                                *)

Unique(c) == \A d \in Created \ {c} : addrOf[d] # addrOf[c]

InTables(c) ==
  <<c \in tcpConnections, c \in kcpConnections, c \in crypts, addrConns[addrOf[c]] = c>>

\* The four tables of the loop, between two handlers.  A client is in TCP's and
\* the secrets' from its TCP connection on, in all four from its handshake on
\* (without its address, if another client of the same address has taken it over
\* or given it up); only in TCP's when KCP has been closed first, and only in KCP's
\* when TCP has been closed while the delayed close of KCP was pending.  Every
\* address leads to a client that is in all tables, so the lookups of
\* handleUdpRead find what they assert.
TablesAgree ==
  /\ \A a \in Addrs :
       LET c == addrConns[a]
       IN c # NoConv => addrOf[c] = a /\ c \in tcpConnections \cap kcpConnections
  /\ \A c \in Created :
       LET t == InTables(c)
       IN \/ t = <<FALSE, FALSE, FALSE, FALSE>> /\ kcpState[c] \in {"none", "disconnected"}
          \/ t = <<TRUE, FALSE, TRUE, FALSE>> /\ kcpState[c] = "none"
          \/ t = <<TRUE, TRUE, TRUE, TRUE>> /\ kcpState[c] \notin {"none", "disconnected"}
          \/ t = <<TRUE, TRUE, TRUE, FALSE>> /\ ~Unique(c)
          \/ t = <<TRUE, FALSE, FALSE, FALSE>> /\ tcpState[c] = "disconnected" /\ downs[c] > 0
          \/ t = <<FALSE, TRUE, FALSE, FALSE>> /\ c \in asked
                /\ (c \in delayed \/ Queued({"forceClose"}, c) \/ userAt[c] = "forceClose")
          \/ c \in overwritten

Whole(c) == \E b \in BOOLEAN : InTables(c) = <<b, b, b, b>>

\* What can go wrong and what cannot.  In a step that fails assertVessels()
\* another client is in some of the tables only: it has not shaken hands yet, or
\* is half removed, or has lost its address.  kcpUpdateManual fails its
\* assertion, and touches a destroyed connection, only when the close has left
\* the timer of connectEstablished running, whose id is not kept, or after a
\* call of the user; the TCP connection that handleUdpRead asserts to be up is
\* in its table.  No lookup of a removal fails, unless a user's call has
\* overwritten m_state.
NoFault ==
  \A f \in fault :
    LET c == f[2]
    IN \/ f[1] = "vessels" /\ \E d \in Created \ {c} : ~Whole(d)
       \/ f[1] \in {"update", "freed"} /\ c \in left \cup asked
       \/ f[1] = "tcpDown" /\ c \in tcpConnections /\ tcpState[c] = "disconnected"
       \/ c \in overwritten

\* The state is of its types, and what goes wrong is one of these.
Sound == TypeOK /\ NoFault

\* A client's two connections end together: when one of them is down, the client
\* leaves every table and its TCP socket is closed, unless m_curTcpConn keeps it
\* until the next datagram of somebody else.
Forgotten(c) ==
  /\ c \notin connections \cup tcpConnections \cup kcpConnections \cup crypts
  /\ addrConns[addrOf[c]] # c
  /\ tcpState[c] = "removed"
  /\ SocketOpen(c) => current = c

EndTogether ==
  \A c \in Convs :
    (tcpState[c] = "disconnected" \/ kcpState[c] = "disconnected")
      ~> (Forgotten(c) \/ c \in overwritten \/ ~NoneFreed)
=============================================================================

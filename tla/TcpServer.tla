------------------------------ MODULE TcpServer ------------------------------
(***************************************************************************)
(* TcpServer and its TcpConnections over a base loop (0), which accepts,   *)
(* and numThreads I/O loops, one thread each; other threads call methods   *)
(* of connections whose TcpConnectionPtr they hold.                        *)
(*                                                                         *)
(* A loop is its queue of functors: it executes one functor, or handles    *)
(* one event, at a time (EventLoop has the batches).  A call of another    *)
(* thread that tests m_state and then assigns it is two steps.  A functor  *)
(* bound to a TcpConnectionPtr keeps the connection alive, one bound to    *)
(* `this' does not.                                                        *)
(*                                                                         *)
(* TcpConnection has the data: here a connection is its m_state, its       *)
(* channel and who refers to it.                                           *)
(***************************************************************************)
EXTENDS Integers, FiniteSets, Sequences, SequencesExt

CONSTANTS
  MaxThreads,   \* the pool has up to MaxThreads loops
  Users,        \* other threads
  MaxConns,     \* bound: connections accepted
  MaxQueue      \* bound: length of a queue that user calls may reach

ASSUME TcpServerAssumption ==
  /\ MaxThreads \in Nat
  /\ MaxConns \in Nat \ {0}
  /\ MaxQueue \in Nat \ {0}
  /\ IsFiniteSet(Users)

Base == 0
Loops == 0..MaxThreads
Conns == 1..MaxConns

VARIABLES
  numThreads,    \* setThreadNum(); with 0 the base loop serves the connections
  numAccepted,   \* m_nextConnId - 1
  server,        \* "alive", "dying" (~TcpServer joins the pool) or "gone"
  connections,   \* keys of m_connections
  loopPhase,     \* of each loop: "looping", "quit", "drain" (~EventLoop), "ended"
  queue,         \* of each loop: the functors queued to it
  state,         \* m_state of each connection
  channel,       \* of each connection: "new", "added" or "removed"
  reading,       \* Channel::isReading()
  wantsRead,     \* m_reading
  delayed,       \* connections with a forceCloseWithDelay timer running
  userAt,        \* what each user thread is in the middle of
  held,          \* the connections whose TcpConnectionPtr a user thread holds
  ups, downs,    \* history: calls of the connection callback
  misused,       \* history: connections see Misuse below
  fault          \* history: failed assertions and uses of destroyed objects

connVars == <<state, channel, reading, wantsRead, ups, downs>>
userVars == <<userAt, held>>
lifeVars == <<numThreads, server, loopPhase>>
vars == <<numAccepted, connections, queue, delayed, connVars, userVars, lifeVars, misused, fault>>

\* EventLoopThreadPool::getNextLoop: in turn, the base loop if there is no other.
LoopOf(c) == IF numThreads = 0 THEN Base ELSE 1 + ((c - 1) % numThreads)

\* forceClose and the TcpServer's functors hold a TcpConnectionPtr, the others
\* are bound to `this'.
SharedOps == {"established", "destroyed", "remove", "forceClose"}
RawOps == {"shutdown", "startRead", "stopRead"}
Functor == [op : SharedOps \cup RawOps, conn : Conns]
F(op, c) == [op |-> op, conn |-> c]

Created == 1..numAccepted
Refers(f, c) == f.op \in SharedOps /\ f.conn = c

\* Somebody has a TcpConnectionPtr to c.
Alive(c) ==
  \/ c \in connections
  \/ \E l \in Loops : \E i \in DOMAIN queue[l] : Refers(queue[l][i], c)
  \/ \E u \in Users : c \in held[u]

IsUp(c) == state[c] \in {"connected", "disconnecting"}
FaultIf(cond, kind, c) == IF cond THEN {<<kind, c>>} ELSE {}
Idle == [at |-> "idle"]

TypeOK ==
  /\ numThreads \in 0..MaxThreads
  /\ numAccepted \in 0..MaxConns
  /\ server \in {"alive", "dying", "gone"}
  /\ connections \subseteq Created
  /\ loopPhase \in [Loops -> {"looping", "quit", "drain", "ended"}]
  /\ queue \in [Loops -> Seq(Functor)]
  /\ \A c \in Conns :
       /\ state[c] \in {"connecting", "connected", "disconnecting", "disconnected"}
       /\ channel[c] \in {"new", "added", "removed"}
       /\ reading[c] => channel[c] = "added"
       /\ ups[c] \in 0..1 /\ downs[c] \in 0..(3 + Cardinality(Users))
  /\ wantsRead \in [Conns -> BOOLEAN]
  /\ delayed \subseteq Created
  /\ \A u \in Users :
       /\ held[u] \subseteq Created
       /\ userAt[u] # Idle => userAt[u].conn \in held[u]
  /\ misused \subseteq Created

Init ==
  /\ numThreads \in 0..MaxThreads
  /\ numAccepted = 0
  /\ server = "alive"
  /\ connections = {}
  /\ loopPhase = [l \in Loops |-> "looping"]
  /\ queue = [l \in Loops |-> <<>>]
  /\ state = [c \in Conns |-> "connecting"]
  /\ channel = [c \in Conns |-> "new"]
  /\ reading = [c \in Conns |-> FALSE]
  /\ wantsRead = [c \in Conns |-> TRUE]
  /\ delayed = {}
  /\ userAt = [u \in Users |-> Idle]
  /\ held = [u \in Users |-> {}]
  /\ ups = [c \in Conns |-> 0]
  /\ downs = [c \in Conns |-> 0]
  /\ misused = {}
  /\ fault = {}

------------------------------------------------------------------------------
(* What runs in a loop thread.  q are the queues as the handler finds them.   *)

\* The thread of the loop executes functors: ~TcpServer, which joins the pool,
\* keeps the base loop's thread.
Runs(l) ==
  /\ loopPhase[l] # "ended"
  /\ l = Base => server # "dying"

\* It also polls, and serves events and timers.
Handles(l) == Runs(l) /\ loopPhase[l] \in {"looping", "quit"}

ConnectEstablished(c) ==
  /\ state' = [state EXCEPT ![c] = "connected"]
  /\ channel' = [channel EXCEPT ![c] = "added"]
  /\ reading' = [reading EXCEPT ![c] = TRUE]
  /\ ups' = [ups EXCEPT ![c] = @ + 1]
  /\ fault' = fault \cup FaultIf(state[c] # "connecting", "established", c)
  /\ UNCHANGED <<wantsRead, downs, misused>>

\* mutant: the connection callback is not called.
ConnectDestroyedSilent(cs) ==
  LET up == {c \in cs : state[c] = "connected"}
  IN /\ state' = [c \in Conns |-> IF c \in up THEN "disconnected" ELSE state[c]]
     /\ reading' = [c \in Conns |-> reading[c] /\ c \notin cs]
     /\ channel' = [c \in Conns |-> IF c \in cs THEN "removed" ELSE channel[c]]
     /\ misused' = misused \cup {c \in cs : state[c] = "disconnecting"}
     /\ UNCHANGED <<wantsRead, ups, downs, fault>>

\* TcpConnection::connectDestroyed of each of cs.  Channel::remove() asserts
\* that no event is enabled and that the channel is registered; a connection
\* that is still kDisconnecting, since it has been half closed when the server
\* is destroyed, fails that.
ConnectDestroyed(cs) ==
  LET up == {c \in cs : state[c] = "connected"}
      down == {c \in cs \ up : reading[c] \/ channel[c] # "added"}
  IN /\ state' = [c \in Conns |-> IF c \in up THEN "disconnected" ELSE state[c]]
     /\ reading' = [c \in Conns |-> reading[c] /\ c \notin cs]
     /\ channel' = [c \in Conns |-> IF c \in cs THEN "removed" ELSE channel[c]]
     /\ downs' = [c \in Conns |-> IF c \in up THEN downs[c] + 1 ELSE downs[c]]
     /\ misused' = misused \cup {c \in cs : state[c] = "disconnecting"}
     /\ fault' = fault \cup {<<"remove", c>> : c \in down}
     /\ UNCHANGED <<wantsRead, ups>>

\* mutant: the connection stays in m_connections.
RemoveConnectionInLoopKeeps(c, q) ==
  /\ queue' = [q EXCEPT ![LoopOf(c)] = Append(@, F("destroyed", c))]
  /\ UNCHANGED connections

\* TcpServer::removeConnectionInLoop: assert(n == 1), then back to c's loop.
RemoveConnectionInLoop(c, q) ==
  /\ connections' = connections \ {c}
  /\ queue' = [q EXCEPT ![LoopOf(c)] = Append(@, F("destroyed", c))]

RemoveFaults(c) ==
  FaultIf(server = "gone", "server", c)
    \cup FaultIf(server = "alive" /\ c \notin connections, "erase", c)

\* TcpConnection::handleClose, with the TcpServer's close callback
\* removeConnection at its end.
HandleClose(c, q) ==
  /\ state' = [state EXCEPT ![c] = "disconnected"]
  /\ reading' = [reading EXCEPT ![c] = FALSE]
  /\ downs' = [downs EXCEPT ![c] = @ + 1]
  /\ fault' = fault \cup
       (IF ~IsUp(c) THEN {<<"close", c>>}
        ELSE IF channel[c] # "added" THEN {<<"update", c>>}
        ELSE IF LoopOf(c) = Base THEN RemoveFaults(c)
        ELSE FaultIf(server = "gone", "server", c))
  /\ IF LoopOf(c) = Base
     THEN RemoveConnectionInLoop(c, q)
     ELSE /\ queue' = [q EXCEPT ![Base] = Append(@, F("remove", c))]
          /\ UNCHANGED connections
  /\ UNCHANGED <<channel, wantsRead, ups, misused>>

\* mutant: forceCloseInLoop does not look at m_state.
ForceCloseInLoopAlways(c, q) == HandleClose(c, q)

\* mutant: forceCloseInLoop closes connections in kConnected only.
ForceCloseInLoopConnected(c, q) ==
  IF state[c] = "connected"
  THEN HandleClose(c, q)
  ELSE queue' = q /\ UNCHANGED <<connections, connVars, misused, fault>>

ForceCloseInLoop(c, q) ==
  IF IsUp(c)
  THEN HandleClose(c, q)
  ELSE queue' = q /\ UNCHANGED <<connections, connVars, misused, fault>>

\* startReadInLoop and stopReadInLoop; updating a channel that has been removed
\* fails the assertion in SelectPoller::updateChannel.
SetReading(c, on) ==
  LET acts == IF on THEN ~wantsRead[c] \/ ~reading[c] ELSE wantsRead[c] \/ reading[c]
  IN /\ reading' = [reading EXCEPT ![c] = IF acts /\ channel[c] = "added" THEN on ELSE @]
     /\ wantsRead' = [wantsRead EXCEPT ![c] = IF acts THEN on ELSE @]
     /\ fault' = fault \cup FaultIf(acts /\ channel[c] # "added", "update", c)
                       \cup FaultIf(~Alive(c), "connection", c)
     /\ UNCHANGED <<state, channel, ups, downs>>

\* Misuse: a call takes effect when the connection is down already.
\* (connectDestroyed adds the connections that were half closed.)
Misuse(c) == misused' = IF IsUp(c) THEN misused ELSE misused \cup {c}

\* The functor at the head of the queue is executed.
RunFunctor(l) ==
  /\ Runs(l)
  /\ queue[l] # <<>>
  /\ LET f == Head(queue[l])
         q == [queue EXCEPT ![l] = Tail(@)]
         c == f.conn
     IN \/ /\ f.op = "established"
           /\ ConnectEstablished(c)
           /\ queue' = q
           /\ UNCHANGED connections
        \/ /\ f.op = "destroyed"
           /\ ConnectDestroyed({c})
           /\ queue' = q
           /\ UNCHANGED connections
        \/ /\ f.op = "remove"
           /\ RemoveConnectionInLoop(c, q)
           /\ fault' = fault \cup RemoveFaults(c)
           /\ UNCHANGED <<connVars, misused>>
        \/ /\ f.op = "forceClose"
           /\ ForceCloseInLoop(c, q)
        \/ /\ f.op \in {"startRead", "stopRead"}
           /\ SetReading(c, f.op = "startRead")
           /\ Misuse(c)
           /\ queue' = q
           /\ UNCHANGED connections
        \/ /\ f.op = "shutdown"
           /\ fault' = fault \cup FaultIf(~Alive(c), "connection", c)
           /\ Misuse(c)
           /\ queue' = q
           /\ UNCHANGED <<connections, connVars>>
  /\ UNCHANGED <<numAccepted, delayed, userVars, lifeVars>>

\* handleRead reads 0 bytes or fails.  The tie of the channel keeps it from
\* connections that are being destroyed.
HandleRead(c) ==
  /\ c \in Created /\ Alive(c)
  /\ Handles(LoopOf(c))
  /\ reading[c]
  /\ HandleClose(c, queue)
  /\ UNCHANGED <<numAccepted, delayed, userVars, lifeVars>>

\* forceClose() in the loop thread, once m_state has been tested.
ForceClose(c) ==
  /\ state' = [state EXCEPT ![c] = "disconnecting"]
  /\ queue' = [queue EXCEPT ![LoopOf(c)] = Append(@, F("forceClose", c))]

HasRoom(c) == Len(queue[LoopOf(c)]) < MaxQueue

\* Callbacks of a connection's loop call its methods while it is up.
LoopCall(c) ==
  /\ c \in Created
  /\ Handles(LoopOf(c)) /\ server = "alive"
  /\ IsUp(c) /\ c \notin misused
  /\ \/ /\ HasRoom(c)
        /\ ForceClose(c)
        /\ UNCHANGED <<delayed, channel, reading, wantsRead, ups, downs, fault>>
     \/ /\ state[c] = "connected"
        /\ state' = [state EXCEPT ![c] = "disconnecting"]
        /\ UNCHANGED <<delayed, queue, channel, reading, wantsRead, ups, downs, fault>>
     \/ /\ delayed' = delayed \cup {c}
        /\ state' = [state EXCEPT ![c] = "disconnecting"]
        /\ UNCHANGED <<queue, channel, reading, wantsRead, ups, downs, fault>>
     \/ /\ \E on \in BOOLEAN : SetReading(c, on)
        /\ UNCHANGED <<delayed, queue>>
  /\ UNCHANGED <<numAccepted, connections, userVars, lifeVars, misused>>

\* The timer of forceCloseWithDelay: WeakCallback calls forceClose() if the
\* connection still exists.
DelayOver(c) ==
  /\ c \in delayed
  /\ Handles(LoopOf(c)) /\ HasRoom(c)
  /\ delayed' = delayed \ {c}
  /\ IF Alive(c) /\ IsUp(c) THEN ForceClose(c) ELSE UNCHANGED <<state, queue>>
  /\ UNCHANGED <<numAccepted, connections, channel, reading, wantsRead, ups, downs,
                 userVars, lifeVars, misused, fault>>

------------------------------------------------------------------------------
(* The server: Acceptor::handleRead and newConnection, and the destructor.    *)

NewConnection ==
  LET c == numAccepted + 1
  IN /\ server = "alive"
     /\ numAccepted < MaxConns
     /\ numAccepted' = c
     /\ connections' = connections \cup {c}
     /\ IF LoopOf(c) = Base
        THEN ConnectEstablished(c) /\ UNCHANGED queue
        ELSE /\ queue' = [queue EXCEPT ![LoopOf(c)] = Append(@, F("established", c))]
             /\ UNCHANGED <<connVars, misused, fault>>
     /\ UNCHANGED <<delayed, userVars, lifeVars>>

\* ~TcpServer posts connectDestroyed of every connection (or calls it) and then
\* destroys the pool.  Other threads have stopped calling connections by then.
Destroy ==
  /\ server = "alive"
  /\ \A u \in Users : userAt[u] = Idle
  /\ connections' = {}
  /\ IF numThreads = 0
     THEN /\ server' = "gone"
          /\ ConnectDestroyed(connections)
          /\ UNCHANGED queue
     ELSE /\ server' = "dying"
          /\ queue' = [l \in Loops |->
                queue[l] \o SetToSeq({F("destroyed", c) : c \in {d \in connections : LoopOf(d) = l}})]
          /\ UNCHANGED <<connVars, misused, fault>>
  /\ UNCHANGED <<numAccepted, delayed, numThreads, loopPhase, userVars>>

\* The destructors of the pool's EventLoopThreads, one after the other.
QuitLoop(l) ==
  /\ server = "dying"
  /\ l # Base /\ loopPhase[l] = "looping"
  /\ \A k \in 1..(l - 1) : loopPhase[k] = "ended"
  /\ loopPhase' = [loopPhase EXCEPT ![l] = "quit"]
  /\ UNCHANGED <<numAccepted, connections, queue, delayed, connVars, userVars, numThreads, server,
                 misused, fault>>

\* loop() returns; ~EventLoop executes what is queued.
LeaveLoop(l) ==
  /\ loopPhase[l] = "quit"
  /\ loopPhase' = [loopPhase EXCEPT ![l] = "drain"]
  /\ UNCHANGED <<numAccepted, connections, queue, delayed, connVars, userVars, numThreads, server,
                 misused, fault>>

EndLoop(l) ==
  /\ loopPhase[l] = "drain"
  /\ queue[l] = <<>>
  /\ loopPhase' = [loopPhase EXCEPT ![l] = "ended"]
  /\ server' = IF l = numThreads THEN "gone" ELSE server
  /\ UNCHANGED <<numAccepted, connections, queue, delayed, connVars, userVars, numThreads,
                 misused, fault>>

------------------------------------------------------------------------------
(* Other threads.                                                             *)

\* A callback of the connection's loop passes its TcpConnectionPtr on.
Share(u, c) ==
  /\ c \in Created \ held[u]
  /\ server = "alive"
  /\ ups[c] > downs[c]
  /\ held' = [held EXCEPT ![u] = @ \cup {c}]
  /\ UNCHANGED <<numAccepted, connections, queue, delayed, connVars, userAt, lifeVars,
                 misused, fault>>

Release(u, c) ==
  /\ c \in held[u]
  /\ userAt[u] = Idle
  /\ held' = [held EXCEPT ![u] = @ \ {c}]
  /\ UNCHANGED <<numAccepted, connections, queue, delayed, connVars, userAt, lifeVars,
                 misused, fault>>

\* Bound: threads do not go on calling a connection they have misused.
MayCall(u, c) ==
  /\ c \in held[u] \ misused
  /\ userAt[u] = Idle
  /\ server = "alive"

\* forceClose(), forceCloseWithDelay() and shutdown() test m_state...
TestState(u, c) ==
  /\ MayCall(u, c)
  /\ \E op \in {"forceClose", "delay", "shutdown"} :
       /\ IF op = "shutdown" THEN state[c] = "connected" ELSE IsUp(c)
       /\ userAt' = [userAt EXCEPT ![u] = [at |-> op, conn |-> c]]
  /\ UNCHANGED <<numAccepted, connections, queue, delayed, connVars, held, lifeVars,
                 misused, fault>>

\* ... and assign it ("FIXME: use compare and swap").
SetState(u) ==
  /\ userAt[u] # Idle
  /\ LET c == userAt[u].conn
         op == userAt[u].at
     IN /\ state' = [state EXCEPT ![c] = "disconnecting"]
        /\ Misuse(c)
        /\ IF op = "delay"
           THEN delayed' = delayed \cup {c} /\ UNCHANGED queue
           ELSE /\ HasRoom(c)
                /\ queue' = [queue EXCEPT ![LoopOf(c)] = Append(@, F(op, c))]
                /\ UNCHANGED delayed
  /\ userAt' = [userAt EXCEPT ![u] = Idle]
  /\ UNCHANGED <<numAccepted, connections, channel, reading, wantsRead, ups, downs,
                 held, lifeVars, fault>>

\* startRead() and stopRead() queue without a test.
CallRead(u, c) ==
  /\ MayCall(u, c)
  /\ HasRoom(c)
  /\ \E op \in {"startRead", "stopRead"} :
       queue' = [queue EXCEPT ![LoopOf(c)] = Append(@, F(op, c))]
  /\ UNCHANGED <<numAccepted, connections, delayed, connVars, userVars, lifeVars,
                 misused, fault>>

User(u) ==
  \/ SetState(u)
  \/ \E c \in Conns : Share(u, c) \/ Release(u, c) \/ TestState(u, c) \/ CallRead(u, c)

Loop(l) ==
  \/ RunFunctor(l) \/ QuitLoop(l) \/ LeaveLoop(l) \/ EndLoop(l)

Events == \E c \in Conns : HandleRead(c) \/ LoopCall(c) \/ DelayOver(c)

\* Nothing is said of a run after a fault.
Next ==
  /\ fault = {}
  /\ \/ NewConnection \/ Destroy \/ Events
     \/ \E l \in Loops : Loop(l)
     \/ \E u \in Users : User(u)

Spec == Init /\ [][Next]_vars

\* Every loop executes its functors, and loops that are asked to end do.  A
\* thread in the middle of a call goes on.  Peers, callbacks, the server's owner
\* and the timers owe nothing.
Fairness ==
  /\ \A l \in Loops : WF_vars(fault = {} /\ Loop(l))
  /\ \A u \in Users : WF_vars(fault = {} /\ SetState(u))

FairSpec == Spec /\ Fairness

------------------------------------------------------------------------------
(* Properties.                                                                *)

NumQueued(l, f) == Cardinality({i \in DOMAIN queue[l] : queue[l][i] = f})

\* No assertion of TcpConnection, TcpServer, Channel and SelectPoller fails and
\* nothing is used after its destruction, except
\*  - for a connection on which a call took effect after its end, or which was
\*    half closed when the server was destroyed;
\*  - the server, by a removal that an I/O loop asks for while the server is
\*    being destroyed ("FIXME: unsafe" in TcpServer::removeConnection).
NoFault ==
  \A f \in fault :
    \/ f[2] \in misused
    \/ f[1] = "server" /\ server = "gone" /\ LoopOf(f[2]) # Base

\* The state is of its types, and what goes wrong is one of these.
Sound == TypeOK /\ NoFault

Phase(c) ==
  IF c \notin Created \/ (ups[c] = 0 /\ Alive(c)) THEN "new"
  ELSE IF downs[c] = 0 /\ Alive(c) THEN "up"
  ELSE IF downs[c] = 1 /\ Alive(c) THEN "down"
  ELSE IF downs[c] = 1 /\ ~Alive(c) /\ state[c] = "disconnected" /\ channel[c] = "removed"
       THEN "destroyed"
  ELSE "wrong"

\* The life of a connection, across the threads that take part in it: one UP,
\* one DOWN, and then (or with it, in connectDestroyed) the destruction in state
\* kDisconnected, as ~TcpConnection asserts, with the channel removed, as
\* ~Channel asserts.
LifeInOrder ==
  [][\A c \in Conns \ misused' :
       fault' = {} /\ Phase(c)' # Phase(c) =>
         <<Phase(c), Phase(c)'>> \in {<<"new", "up">>, <<"up", "down">>, <<"down", "destroyed">>,
                                     <<"up", "destroyed">>}]_vars

\* m_connections and the connections' own states agree: while the server lives,
\* a connection is in the table until it is down and its removal, asked for
\* once, has reached the base loop; from then on the other half of the removal
\* is on its way to the connection's loop, or has arrived.
TableAgrees ==
  server = "alive" /\ fault = {} =>
    \A c \in Created \ misused :
      LET removals == NumQueued(Base, F("remove", c))
          destroys == NumQueued(LoopOf(c), F("destroyed", c))
      IN IF c \in connections
         THEN /\ removals = downs[c] /\ destroys = 0 /\ channel[c] # "removed"
              /\ downs[c] = 1 => LoopOf(c) # Base
         ELSE /\ downs[c] = 1 /\ removals = 0
              /\ destroys = IF channel[c] = "removed" THEN 0 ELSE 1

\* Every accepted connection comes up, forceClose() brings it down, and one that
\* is down leaves the table and its loop's poller.
Settled(c) == fault # {} \/ c \in misused

ConnectionsSettle ==
  \A c \in Conns :
    /\ c \in Created ~> (ups[c] = 1 \/ Settled(c))
    /\ (\E l \in Loops : F("forceClose", c) \in ToSet(queue[l])) ~> (downs[c] > 0 \/ Settled(c))
    /\ downs[c] > 0 ~> ((c \notin connections /\ channel[c] = "removed") \/ Settled(c))
=============================================================================

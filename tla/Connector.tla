------------------------------ MODULE Connector ------------------------------
(***************************************************************************)
(* Connector, which makes the connection of a TcpClient or of a            *)
(* KcpWithTcpClient: attempts, retries with a growing delay, stop.         *)
(*                                                                         *)
(* A connector is a record; an operator for a function of the class takes  *)
(* one and returns the set of what it may become.  Client has the loop     *)
(* that runs them.  An assertion that fails is recorded in "failed".       *)
(***************************************************************************)
EXTENDS Integers

CONSTANTS
  InitDelay,   \* kInitRetryDelayMs
  MaxDelay     \* kMaxRetryDelayMs

ASSUME ConnectorAssumption ==
  /\ InitDelay \in Nat \ {0}
  /\ MaxDelay \in Nat /\ MaxDelay >= InitDelay

\* m_channel: there is none; it is in the poller; it has been removed from it.
ConnectorType ==
  [connect : BOOLEAN, state : {"disconnected", "connecting", "connected"},
   channel : {"none", "live", "removed"}, delay : InitDelay..MaxDelay,
   armed : Nat,         \* retry timers armed since the functors last ran
   due : Nat,           \* retry timers that may expire
   refused : BOOLEAN,   \* history: connect() has failed for good
   failed : {"none", "start", "channel"}]

NewConnector ==
  [connect |-> FALSE, state |-> "disconnected", channel |-> "none", delay |-> InitDelay,
   armed |-> 0, due |-> 0, refused |-> FALSE, failed |-> "none"]

Doubled(delay) == IF 2 * delay <= MaxDelay THEN 2 * delay ELSE MaxDelay

\* mutant: nothing comes after the failure.
RetryNever(c) == [c EXCEPT !.state = "disconnected", !.delay = Doubled(@)]

Retry(c) ==
  IF c.connect
  THEN [c EXCEPT !.state = "disconnected", !.armed = @ + 1, !.delay = Doubled(@)]
  ELSE [c EXCEPT !.state = "disconnected"]

Connecting(c) ==
  [c EXCEPT !.state = "connecting", !.channel = "live",
            !.failed = IF c.channel # "none" THEN "channel" ELSE @]

\* connect(): in progress, to be tried again, or an error that closes the socket.
Connect(c) == {Connecting(c), Retry(c), [c EXCEPT !.refused = TRUE]}

StartInLoop(c) ==
  CASE c.state # "disconnected" -> {[c EXCEPT !.failed = "start"]}
    [] c.state = "disconnected" /\ c.connect -> Connect(c)
    [] c.state = "disconnected" /\ ~c.connect -> {c}

\* mutant: the state of the connection before is kept.
RestartAsIs(c) == StartInLoop([c EXCEPT !.delay = InitDelay, !.connect = TRUE])

Restart(c) ==
  StartInLoop([c EXCEPT !.state = "disconnected", !.delay = InitDelay, !.connect = TRUE])

\* The functor that resets the channel is queued with this.
RemoveAndResetChannel(c) == [c EXCEPT !.channel = "removed"]
ResetChannel(c) == [c EXCEPT !.channel = "none"]

\* mutant: the channel is left in the poller.
GiveUpOnly(c) == Retry(c)

\* stopInLoop of an attempt, and handleError or the failures of handleWrite.
GiveUpAttempt(c) == Retry(RemoveAndResetChannel(c))

\* handleWrite of an attempt that has come through.
Connected(c) == [RemoveAndResetChannel(c) EXCEPT !.state = "connected"]

\* A retry timer runs startInLoop.
Expire(c) == StartInLoop([c EXCEPT !.due = @ - 1])

\* The delay is longer than one turn of the loop.
Age(c) == [c EXCEPT !.due = @ + c.armed, !.armed = 0]
=============================================================================

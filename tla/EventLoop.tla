------------------------------ MODULE EventLoop ------------------------------
(****************************************************************************)
(* sznet::net::EventLoop: one loop thread runs expired timers, polls, handles *)
(* events and executes the functors other threads (or its own callbacks) have *)
(* queued, in that order; any thread may queue a functor or ask it to quit.   *)
(*                                                                            *)
(* What a callback does is abstracted to the calls it makes on the loop:      *)
(* queueInLoop, runAt/runEvery, cancel and quit.  Timers are abstracted to    *)
(* the number of armed ones (TimerQueue.tla has the queue itself), because    *)
(* the loop only asks whether there is one.                                   *)
(****************************************************************************)
EXTENDS Integers, Sequences, SequencesExt

CONSTANTS
  Tasks,            \* the functors handed to queueInLoop / runInLoop
  Users,            \* the threads other than the loop thread
  MaxTimers,        \* bound: timers armed at the same time
  WakeupCapacity,   \* bound: wakeups the wakeup descriptor holds; wakeup()
                    \* ignores a write that would block
  ReadDrainsAll     \* TRUE: eventfd (Linux), one read() resets the counter;
                    \* FALSE: socket pair (Windows), recv() takes one wakeup

ASSUME LoopAssumption ==
  /\ MaxTimers \in Nat
  /\ WakeupCapacity \in Nat \ {0}
  /\ ReadDrainsAll \in BOOLEAN
  /\ "none" \notin Tasks

VARIABLES
  phase,                  \* where the loop thread is (Phases)
  inCallback,             \* the loop thread is inside a user callback
  looping,                \* m_looping
  quit,                   \* m_quit
  callingPendingFunctors, \* m_callingPendingFunctors
  activeChannels,         \* m_activeChannels: what poll reported
  timers,                 \* the number of active timers
  due,                    \* of those, expired ones this pass has yet to run
  wakeupFd,               \* wakeups written to m_wakeupFd and not yet read
  pendingFunctors,        \* m_pendingFunctors
  functors,               \* what is left of the batch the loop thread iterates
                          \* over: the local vector of doPendingFunctors or, in
                          \* the destructor, the range of m_pendingFunctors
                          \* fixed when its range-for began
  userAt,                 \* "wakeup": the thread has queued or set m_quit and
                          \* is about to call wakeup()
  executed,               \* history: functors in the order they were executed
  origin,                 \* history: from where each functor was queued
  quitOrigin              \* history: from where the quit in force was requested

control == <<phase, inCallback, looping, callingPendingFunctors, activeChannels>>
clock   == <<timers, due>>
queues  == <<pendingFunctors, functors, executed, origin>>
quitting == <<quit, quitOrigin>>
vars == <<control, clock, queues, quitting, wakeupFd, userAt>>

Phases == {"idle", "head", "timers", "poll", "events", "swap", "functors",
           "stopped", "drain", "destroyed", "crashed"}
Gone == {"drain", "destroyed", "crashed"}   \* the destructor has begun
LoopChannels == {"wakeup", "io"} \* m_wakeupChannel, and any other channel

\* The kind of code that calls queueInLoop or quit.  "idle" is the loop thread
\* before loop(): main() or a ThreadInitCallback.
Origins == {"user", "idle", "timers", "events", "functors", "drain"}

\* Code before loop() runs in the loop thread, outside any callback.
InLoopCode == inCallback \/ phase = "idle"

TypeOK ==
  /\ phase \in Phases
  /\ inCallback \in BOOLEAN
  /\ looping \in BOOLEAN
  /\ quit \in BOOLEAN
  /\ callingPendingFunctors \in BOOLEAN
  /\ activeChannels \in SUBSET LoopChannels
  /\ timers \in 0..MaxTimers
  /\ due \in 0..MaxTimers
  /\ wakeupFd \in 0..WakeupCapacity
  /\ pendingFunctors \in Seq(Tasks)
  /\ functors \in Seq(Tasks)
  /\ userAt \in [Users -> {"idle", "wakeup"}]
  /\ executed \in Seq(Tasks)
  /\ origin \in [Tasks -> Origins \cup {"none"}]
  /\ quitOrigin \in Origins \cup {"none"}

Init ==
  /\ phase = "idle"
  /\ inCallback = FALSE
  /\ looping = FALSE
  /\ quit = FALSE
  /\ callingPendingFunctors = FALSE
  /\ activeChannels = {}
  /\ timers = 0
  /\ due = 0
  /\ wakeupFd = 0
  /\ pendingFunctors = <<>>
  /\ functors = <<>>
  /\ userAt = [u \in Users |-> "idle"]
  /\ executed = <<>>
  /\ origin = [t \in Tasks |-> "none"]
  /\ quitOrigin = "none"

------------------------------------------------------------------------------
(* wakeup() and handleRead() on the wakeup descriptor.                        *)

Written(n) == IF n < WakeupCapacity THEN n + 1 ELSE n   \* a full one: EAGAIN
ReadLess(n) == IF n > 0 THEN n - 1 ELSE 0
AfterRead(n) == IF ReadDrainsAll THEN 0 ELSE ReadLess(n)

------------------------------------------------------------------------------
(* Other threads.  queueInLoop pushes under m_mutex and calls wakeup() after  *)
(* the unlock, so the two are separate steps; quit() likewise.  The caller    *)
(* guarantees that the loop object is alive.                                  *)

QueueInLoopNoWakeup(u, t) ==   \* mutant: the caller thinks the loop is awake
  /\ userAt[u] = "idle"
  /\ phase \notin Gone
  /\ origin[t] = "none"
  /\ pendingFunctors' = Append(pendingFunctors, t)
  /\ origin' = [origin EXCEPT ![t] = "user"]
  /\ UNCHANGED <<control, clock, quitting, wakeupFd, functors, executed, userAt>>

QueueInLoop(u, t) ==
  /\ userAt[u] = "idle"
  /\ phase \notin Gone
  /\ origin[t] = "none"
  /\ pendingFunctors' = Append(pendingFunctors, t)
  /\ origin' = [origin EXCEPT ![t] = "user"]
  /\ userAt' = [userAt EXCEPT ![u] = "wakeup"]
  /\ UNCHANGED <<control, clock, quitting, wakeupFd, functors, executed>>

\* Bound: quit() once more, when a thread's quit() is already in force, would
\* only write one more wakeup.
RepeatedQuit == quit /\ quitOrigin = "user"

QuitNoWakeup(u) ==   \* mutant: m_quit is set and nobody is told
  /\ userAt[u] = "idle"
  /\ phase \notin Gone
  /\ ~RepeatedQuit
  /\ quit' = TRUE
  /\ quitOrigin' = "user"
  /\ UNCHANGED <<control, clock, queues, wakeupFd, userAt>>

Quit(u) ==
  /\ userAt[u] = "idle"
  /\ phase \notin Gone
  /\ ~RepeatedQuit
  /\ quit' = TRUE
  /\ quitOrigin' = "user"
  /\ userAt' = [userAt EXCEPT ![u] = "wakeup"]
  /\ UNCHANGED <<control, clock, queues, wakeupFd>>

Wakeup(u) ==
  /\ userAt[u] = "wakeup"
  /\ phase \notin Gone
  /\ wakeupFd' = Written(wakeupFd)
  /\ userAt' = [userAt EXCEPT ![u] = "idle"]
  /\ UNCHANGED <<control, clock, queues, quitting>>

------------------------------------------------------------------------------
(* Calls made by the loop thread itself, from one of its callbacks or before  *)
(* loop().  There isInLoopThread() holds.                                     *)

\* In the destructor the push may reallocate the vector its range-for iterates
\* over (undefined behaviour); if it does not, the new element is never reached.
LoopQueueInLoop(t) ==
  /\ InLoopCode
  /\ origin[t] = "none"
  /\ pendingFunctors' = Append(pendingFunctors, t)
  /\ origin' = [origin EXCEPT ![t] = phase]
  /\ wakeupFd' = IF callingPendingFunctors THEN Written(wakeupFd) ELSE wakeupFd
  /\ phase' \in {phase} \cup (IF phase = "drain" THEN {"crashed"} ELSE {})
  /\ inCallback' = (inCallback /\ phase' # "crashed")
  /\ UNCHANGED <<looping, callingPendingFunctors, activeChannels, clock,
                 quitting, functors, executed, userAt>>

LoopQuit ==
  /\ InLoopCode
  /\ quit' = TRUE
  /\ quitOrigin' = phase
  /\ UNCHANGED <<control, clock, queues, wakeupFd, userAt>>

\* runAt, runAfter, runEvery: in the loop thread addTimerInLoop runs inline.
LoopAddTimer ==
  /\ InLoopCode
  /\ timers < MaxTimers
  /\ timers' = timers + 1
  /\ UNCHANGED <<control, queues, quitting, wakeupFd, userAt, due>>

LoopCancelTimer ==
  /\ InLoopCode
  /\ timers > 0
  /\ timers' = timers - 1
  /\ due' \in {d \in {due - 1, due} : d \in 0..timers'}  \* it may have been due
  /\ UNCHANGED <<control, queues, quitting, wakeupFd, userAt>>

CallbackReturn ==
  /\ inCallback
  /\ inCallback' = FALSE
  /\ UNCHANGED <<phase, looping, callingPendingFunctors, activeChannels, clock,
                 queues, quitting, wakeupFd, userAt>>

------------------------------------------------------------------------------
(* EventLoop::loop, one action per step of an iteration.                      *)

Loop ==
  /\ phase = "idle"
  /\ ~looping
  /\ looping' = TRUE
  /\ quit' = FALSE
  /\ quitOrigin' = "none"
  /\ phase' = "head"
  /\ UNCHANGED <<inCallback, callingPendingFunctors, activeChannels, clock,
                 queues, wakeupFd, userAt>>

\* while (!m_quit): leave, or clear m_activeChannels, read the clock (which
\* decides how many armed timers are due) and enter expiredProcess.
CheckQuit ==
  /\ phase = "head"
  /\ IF quit
     THEN /\ phase' = "stopped"
          /\ looping' = FALSE
          /\ UNCHANGED <<activeChannels, due>>
     ELSE /\ phase' = "timers"
          /\ activeChannels' = {}
          /\ due' \in 0..timers
          /\ UNCHANGED looping
  /\ UNCHANGED <<inCallback, callingPendingFunctors, timers, queues, quitting,
                 wakeupFd, userAt>>

\* expiredProcess pops a due timer and runs it; a repeating one is armed again.
RunTimer ==
  /\ phase = "timers" /\ ~inCallback
  /\ due > 0
  /\ due' = due - 1
  /\ timers' \in {timers - 1, timers}
  /\ due' <= timers'
  /\ inCallback' = TRUE
  /\ UNCHANGED <<phase, looping, callingPendingFunctors, activeChannels,
                 queues, quitting, wakeupFd, userAt>>

\* earliestExpiredTime: with any active timer poll is called with timeout 0.
PollTimeoutZero == timers > 0

EnterPoll ==
  /\ phase = "timers" /\ ~inCallback
  /\ due = 0
  /\ phase' = "poll"
  /\ UNCHANGED <<inCallback, looping, callingPendingFunctors, activeChannels,
                 clock, queues, quitting, wakeupFd, userAt>>

\* poll returns: with ready channels, or with none because its timeout has
\* passed (0 with an active timer, otherwise kPollTimeMs) or of EINTR.
Poll(ready) ==
  /\ phase = "poll"
  /\ "wakeup" \in ready <=> wakeupFd > 0
  /\ phase' = "events"
  /\ activeChannels' = ready
  /\ UNCHANGED <<inCallback, looping, callingPendingFunctors, clock, queues,
                 quitting, wakeupFd, userAt>>

\* handleEvent of one active channel: handleRead of the wakeup channel ...
HandleWakeup ==
  /\ phase = "events" /\ ~inCallback
  /\ "wakeup" \in activeChannels
  /\ activeChannels' = activeChannels \ {"wakeup"}
  /\ wakeupFd' = AfterRead(wakeupFd)
  /\ UNCHANGED <<phase, inCallback, looping, callingPendingFunctors, clock,
                 queues, quitting, userAt>>

\* ... or the callbacks of another one.
HandleEvent ==
  /\ phase = "events" /\ ~inCallback
  /\ "io" \in activeChannels
  /\ activeChannels' = activeChannels \ {"io"}
  /\ inCallback' = TRUE
  /\ UNCHANGED <<phase, looping, callingPendingFunctors, clock, queues,
                 quitting, wakeupFd, userAt>>

EventsDone ==
  /\ phase = "events" /\ ~inCallback
  /\ activeChannels = {}
  /\ callingPendingFunctors' = TRUE
  /\ phase' = "swap"
  /\ UNCHANGED <<inCallback, looping, activeChannels, clock, queues, quitting,
                 wakeupFd, userAt>>

\* mutant: the queue is copied, not swapped, so its tasks run again.
SwapKeepsPending ==
  /\ phase = "swap"
  /\ functors' = pendingFunctors
  /\ phase' = "functors"
  /\ UNCHANGED <<inCallback, looping, callingPendingFunctors, activeChannels, clock,
                 quitting, wakeupFd, userAt, pendingFunctors, executed, origin>>

\* functors.swap(m_pendingFunctors) under m_mutex.
SwapFunctors ==
  /\ phase = "swap"
  /\ functors' = pendingFunctors
  /\ pendingFunctors' = <<>>
  /\ phase' = "functors"
  /\ UNCHANGED <<inCallback, looping, callingPendingFunctors, activeChannels,
                 clock, quitting, wakeupFd, userAt, executed, origin>>

\* functor(), in doPendingFunctors or in the destructor.
RunFunctor ==
  /\ phase \in {"functors", "drain"} /\ ~inCallback
  /\ functors # <<>>
  /\ functors' = Tail(functors)
  /\ executed' = Append(executed, Head(functors))
  /\ inCallback' = TRUE
  /\ UNCHANGED <<phase, looping, callingPendingFunctors, activeChannels, clock,
                 quitting, wakeupFd, userAt, pendingFunctors, origin>>

FunctorsDone ==
  /\ phase = "functors" /\ ~inCallback
  /\ functors = <<>>
  /\ callingPendingFunctors' = FALSE
  /\ phase' = "head"
  /\ UNCHANGED <<inCallback, looping, activeChannels, clock, queues, quitting,
                 wakeupFd, userAt>>

------------------------------------------------------------------------------
(* EventLoop::~EventLoop, called in the loop thread.                          *)

BeginDestructor ==
  /\ phase = "stopped"
  /\ \A u \in Users : userAt[u] = "idle"
  /\ functors' = pendingFunctors
  /\ pendingFunctors' = <<>>
  /\ phase' = "drain"
  /\ UNCHANGED <<inCallback, looping, callingPendingFunctors, activeChannels, clock,
                 quitting, wakeupFd, userAt, executed, origin>>

EndDestructor ==
  /\ phase = "drain" /\ ~inCallback
  /\ functors = <<>>
  /\ phase' = "destroyed"
  /\ UNCHANGED <<inCallback, looping, callingPendingFunctors, activeChannels, clock,
                 queues, quitting, wakeupFd, userAt>>

LoopThread ==
  \/ Loop \/ CheckQuit \/ RunTimer \/ EnterPoll
  \/ \E ready \in SUBSET LoopChannels : Poll(ready)
  \/ HandleWakeup \/ HandleEvent \/ EventsDone
  \/ SwapFunctors \/ RunFunctor \/ FunctorsDone \/ CallbackReturn
  \/ BeginDestructor \/ EndDestructor

LoopCode ==
  \/ LoopQuit \/ LoopAddTimer \/ LoopCancelTimer
  \/ \E t \in Tasks : LoopQueueInLoop(t)

OtherThreads == \E u \in Users :
  \/ Quit(u) \/ Wakeup(u)
  \/ \E t \in Tasks : QueueInLoop(u, t)

Next == LoopThread \/ LoopCode \/ OtherThreads

Spec == Init /\ [][Next]_vars

------------------------------------------------------------------------------
(* Fairness.  The loop thread runs whenever it can, except that it is not      *)
(* assumed to be rescued from poll by I/O or by the 10 s of kPollTimeMs: poll  *)
(* has to return only if the wakeup descriptor is readable or its timeout is   *)
(* 0.  Callbacks return, and a thread that has queued does call wakeup().      *)
(* Owners call loop() and, once it has returned, destroy the loop.             *)

PollPrompt ==
  /\ wakeupFd > 0 \/ PollTimeoutZero
  /\ \E ready \in SUBSET LoopChannels : Poll(ready)

LoopThreadPrompt ==
  \/ Loop \/ CheckQuit \/ RunTimer \/ EnterPoll \/ PollPrompt
  \/ HandleWakeup \/ HandleEvent \/ EventsDone
  \/ SwapFunctors \/ RunFunctor \/ FunctorsDone \/ CallbackReturn
  \/ BeginDestructor \/ EndDestructor

Fairness ==
  /\ WF_vars(LoopThreadPrompt)
  /\ \A u \in Users : WF_vars(Wakeup(u))

FairSpec == Spec /\ Fairness

------------------------------------------------------------------------------
(* Properties.                                                                *)

IsExecuted(t) == t \in ToSet(executed)
IsPending(t) == t \in ToSet(pendingFunctors)

\* Poll would block until its 10 s are over or some unrelated I/O arrives.
Asleep ==
  /\ phase = "poll"
  /\ wakeupFd = 0
  /\ ~PollTimeoutZero
  /\ \A u \in Users : userAt[u] = "idle"

\* The loop implements the promise of queueInLoop: functors run one at a time,
\* each at most once, in the order queued, whoever queued them, whatever the
\* swap of the two vectors and the destructor do meanwhile.
TQ == INSTANCE TaskQueue WITH queue <- functors \o pendingFunctors
ImplementsTaskQueue == TQ!Spec

\* queueInLoop never leaves the loop asleep on a functor that another thread,
\* an event callback or another functor has queued.
NoLostWakeup ==
  Asleep => \A t \in Tasks : IsPending(t) => origin[t] \in {"timers", "idle"}

\* quit never leaves the loop asleep either, when it comes from there.
NoSleepAfterQuit == Asleep /\ quit => quitOrigin = "timers"

\* The loop never sleeps on work that another thread, an event callback or a
\* functor has given it: queueInLoop and quit() decide rightly, from the flags
\* they read, when the wakeup descriptor is needed.
NeverAsleepOnWork == NoLostWakeup /\ NoSleepAfterQuit

\* The destructor runs every functor queued before it began, even if those
\* functors queue others.
DestructorRunsQueue ==
  phase = "destroyed" =>
    \A t \in Tasks : origin[t] \in {"none", "drain"} \/ IsExecuted(t)

\* Nothing that the loop has been given stays undone: neither because it sleeps
\* nor because it is destroyed.
NothingForgotten == NeverAsleepOnWork /\ DestructorRunsQueue

\* A functor that does not come from a timer callback or from code before
\* loop() is executed without the help of the poll timeout.
FunctorServed ==
  \A t \in Tasks : origin[t] \in {"user", "events", "functors"}
                    ~> (IsExecuted(t) \/ phase = "crashed")

\* A running loop that is asked to quit, by anyone but a timer callback, stops.
QuitServed == (looping /\ quit /\ quitOrigin # "timers") ~> ~looping

\* Whatever the loop is asked for across threads happens, without the help of
\* the poll timeout: queued functors run, and quit() ends the loop.
RequestsServed == FunctorServed /\ QuitServed
=============================================================================

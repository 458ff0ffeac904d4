----------------------------- MODULE TimerQueue -----------------------------
(****************************************************************************)
(* sznet::TimerQueue in its loop: addTimer and cancel are called by any       *)
(* thread and executed in the loop thread, inline when the caller is the loop *)
(* thread and through queueInLoop otherwise; expiredProcess runs the expired  *)
(* timers, whose callbacks may add and cancel timers in turn.                 *)
(*                                                                            *)
(* Timer objects live at addresses that the allocator reuses.  The heap is    *)
(* abstracted to the set of addresses in it, with top() an earliest one:      *)
(* MinHeap.tla shows that the real heap does that.                            *)
(****************************************************************************)
EXTENDS Integers, Sequences, SequencesExt, FiniteSets

CONSTANTS
  Addrs,        \* addresses of Timer objects
  Free,         \* the content of an address with no Timer at it
  None,         \* no address, no id
  Users,        \* the other threads that call addTimer and cancel
  Interval,     \* the interval of repeating timers
  MaxSeq,       \* bound: timers created
  MaxTime,      \* bound: the clock
  MaxPending    \* bound: functors in the loop's queue

VARIABLES
  timer,      \* the Timer at each address, or Free
  heap,       \* m_timerMinHeap: the addresses in it
  active,     \* m_activeTimers: <<address, sequence>>
  pending,    \* the functors of this queue in m_pendingFunctors
  numCreated, \* Timer::m_s_numCreated
  now,        \* the time
  pollTime,   \* the time passed to expiredProcess
  phase,      \* "idle": the loop thread is outside expiredProcess;
              \* "pass": between two timers; "run": in a timer's callback
  running,    \* the timer whose callback runs
  fault,      \* a failed assert() or a use of freed memory
  adding,     \* the Timer each other thread has queued in addTimer and whose
              \* number it has yet to read
  ids,        \* history: the TimerIds handed out, with the timers they are for
  ran,        \* history: the timers that have run
  cancels,    \* history: timers some cancel() has asked for
  stopped     \* history: timers that cancelInLoop has found and deleted

vars == <<timer, heap, active, pending, numCreated, now, pollTime, phase,
          running, fault, adding, ids, ran, cancels, stopped>>

Seqs == 0..(MaxSeq - 1)
Timer == [seq : Seqs, exp : 0..(MaxTime + 1 + Interval), repeat : BOOLEAN]
TimerId == Addrs \X Seqs
Functor == [op : {"add", "cancel"}, id : TimerId]
Handed == [meant : Seqs, id : TimerId]

ASSUME TimerAssumption ==
  /\ None \notin Addrs \cup TimerId
  /\ Interval \in Nat /\ MaxSeq \in Nat /\ MaxTime \in Nat /\ MaxPending \in Nat
  /\ Free \notin Timer

TypeOK ==
  /\ timer \in [Addrs -> Timer \cup {Free}]
  /\ heap \in SUBSET Addrs
  /\ active \in SUBSET TimerId
  /\ pending \in Seq(Functor)
  /\ numCreated \in 0..MaxSeq
  /\ now \in 0..MaxTime
  /\ pollTime \in 0..MaxTime
  /\ phase \in {"idle", "pass", "run", "destroyed"}
  /\ running \in Addrs \cup {None}
  /\ fault \in {"none", "assert", "use after free", "read after free"}
  /\ adding \in [Users -> TimerId \cup {None}]
  /\ ids \in SUBSET Handed
  /\ ran \in SUBSET Seqs
  /\ cancels \in SUBSET Seqs
  /\ stopped \in SUBSET Seqs

Init ==
  /\ timer = [a \in Addrs |-> Free]
  /\ heap = {}
  /\ active = {}
  /\ pending = <<>>
  /\ numCreated = 0
  /\ now = 0
  /\ pollTime = 0
  /\ phase = "idle"
  /\ running = None
  /\ fault = "none"
  /\ adding = [u \in Users |-> None]
  /\ ids = {}
  /\ ran = {}
  /\ cancels = {}
  /\ stopped = {}

IdOf(a) == <<a, timer[a].seq>>
history == <<adding, ids, ran, cancels, stopped>>
clock == <<now, pollTime>>

------------------------------------------------------------------------------
(* The parts of the queue executed in the loop thread.                        *)

\* What assert(m_timerMinHeap.size() == m_activeTimers.size()) and the asserts
\* on the outcome of an insert or an erase make of it.
Asserted(ok) ==
  IF ~(ok /\ Cardinality(heap) = Cardinality(active)) THEN "assert" ELSE fault

\* addTimerInLoop
AddInLoop(a, t) ==
  /\ heap' = heap \cup {a}
  /\ active' = active \cup {<<a, t.seq>>}
  /\ fault' = Asserted(<<a, t.seq>> \notin active)

\* mutant: a TimerId is looked up by its address alone.
CancelByAddress(id) ==
  LET found == \E s \in Seqs : <<id[1], s>> \in active
  IN /\ heap' = IF found THEN heap \ {id[1]} ELSE heap
     /\ active' = {i \in active : i[1] # id[1]}
     /\ timer' = [timer EXCEPT ![id[1]] = IF found THEN Free ELSE @]
     /\ UNCHANGED fault

\* mutant: the timer is deleted without leaving the heap.
CancelKeepsHeap(id) ==
  LET found == id \in active
  IN /\ UNCHANGED heap
     /\ active' = active \ {id}
     /\ timer' = [timer EXCEPT ![id[1]] = IF found THEN Free ELSE @]
     /\ UNCHANGED fault

\* cancelInLoop.  (The call of erase() is an argument of assert(): a build
\* without assertions leaves the address in the heap.)
CancelInLoop(id) ==
  LET found == id \in active
  IN /\ heap' = IF found THEN heap \ {id[1]} ELSE heap
     /\ active' = active \ {id}
     /\ timer' = [timer EXCEPT ![id[1]] = IF found THEN Free ELSE @]
     /\ fault' = Asserted(found => id[1] \in heap)

------------------------------------------------------------------------------
(* addTimer and cancel.                                                       *)

\* History: a cancelInLoop about to be executed finds its timer or not.
NoteCancel(id) == stopped' = IF id \in active THEN stopped \cup {id[2]} ELSE stopped

\* The Timer's constructor: the next number is taken.
NewTimer(a, t) ==
  /\ numCreated < MaxSeq
  /\ timer[a] = Free
  /\ t \in [seq : {numCreated}, exp : now..(now + 1), repeat : BOOLEAN]
  /\ timer' = [timer EXCEPT ![a] = t]
  /\ numCreated' = numCreated + 1

\* History: an id is handed out to the creator of timer n.
HandOut(n, id) == ids' = ids \cup {[meant |-> n, id |-> id]}

\* From a callback of the loop thread: addTimerInLoop is called inline, and the
\* Timer is still there when its number is read.
LoopAddTimer(a, t) ==
  /\ phase \in {"idle", "run"}
  /\ NewTimer(a, t)
  /\ AddInLoop(a, t)
  /\ HandOut(t.seq, <<a, t.seq>>)
  /\ UNCHANGED <<pending, clock, phase, running, adding, ran, cancels, stopped>>

LoopCancel(i) ==
  /\ phase \in {"idle", "run"}
  /\ CancelInLoop(i.id)
  /\ cancels' = cancels \cup {i.meant}
  /\ NoteCancel(i.id)
  /\ UNCHANGED <<pending, numCreated, clock, phase, running, adding, ids, ran>>

\* From another thread: the Timer is created (nobody else knows it yet) and
\* handed to the loop thread.
AddTimer(u, a, t) ==
  /\ phase # "destroyed" /\ adding[u] = None
  /\ Len(pending) < MaxPending
  /\ NewTimer(a, t)
  /\ pending' = Append(pending, [op |-> "add", id |-> <<a, t.seq>>])
  /\ adding' = [adding EXCEPT ![u] = <<a, t.seq>>]
  /\ UNCHANGED <<heap, active, clock, phase, running, fault, ids, ran, cancels,
                 stopped>>

\* The return of that addTimer, TimerId(timer, timer->sequence()): by now the
\* loop thread may have run and deleted the Timer, and there may be another one
\* at its address, whose number the id then has.
ReadId(u) ==
  /\ adding[u] # None
  /\ LET a == adding[u][1]
     IN \/ /\ timer[a] # Free
           /\ HandOut(adding[u][2], <<a, timer[a].seq>>)
           /\ adding' = [adding EXCEPT ![u] = None]
           /\ UNCHANGED fault
        \/ /\ timer[a] = Free
           /\ fault' = "read after free"
           /\ UNCHANGED <<ids, adding>>
  /\ UNCHANGED <<timer, heap, active, pending, numCreated, clock, phase, running,
                 ran, cancels, stopped>>

Cancel(u, i) ==
  /\ phase # "destroyed" /\ adding[u] = None
  /\ Len(pending) < MaxPending
  /\ pending' = Append(pending, [op |-> "cancel", id |-> i.id])
  /\ cancels' = cancels \cup {i.meant}
  /\ UNCHANGED <<timer, heap, active, numCreated, clock, phase, running, fault,
                 adding, ids, ran, stopped>>

\* doPendingFunctors
RunFunctor ==
  /\ phase = "idle"
  /\ pending # <<>>
  /\ pending' = Tail(pending)
  /\ LET f == Head(pending)
     IN \/ /\ f.op = "add"
           /\ AddInLoop(f.id[1], timer[f.id[1]])
           /\ UNCHANGED <<timer, stopped>>
        \/ /\ f.op = "cancel"
           /\ CancelInLoop(f.id)
           /\ NoteCancel(f.id)
  /\ UNCHANGED <<numCreated, clock, phase, running, adding, ids, ran, cancels>>

------------------------------------------------------------------------------
(* expiredProcess.                                                            *)

BeginPass ==
  /\ phase = "idle"
  /\ pollTime' = now
  /\ phase' = "pass"
  /\ fault' = Asserted(TRUE)
  /\ UNCHANGED <<timer, heap, active, pending, numCreated, now, running, history>>

\* top(): reading a Timer that has been deleted is a use after free.
Dangling == \E a \in heap : timer[a] = Free
IsTop(a) == a \in heap /\ \A b \in heap : timer[a].exp <= timer[b].exp

\* mutant: the timer is popped after its callback has returned.
RunExpiredUnpopped(a) ==
  /\ phase = "pass" /\ ~Dangling
  /\ IsTop(a)
  /\ timer[a].exp <= pollTime
  /\ heap' = heap \ {a}
  /\ running' = a
  /\ phase' = "run"
  /\ ran' = ran \cup {timer[a].seq}
  /\ UNCHANGED <<active, timer, pending, numCreated, clock, adding, ids, cancels, stopped,
                 fault>>

\* Pop the earliest timer, if it is due, and call it.
RunExpired(a) ==
  /\ phase = "pass" /\ ~Dangling
  /\ IsTop(a)
  /\ timer[a].exp <= pollTime
  /\ heap' = heap \ {a}
  /\ active' = active \ {IdOf(a)}
  /\ fault' = Asserted(IdOf(a) \in active)
  /\ running' = a
  /\ phase' = "run"
  /\ ran' = ran \cup {timer[a].seq}
  /\ UNCHANGED <<timer, pending, numCreated, clock, adding, ids, cancels, stopped>>

\* mutant: a repeating timer's next expiration is computed and it is let go.
AfterRunNoReinsert ==
  /\ phase = "run"
  /\ timer' = [timer EXCEPT ![running] = Free]
  /\ UNCHANGED <<heap, active>>
  /\ running' = None
  /\ phase' = "pass"
  /\ UNCHANGED <<pending, numCreated, clock, fault, history>>

\* The callback has returned: restart the timer or delete it.
AfterRun ==
  /\ phase = "run"
  /\ LET t == [timer[running] EXCEPT !.exp = pollTime + Interval]
     IN IF timer[running].repeat
        THEN /\ timer' = [timer EXCEPT ![running] = t]
             /\ AddInLoop(running, t)
        ELSE /\ timer' = [timer EXCEPT ![running] = Free]
             /\ UNCHANGED <<heap, active, fault>>
  /\ running' = None
  /\ phase' = "pass"
  /\ UNCHANGED <<pending, numCreated, clock, history>>

\* No timer is due, or the test of the earliest one reads a deleted Timer.
EndPass ==
  /\ phase = "pass"
  /\ Dangling \/ \A a \in heap : timer[a].exp > pollTime
  /\ phase' = "idle"
  /\ fault' = IF Dangling THEN "use after free" ELSE Asserted(TRUE)
  /\ UNCHANGED <<timer, heap, active, pending, numCreated, clock, running, history>>

Tick ==
  /\ now < MaxTime
  /\ now' = now + 1
  /\ UNCHANGED <<timer, heap, active, pending, numCreated, pollTime, phase,
                 running, fault, history>>

\* mutant: ~TimerQueue deletes nothing.
DestroyLeaks ==
  /\ phase = "idle"
  /\ pending = <<>>
  /\ heap' = {}
  /\ active' = {}
  /\ phase' = "destroyed"
  /\ UNCHANGED <<timer, pending, numCreated, clock, running, fault, history>>

\* ~EventLoop has run the queue's functors; ~TimerQueue pops and deletes.  No
\* thread is still in a call of the queue, that is the owner's business.
Destroy ==
  /\ phase = "idle"
  /\ pending = <<>>
  /\ \A u \in Users : adding[u] = None
  /\ heap' = {}
  /\ active' = {}
  /\ timer' = [a \in Addrs |-> IF a \in heap THEN Free ELSE timer[a]]
  /\ phase' = "destroyed"
  /\ fault' = IF Dangling THEN "use after free" ELSE Asserted(TRUE)
  /\ UNCHANGED <<pending, numCreated, clock, running, history>>

LoopThread ==
  \/ RunFunctor \/ BeginPass \/ AfterRun \/ EndPass
  \/ \E a \in Addrs : RunExpired(a)

Calls ==
  \/ \E i \in ids : LoopCancel(i) \/ \E u \in Users : Cancel(u, i)
  \/ \E a \in Addrs, t \in Timer : LoopAddTimer(a, t) \/ \E u \in Users : AddTimer(u, a, t)
  \/ \E u \in Users : ReadId(u)

\* Nothing is said of a run after a fault.
Next ==
  /\ fault = "none"
  /\ LoopThread \/ Calls \/ Tick \/ Destroy

Spec == Init /\ [][Next]_vars

\* A loop in expiredProcess goes on, callbacks return.
FairSpec == Spec /\ WF_vars(fault = "none" /\ phase # "idle" /\ LoopThread)

------------------------------------------------------------------------------
(* Properties.                                                                *)

\* TimerQueue.h:83-85: the heap and the active set hold the same Timers, so that
\* no TimerId is deleted twice: same addresses, each once, and the object at
\* each address is the one the active set names.
SameTimers ==
  /\ heap = {id[1] : id \in active}
  /\ \A id \in active : timer[id[1]] # Free /\ timer[id[1]].seq = id[2]

\* A timer that has had its time: it has run or has been stopped, and there is
\* no Timer of its number any more.
Over(n) == n \in ran \cup stopped /\ \A a \in Addrs : timer[a] # Free => timer[a].seq # n

\* No assert() fails, and the only use of a deleted Timer is the one at
\* TimerQueue.cpp:59: a thread reads the number of the Timer it has queued when
\* the loop thread is already done with it.
NoFault ==
  /\ fault \in {"none", "read after free"}
  /\ fault = "read after free" =>
       \E u \in Users : adding[u] # None /\ Over(adding[u][2])

PendingAdds == {id \in TimerId : [op |-> "add", id |-> id] \in ToSet(pending)}

\* Every Timer object is owned once: by the queue, by a queued functor or by the
\* pass that runs it.  Nothing leaks, and nothing is deleted twice.
OwnedOnce ==
  LET queued == {id[1] : id \in PendingAdds}
      run == IF phase = "run" THEN {running} ELSE {}
  IN /\ {a \in Addrs : timer[a] # Free} = heap \cup queued \cup run
     /\ heap \cap queued = {} /\ heap \cap run = {} /\ queued \cap run = {}

\* Where the timers are, whatever callbacks and other threads add and cancel in
\* the middle of a pass: the two containers hold the same ones, each Timer has
\* one owner, no assertion fails, and nothing deleted is used but by addTimer.
TimersAccounted == SameTimers /\ OwnedOnce /\ NoFault

\* What addTimer's late read can do to an id: it names its own timer or, when
\* that one is over, a younger one that has got its address.
IdsName ==
  \A i \in ids : i.id[2] = i.meant \/ (i.meant < i.id[2] /\ Over(i.meant))

\* The timers that the ids of others name.
Misnamed == {i.id[2] : i \in {j \in ids : j.id[2] # j.meant}}

\* A timer whose creator has not cancelled it stays: until it has run, or for
\* good if it repeats.  In particular a stale TimerId never hits a timer that has
\* got the same address since; one that was read too late may.
UncancelledKept ==
  \A s \in Seqs :
    (s < numCreated /\ s \notin cancels \cup Misnamed /\ s \notin ran /\ phase # "destroyed")
      => \E a \in Addrs : <<a, s>> \in active \cup PendingAdds

RepeatingKept ==
  [][\A a \in Addrs :
       (timer[a] # Free /\ timer[a].repeat)
         => \/ timer'[a] # Free /\ timer'[a].seq = timer[a].seq
            \/ phase' = "destroyed"
            \/ timer[a].seq \in cancels' \cup Misnamed]_vars

\* A timer that cancelInLoop has found is gone for good: it is not in the queue,
\* is not on its way into it and does not run, whatever has been put at its
\* address since.
CancelIsFinal ==
  \A s \in stopped :
    /\ \A a \in Addrs : <<a, s>> \notin active \cup PendingAdds
    /\ phase = "run" => timer[running].seq # s

\* A cancel hits the timer it is for and nothing else, for good; only an id that
\* addTimer has read too late can be for one timer and name another.
CancelExact == IdsName /\ UncancelledKept /\ CancelIsFinal

\* A one-shot timer runs at most once, and no timer runs before its time.
RunsOnTime ==
  [][\A a \in Addrs : running' = a /\ running # a =>
       /\ timer[a].exp <= now
       /\ timer[a].repeat \/ timer[a].seq \notin ran]_vars

\* A pass over the expired timers ends.
PassEnds == (phase = "pass") ~> (phase \notin {"pass", "run"} \/ fault # "none")

\* Timers run when they should, repeating ones stay, and no pass goes on for
\* ever.
RunsAsAsked == RunsOnTime /\ RepeatingKept /\ PassEnds
=============================================================================

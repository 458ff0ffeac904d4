--------------------------- MODULE EventLoopThread ---------------------------
(****************************************************************************)
(* EventLoopThreadPool, EventLoopThread and Thread: the base loop's thread    *)
(* (the owner) starts N threads one after the other, waiting each time for a  *)
(* latch and then for the loop the thread creates on its stack, and at the    *)
(* end destroys the EventLoopThread objects one after the other.  The Kcp     *)
(* versions of the two classes do the same.                                   *)
(*                                                                            *)
(* Of a loop only m_quit is kept: that a running loop notices it is what      *)
(* EventLoop.tla shows.                                                       *)
(****************************************************************************)
EXTENDS Integers

CONSTANT N   \* threads of the pool (m_numThreads)

ASSUME ThreadAssumption == N \in Nat \ {0}

Threads == 1..N

VARIABLES
  ownerAt,    \* where the owner is
  cur,        \* the thread object the owner deals with
  at,         \* where each thread is
  latch,      \* Thread::m_latch: its count
  mLoop,      \* m_loop # nullptr
  loopQuit,   \* m_quit of the thread's loop
  loops,      \* m_loops: the threads whose loop startLoop has returned
  destroyed,  \* EventLoopThread objects that are gone
  poolFault,  \* a use of an object that is gone
  quitters    \* history: the threads whose own code has called quit() on the loop

poolVars == <<ownerAt, cur, at, latch, mLoop, loopQuit, loops, destroyed, poolFault, quitters>>

OwnerAt == {"create", "latch", "lock", "waiting", "serve", "destroy", "quit",
            "join", "gone"}
\* "cleared": m_loop is null again and the thread still holds m_mutex.
At == {"none", "entry", "construct", "publish", "enter", "looping", "left",
       "cleared", "done"}
Faults == {"none", "loop", "thread object"}

LoopAlive(i) == at[i] \in {"publish", "enter", "looping", "left", "cleared"}
MutexFree(i) == at[i] # "cleared"

PoolTypeOK ==
  /\ ownerAt \in OwnerAt
  /\ cur \in 1..(N + 1)
  /\ at \in [Threads -> At]
  /\ latch \in [Threads -> {0, 1}]
  /\ mLoop \in [Threads -> BOOLEAN]
  /\ loopQuit \in [Threads -> BOOLEAN]
  /\ loops \in SUBSET Threads
  /\ destroyed \in SUBSET Threads
  /\ poolFault \in Faults
  /\ quitters \in SUBSET Threads

PoolInit ==
  /\ ownerAt = "create"
  /\ cur = 1
  /\ at = [i \in Threads |-> "none"]
  /\ latch = [i \in Threads |-> 1]
  /\ mLoop = [i \in Threads |-> FALSE]
  /\ loopQuit = [i \in Threads |-> FALSE]
  /\ loops = {}
  /\ destroyed = {}
  /\ poolFault = "none"
  /\ quitters = {}

------------------------------------------------------------------------------
(* The owner: EventLoopThreadPool::start, startLoop and Thread::start.        *)

CreateThread ==
  /\ ownerAt = "create"
  /\ at' = [at EXCEPT ![cur] = "entry"]
  /\ ownerAt' = "latch"
  /\ UNCHANGED <<cur, latch, mLoop, loopQuit, loops, destroyed, poolFault, quitters>>

\* m_latch.wait() in Thread::start.
LatchOpen ==
  /\ ownerAt = "latch"
  /\ latch[cur] = 0
  /\ ownerAt' = "lock"
  /\ UNCHANGED <<cur, at, latch, mLoop, loopQuit, loops, destroyed, poolFault, quitters>>

\* while (m_loop == nullptr) m_cond.wait(); after the last thread start returns.
CheckLoop ==
  /\ ownerAt = "lock"
  /\ MutexFree(cur)
  /\ IF mLoop[cur]
     THEN /\ loops' = loops \cup {cur}
          /\ cur' = IF cur = N THEN 1 ELSE cur + 1
          /\ ownerAt' = IF cur = N THEN "serve" ELSE "create"
     ELSE /\ ownerAt' = "waiting"
          /\ UNCHANGED <<cur, loops>>
  /\ UNCHANGED <<at, latch, mLoop, loopQuit, destroyed, poolFault, quitters>>

(* The owner: destruction of the pool's EventLoopThreads in order.            *)

BeginDestroy ==
  /\ ownerAt = "serve"
  /\ ownerAt' = "destroy"
  /\ UNCHANGED <<cur, at, latch, mLoop, loopQuit, loops, destroyed, poolFault, quitters>>

Destroyed ==
  /\ destroyed' = destroyed \cup {cur}
  /\ cur' = cur + 1
  /\ ownerAt' = IF cur = N THEN "gone" ELSE "destroy"

\* if (m_loop != nullptr), read without m_mutex; otherwise the object goes at
\* once and ~Thread detaches the thread.
TestLoop ==
  /\ ownerAt = "destroy"
  /\ IF mLoop[cur]
     THEN ownerAt' = "quit" /\ UNCHANGED <<cur, destroyed>>
     ELSE Destroyed
  /\ UNCHANGED <<at, latch, mLoop, loopQuit, loops, poolFault, quitters>>

\* m_loop->quit(), the loop may have gone since the test.
QuitLoop ==
  /\ ownerAt = "quit"
  /\ IF LoopAlive(cur)
     THEN loopQuit' = [loopQuit EXCEPT ![cur] = TRUE] /\ UNCHANGED poolFault
     ELSE poolFault' = "loop" /\ UNCHANGED loopQuit
  /\ ownerAt' = "join"
  /\ UNCHANGED <<cur, at, latch, mLoop, loops, destroyed, quitters>>

\* mutant: the destructor does not wait for the thread.
JoinNothing ==
  /\ ownerAt = "join"
  /\ Destroyed
  /\ UNCHANGED <<at, latch, mLoop, loopQuit, loops, poolFault, quitters>>

JoinThread ==
  /\ ownerAt = "join"
  /\ at[cur] = "done"
  /\ Destroyed
  /\ UNCHANGED <<at, latch, mLoop, loopQuit, loops, poolFault, quitters>>

------------------------------------------------------------------------------
(* The thread: ThreadData::runInThread, then EventLoopThread::threadFunc.     *)

\* mutant: the latch is never counted down.
ThreadEntryNoLatch(i) ==
  /\ at[i] = "entry"
  /\ at' = [at EXCEPT ![i] = "construct"]
  /\ UNCHANGED <<ownerAt, cur, latch, mLoop, loopQuit, loops, destroyed, poolFault, quitters>>

ThreadEntry(i) ==
  /\ at[i] = "entry"
  /\ latch' = [latch EXCEPT ![i] = 0]
  /\ at' = [at EXCEPT ![i] = "construct"]
  /\ UNCHANGED <<ownerAt, cur, mLoop, loopQuit, loops, destroyed, poolFault, quitters>>

CallsQuit(i) ==
  /\ loopQuit' = [loopQuit EXCEPT ![i] = TRUE]
  /\ quitters' = quitters \cup {i}

\* EventLoop loop; m_callback(&loop).
ConstructLoop(i) ==
  /\ at[i] = "construct"
  /\ at' = [at EXCEPT ![i] = "publish"]
  /\ \/ UNCHANGED <<loopQuit, quitters>>
     \/ CallsQuit(i)
  /\ UNCHANGED <<ownerAt, cur, latch, mLoop, loops, destroyed, poolFault>>

PublishLoop(i) ==
  /\ at[i] = "publish"
  /\ mLoop' = [mLoop EXCEPT ![i] = TRUE]
  /\ ownerAt' = IF ownerAt = "waiting" /\ cur = i THEN "lock" ELSE ownerAt
  /\ at' = [at EXCEPT ![i] = "enter"]
  /\ UNCHANGED <<cur, latch, loopQuit, loops, destroyed, poolFault, quitters>>

\* loop.loop() begins: m_quit = false.
EnterLoop(i) ==
  /\ at[i] = "enter"
  /\ loopQuit' = [loopQuit EXCEPT ![i] = FALSE]
  /\ at' = [at EXCEPT ![i] = "looping"]
  /\ UNCHANGED <<ownerAt, cur, latch, mLoop, loops, destroyed, poolFault, quitters>>

\* A callback or functor of the loop calls quit().
QuitSelf(i) ==
  /\ at[i] = "looping"
  /\ CallsQuit(i)
  /\ UNCHANGED <<ownerAt, cur, at, latch, mLoop, loops, destroyed, poolFault>>

\* while (!m_quit) ends.
LeaveLoop(i) ==
  /\ at[i] = "looping"
  /\ loopQuit[i]
  /\ at' = [at EXCEPT ![i] = "left"]
  /\ UNCHANGED <<ownerAt, cur, latch, mLoop, loopQuit, loops, destroyed, poolFault, quitters>>

UsesThreadObject(i) == poolFault' = IF i \in destroyed THEN "thread object" ELSE poolFault

\* MutexLockGuard lock(m_mutex); m_loop = nullptr;
ClearLoop(i) ==
  /\ at[i] = "left"
  /\ UsesThreadObject(i)
  /\ mLoop' = [mLoop EXCEPT ![i] = FALSE]
  /\ at' = [at EXCEPT ![i] = "cleared"]
  /\ UNCHANGED <<ownerAt, cur, latch, loopQuit, loops, destroyed, quitters>>

\* The guard unlocks m_mutex and the loop is destroyed.
ThreadExit(i) ==
  /\ at[i] = "cleared"
  /\ UsesThreadObject(i)
  /\ at' = [at EXCEPT ![i] = "done"]
  /\ UNCHANGED <<ownerAt, cur, latch, mLoop, loopQuit, loops, destroyed, quitters>>

Owner ==
  \/ CreateThread \/ LatchOpen \/ CheckLoop
  \/ BeginDestroy \/ TestLoop \/ QuitLoop \/ JoinThread

Thread(i) ==
  \/ ThreadEntry(i) \/ ConstructLoop(i) \/ PublishLoop(i) \/ EnterLoop(i)
  \/ LeaveLoop(i) \/ ClearLoop(i) \/ ThreadExit(i)

\* Nothing is said of a run after a fault.
PoolNext ==
  /\ poolFault = "none"
  /\ Owner \/ \E i \in Threads : Thread(i) \/ QuitSelf(i)

PoolSpec == PoolInit /\ [][PoolNext]_poolVars

\* The scheduler runs every thread; the owner may serve for ever.
PoolFairness ==
  /\ WF_poolVars(poolFault = "none" /\ Owner /\ ~BeginDestroy)
  /\ \A i \in Threads : WF_poolVars(poolFault = "none" /\ Thread(i))

PoolFairSpec == PoolSpec /\ PoolFairness

------------------------------------------------------------------------------
(* Properties.                                                                *)

\* As long as only the owner asks loops to quit, neither side ever uses an
\* object the other one has destroyed.
PoolNoFault == poolFault # "none" => quitters # {}

\* What startLoop has returned is a loop, until its own destructor begins or its
\* own code ends it.
LoopsUsable ==
  \A i \in loops \ quitters :
    (ownerAt \in {"create", "latch", "lock", "waiting", "serve", "destroy"}
      /\ (ownerAt = "destroy" => i >= cur))
    => mLoop[i] /\ LoopAlive(i)

\* An EventLoopThread object outlives its thread, unless the thread ends by
\* itself: then the destructor may find no loop and join nothing.
JoinedBeforeDestroyed == \A i \in destroyed \ quitters : at[i] = "done"

\* startLoop returns no loop before its thread has published it, and the latch
\* of Thread::start does not stand in for that.
ReturnedOnceCreated ==
  \A i \in loops : at[i] \notin {"none", "entry", "construct", "publish"}

\* The objects of owner and thread: a loop is returned after its creation and
\* before its end, and both sides' objects outlive their last use by the other.
LifetimesNest == PoolNoFault /\ JoinedBeforeDestroyed /\ LoopsUsable /\ ReturnedOnceCreated

\* The state is of its types, and nobody uses what is not there.
Sound == PoolTypeOK /\ LifetimesNest

\* EventLoopThreadPool::start returns: no thread start and no wait for a loop
\* hangs.  (If a loop ends between its publication and the owner's look at
\* m_loop, startLoop waits for ever.)
StartReturns == (ownerAt = "create") ~> (ownerAt = "serve" \/ quitters # {})

\* A loop asked to quit while it runs ends, and its thread with it.
QuitEndsThread ==
  \A i \in Threads : (at[i] = "looping" /\ loopQuit[i])
                    ~> (at[i] = "done" \/ poolFault # "none")

\* Neither the start nor the end of a thread hangs.
NothingHangs == StartReturns /\ QuitEndsThread
=============================================================================

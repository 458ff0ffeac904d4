--------------------------- MODULE EventLoopProofs ---------------------------
(****************************************************************************)
(* What EventLoop.tla guarantees for any set of functors and threads,         *)
(* EventLoopThread.tla for any number of loops and SelectPoller.tla for any   *)
(* channels and descriptors, proved.                                          *)
(****************************************************************************)
EXTENDS EventLoop, EventLoopThread, SelectPoller, SequenceTheorems, TLAPS

(* The elements of a sequence.                                              *)

\* A vector with nothing in it has no elements.
LEMMA ToSetEmpty == ToSet(<<>>) = {}
  BY DEF ToSet

\* The elements of a sequence over S are in S.
LEMMA ToSetSubset ==
  ASSUME NEW S, NEW s \in Seq(S)
  PROVE  ToSet(s) \subseteq S
  BY LenProperties DEF ToSet

\* push_back adds its argument and nothing else.
LEMMA ToSetAppend ==
  ASSUME NEW S, NEW s \in Seq(S), NEW e \in S
  PROVE  ToSet(Append(s, e)) = ToSet(s) \cup {e}
<1>1. /\ DOMAIN s = 1..Len(s)
      /\ DOMAIN Append(s, e) = 1..(Len(s) + 1)
      /\ Len(s) \in Nat
  BY AppendProperties, LenProperties
<1>2. ToSet(Append(s, e)) \subseteq ToSet(s) \cup {e}
  BY <1>1, AppendProperties DEF ToSet
<1>3. ToSet(s) \cup {e} \subseteq ToSet(Append(s, e))
  BY <1>1, AppendProperties DEF ToSet
<1>4. QED  BY <1>2, <1>3

\* Taking the first element off splits the elements into it and the rest.
LEMMA ToSetHeadTail ==
  ASSUME NEW S, NEW s \in Seq(S), s # <<>>
  PROVE  ToSet(s) = {Head(s)} \cup ToSet(Tail(s))
<1>1. /\ DOMAIN s = 1..Len(s)
      /\ DOMAIN Tail(s) = 1..(Len(s) - 1)
      /\ Len(s) \in Nat \ {0}
      /\ Head(s) = s[1]
      /\ \A i \in 1..(Len(s) - 1) : Tail(s)[i] = s[i + 1]
  BY HeadTailProperties, LenProperties, EmptySeq
<1>2. ToSet(s) \subseteq {Head(s)} \cup ToSet(Tail(s))
  <2> SUFFICES ASSUME NEW i \in 1..Len(s), i # 1
               PROVE  s[i] \in ToSet(Tail(s))
    BY <1>1 DEF ToSet
  <2>1. i - 1 \in 1..(Len(s) - 1) /\ s[i] = Tail(s)[i - 1]
    BY <1>1
  <2>2. QED  BY <2>1, <1>1 DEF ToSet
<1>3. {Head(s)} \cup ToSet(Tail(s)) \subseteq ToSet(s)
  BY <1>1 DEF ToSet
<1>4. QED  BY <1>2, <1>3

\* Concatenation joins the elements.
LEMMA ToSetConcat ==
  ASSUME NEW S, NEW s \in Seq(S), NEW t \in Seq(S)
  PROVE  ToSet(s \o t) = ToSet(s) \cup ToSet(t)
<1>1. /\ DOMAIN s = 1..Len(s)
      /\ DOMAIN t = 1..Len(t)
      /\ DOMAIN (s \o t) = 1..(Len(s) + Len(t))
      /\ Len(s) \in Nat /\ Len(t) \in Nat
  BY ConcatProperties, LenProperties
<1>2. \A i \in 1..(Len(s) + Len(t)) :
        (s \o t)[i] = IF i <= Len(s) THEN s[i] ELSE t[i - Len(s)]
  BY ConcatProperties
<1>3. ToSet(s \o t) \subseteq ToSet(s) \cup ToSet(t)
  BY <1>1, <1>2 DEF ToSet
<1>4. ToSet(s) \subseteq ToSet(s \o t)
  BY <1>1, <1>2 DEF ToSet
<1>5. ToSet(t) \subseteq ToSet(s \o t)
  <2> SUFFICES ASSUME NEW i \in 1..Len(t)
               PROVE  t[i] \in ToSet(s \o t)
    BY <1>1 DEF ToSet
  <2>1. i + Len(s) \in 1..(Len(s) + Len(t)) /\ (s \o t)[i + Len(s)] = t[i]
    BY <1>1, <1>2
  <2>2. QED  BY <2>1, <1>1 DEF ToSet
<1>6. QED  BY <1>3, <1>4, <1>5

\* A push on the second of two concatenated sequences is a push on the whole.
LEMMA ConcatAppend ==
  ASSUME NEW S, NEW s \in Seq(S), NEW t \in Seq(S), NEW e \in S
  PROVE  s \o Append(t, e) = Append(s \o t, e)
<1>1. <<e>> \in Seq(S)
  OBVIOUS
<1>2. s \o Append(t, e) = s \o (t \o <<e>>)
  BY AppendIsConcat
<1>3. Append(s \o t, e) = (s \o t) \o <<e>>
  BY AppendIsConcat, ConcatProperties
<1>4. QED  BY <1>1, <1>2, <1>3, ConcatAssociative

\* Taking the first element off the first of two is taking it off the whole.
LEMMA ConcatHeadTail ==
  ASSUME NEW S, NEW s \in Seq(S), NEW t \in Seq(S), s # <<>>
  PROVE  /\ s \o t # <<>>
         /\ Head(s \o t) = Head(s)
         /\ Tail(s \o t) = Tail(s) \o t
<1>1. Len(s) \in Nat \ {0} /\ Len(t) \in Nat
  BY EmptySeq, LenProperties
<1>2. s \o t \in Seq(S) /\ Len(s \o t) = Len(s) + Len(t) /\ s \o t # <<>>
  BY <1>1, ConcatProperties, EmptySeq
<1>3. \A i \in 1..(Len(s) + Len(t)) :
        (s \o t)[i] = IF i <= Len(s) THEN s[i] ELSE t[i - Len(s)]
  BY ConcatProperties
<1>4. /\ Tail(s) \in Seq(S) /\ Len(Tail(s)) = Len(s) - 1
      /\ \A i \in 1..(Len(s) - 1) : Tail(s)[i] = s[i + 1]
  BY HeadTailProperties
<1>5. /\ Tail(s \o t) \in Seq(S) /\ Len(Tail(s \o t)) = Len(s) + Len(t) - 1
      /\ \A i \in 1..(Len(s) + Len(t) - 1) : Tail(s \o t)[i] = (s \o t)[i + 1]
  BY <1>2, HeadTailProperties
<1>6. /\ Tail(s) \o t \in Seq(S) /\ Len(Tail(s) \o t) = Len(s) - 1 + Len(t)
      /\ \A i \in 1..(Len(s) - 1 + Len(t)) :
           (Tail(s) \o t)[i] = IF i <= Len(s) - 1 THEN Tail(s)[i]
                               ELSE t[i - (Len(s) - 1)]
  BY <1>4, ConcatProperties
<1>7. \A i \in 1..(Len(s) + Len(t) - 1) : Tail(s \o t)[i] = (Tail(s) \o t)[i]
  BY <1>1, <1>3, <1>4, <1>5, <1>6
<1>8. Tail(s \o t) = Tail(s) \o t
  BY <1>1, <1>5, <1>6, <1>7, SeqEqual
<1>9. Head(s \o t) = Head(s)
  BY <1>1, <1>3
<1>10. QED  BY <1>2, <1>8, <1>9

------------------------------------------------------------------------------
USE LoopAssumption DEF LoopAssumption

Awake == wakeupFd > 0 \/ \E u \in Users : userAt[u] = "wakeup"

CallbackPhases == {"timers", "events", "functors", "drain"}

\* A callback runs only where the loop runs callbacks.
CallbackInv == inCallback => phase \in CallbackPhases

\* m_callingPendingFunctors is set exactly while doPendingFunctors runs.
CallingInv == callingPendingFunctors <=> phase \in {"swap", "functors"}

\* There is a batch only while it is being iterated over.
FunctorsInv == phase \notin {"functors", "drain", "crashed"} => functors = <<>>

\* From the moment doPendingFunctors has taken its batch until poll returns, a
\* functor that is not due to a timer or to code before loop() means a wakeup.
WakeupInv ==
  phase \in {"idle", "functors", "head", "timers", "poll"} =>
    \A t \in ToSet(pendingFunctors) : origin[t] \in {"timers", "idle"} \/ Awake

\* The same for quit, from the test of m_quit until poll returns.
QuitInv ==
  phase \in {"timers", "poll"} /\ quit => quitOrigin = "timers" \/ Awake

\* No functor is lost, and no functor is there that nobody queued.
KnownInv ==
  \A t \in Tasks :
    origin[t] # "none" <=>
      t \in ToSet(pendingFunctors) \cup ToSet(functors) \cup ToSet(executed)

\* Once the destructor runs, only what its own functors queue is left over.
DrainInv ==
  /\ phase \in {"drain", "destroyed"} =>
       \A t \in ToSet(pendingFunctors) : origin[t] = "drain"
  /\ phase \in {"drain", "destroyed", "crashed"} => \A u \in Users : userAt[u] = "idle"

------------------------------------------------------------------------------
(* Types, with the two facts about phases they need.                          *)

TInv == TypeOK /\ CallbackInv

LEMMA TypeInit == Init => TInv
<1> SUFFICES ASSUME Init  PROVE TInv
  OBVIOUS
<1>1. <<>> \in Seq(Tasks)
  OBVIOUS
<1>2. userAt \in [Users -> {"idle", "wakeup"}] /\ origin \in [Tasks -> Origins \cup {"none"}]
  BY DEF Init
<1>3. timers \in 0..MaxTimers /\ due \in 0..MaxTimers /\ wakeupFd \in 0..WakeupCapacity
  BY DEF Init
<1>4. QED
  BY <1>1, <1>2, <1>3, Zenon DEF Init, TInv, TypeOK, CallbackInv, Phases, LoopChannels, Origins

\* Every step of the loop thread keeps the types.
LEMMA TypeLoopThread ==
  ASSUME TInv, LoopThread
  PROVE  TInv'
<1> USE DEF TInv, TypeOK, CallbackInv, CallbackPhases, Phases, Origins, LoopChannels,
            control, clock, queues, quitting
<1>1. CASE Loop  BY <1>1 DEF Loop
<1>2. CASE CheckQuit
  <2>1. CASE quit  BY <1>2, <2>1 DEF CheckQuit
  <2>2. CASE ~quit  BY <1>2, <2>2 DEF CheckQuit
  <2>3. QED  BY <2>1, <2>2
<1>3. CASE RunTimer  BY <1>3 DEF RunTimer
<1>4. CASE EnterPoll  BY <1>4 DEF EnterPoll
<1>5. CASE \E ready \in SUBSET LoopChannels : Poll(ready)  BY <1>5 DEF Poll
<1>6. CASE HandleWakeup  BY <1>6 DEF HandleWakeup, AfterRead, ReadLess
<1>7. CASE HandleEvent  BY <1>7 DEF HandleEvent
<1>8. CASE EventsDone  BY <1>8 DEF EventsDone
<1>9. CASE SwapFunctors  BY <1>9, EmptySeq DEF SwapFunctors
<1>10. CASE RunFunctor
  <2>1. Head(functors) \in Tasks /\ Tail(functors) \in Seq(Tasks)
    BY <1>10, HeadTailProperties DEF RunFunctor
  <2>2. Append(executed, Head(functors)) \in Seq(Tasks)
    BY <2>1, AppendProperties
  <2>3. QED  BY <1>10, <2>1, <2>2 DEF RunFunctor
<1>11. CASE FunctorsDone  BY <1>11 DEF FunctorsDone
<1>12. CASE CallbackReturn  BY <1>12 DEF CallbackReturn
<1>13. CASE BeginDestructor  BY <1>13, EmptySeq DEF BeginDestructor
<1>14. CASE EndDestructor  BY <1>14 DEF EndDestructor
<1>15. QED
  BY <1>1, <1>2, <1>3, <1>4, <1>5, <1>6, <1>7, <1>8, <1>9, <1>10, <1>11, <1>12,
     <1>13, <1>14 DEF LoopThread

\* So does every call made by a callback.
LEMMA TypeLoopCode ==
  ASSUME TInv, LoopCode
  PROVE  TInv'
<1> USE DEF TInv, TypeOK, CallbackInv, CallbackPhases, Phases, Origins, LoopChannels,
            control, clock, queues, quitting
<1>1. CASE LoopQuit  BY <1>1 DEF LoopQuit, InLoopCode
<1>2. CASE LoopAddTimer  BY <1>2 DEF LoopAddTimer
<1>3. CASE LoopCancelTimer  BY <1>3 DEF LoopCancelTimer
<1>4. ASSUME NEW t \in Tasks, LoopQueueInLoop(t)  PROVE TInv'
  <2>1. Append(pendingFunctors, t) \in Seq(Tasks)
    BY AppendProperties
  <2>2. phase \in Origins
    BY <1>4 DEF LoopQueueInLoop, InLoopCode
  <2>3. wakeupFd' \in 0..WakeupCapacity
    BY <1>4 DEF LoopQueueInLoop, Written
  <2>4. phase' \in Phases /\ (inCallback' => phase' \in CallbackPhases) /\ inCallback' \in BOOLEAN
    BY <1>4 DEF LoopQueueInLoop
  <2>5. QED  BY <1>4, <2>1, <2>2, <2>3, <2>4 DEF LoopQueueInLoop
<1>5. QED  BY <1>1, <1>2, <1>3, <1>4 DEF LoopCode

\* And every call made by another thread.
LEMMA TypeOtherThreads ==
  ASSUME TInv, OtherThreads
  PROVE  TInv'
<1> USE DEF TInv, TypeOK, CallbackInv, CallbackPhases, Phases, Origins, LoopChannels,
            control, clock, queues, quitting
<1>1. PICK u \in Users : Quit(u) \/ Wakeup(u) \/ \E t \in Tasks : QueueInLoop(u, t)
  BY DEF OtherThreads
<1>2. CASE Quit(u)  BY <1>2 DEF Quit
<1>3. CASE Wakeup(u)  BY <1>3 DEF Wakeup, Written
<1>4. ASSUME NEW t \in Tasks, QueueInLoop(u, t)  PROVE TInv'
  <2>1. Append(pendingFunctors, t) \in Seq(Tasks)
    BY AppendProperties
  <2>2. QED  BY <1>4, <2>1 DEF QueueInLoop
<1>5. QED  BY <1>1, <1>2, <1>3, <1>4

LEMMA TypeStep == TInv /\ [Next]_vars => TInv'
<1> SUFFICES ASSUME TInv, [Next]_vars  PROVE TInv'
  OBVIOUS
<1>1. CASE Next
  BY <1>1, TypeLoopThread, TypeLoopCode, TypeOtherThreads DEF Next
<1>2. CASE UNCHANGED vars
  BY <1>2 DEF TInv, TypeOK, CallbackInv, vars, control, clock, queues, quitting
<1>3. QED  BY <1>1, <1>2

\* The state of the loop keeps its types: in particular the wakeup descriptor
\* never holds more than it can, and no armed timer count goes below zero.
THEOREM TypeCorrect == Spec => []TypeOK
<1>1. Spec => []TInv  BY TypeInit, TypeStep, PTL DEF Spec
<1>2. TInv => TypeOK  BY DEF TInv
<1>3. QED  BY <1>1, <1>2, PTL

------------------------------------------------------------------------------
(* No lost wakeup.                                                            *)

WInv == TInv /\ CallingInv /\ WakeupInv /\ QuitInv

LEMMA WakeupInit == Init => WInv
<1>1. Init => CallingInv /\ WakeupInv /\ QuitInv
  BY ToSetEmpty DEF Init, CallingInv, WakeupInv, QuitInv
<1>2. QED  BY <1>1, TypeInit DEF WInv

\* A step that leaves the queue, the wakeups and the quit request alone, and
\* enters the guarded phases only from guarded phases.
LEMMA WakeupFrame ==
  ASSUME TInv, WInv, CallingInv',
         UNCHANGED <<pendingFunctors, origin, wakeupFd, userAt, quit, quitOrigin>>,
         phase' \in {"idle", "functors", "head", "timers", "poll"}
           => phase \in {"idle", "functors", "head", "timers", "poll"},
         phase' \in {"timers", "poll"} => phase \in {"timers", "poll"} \/ ~quit
  PROVE  CallingInv' /\ WakeupInv' /\ QuitInv'
  BY DEF WInv, WakeupInv, QuitInv, Awake

LEMMA WakeupLoopThread ==
  ASSUME WInv, LoopThread
  PROVE  CallingInv' /\ WakeupInv' /\ QuitInv'
<1> USE DEF WInv, control, clock, queues, quitting
<1>1. CASE Loop
  BY <1>1 DEF Loop, CallingInv, WakeupInv, QuitInv, Awake
<1>2. CASE CheckQuit
  <2>1. CallingInv' /\ (phase' = "timers" => ~quit) /\ phase = "head"
        /\ phase' \in {"stopped", "timers"}
    BY <1>2 DEF CheckQuit, CallingInv
  <2>2. QED  BY <1>2, <2>1, WakeupFrame DEF CheckQuit
<1>3. CASE RunTimer
  BY <1>3, WakeupFrame DEF RunTimer, CallingInv
<1>4. CASE EnterPoll
  BY <1>4, WakeupFrame DEF EnterPoll, CallingInv
<1>5. CASE \E ready \in SUBSET LoopChannels : Poll(ready)
  BY <1>5 DEF Poll, CallingInv, WakeupInv, QuitInv
<1>6. CASE HandleWakeup
  BY <1>6 DEF HandleWakeup, CallingInv, WakeupInv, QuitInv
<1>7. CASE HandleEvent
  BY <1>7 DEF HandleEvent, CallingInv, WakeupInv, QuitInv
<1>8. CASE EventsDone
  BY <1>8 DEF EventsDone, CallingInv, WakeupInv, QuitInv
<1>9. CASE SwapFunctors
  BY <1>9, ToSetEmpty DEF SwapFunctors, CallingInv, WakeupInv, QuitInv
<1>10. CASE RunFunctor
  BY <1>10, WakeupFrame DEF RunFunctor, CallingInv
<1>11. CASE FunctorsDone
  BY <1>11, WakeupFrame DEF FunctorsDone, CallingInv
<1>12. CASE CallbackReturn
  BY <1>12, WakeupFrame DEF CallbackReturn, CallingInv
<1>13. CASE BeginDestructor
  BY <1>13 DEF BeginDestructor, CallingInv, WakeupInv, QuitInv
<1>14. CASE EndDestructor
  BY <1>14 DEF EndDestructor, CallingInv, WakeupInv, QuitInv
<1>15. QED
  BY <1>1, <1>2, <1>3, <1>4, <1>5, <1>6, <1>7, <1>8, <1>9, <1>10, <1>11, <1>12,
     <1>13, <1>14 DEF LoopThread

\* A wakeup written is a wakeup to be read, even when the descriptor was full.
LEMMA WrittenPositive ==
  ASSUME NEW n \in 0..WakeupCapacity
  PROVE  Written(n) > 0 /\ (n > 0 => Written(n) > 0)
  BY DEF Written

LEMMA WakeupLoopCode ==
  ASSUME WInv, LoopCode
  PROVE  CallingInv' /\ WakeupInv' /\ QuitInv'
<1> USE DEF WInv, control, clock, queues, quitting
<1>1. CASE LoopQuit
  BY <1>1 DEF LoopQuit, InLoopCode, TInv, CallbackInv, CallbackPhases,
              CallingInv, WakeupInv, QuitInv, Awake
<1>2. CASE LoopAddTimer
  BY <1>2, WakeupFrame DEF LoopAddTimer, CallingInv
<1>3. CASE LoopCancelTimer
  BY <1>3, WakeupFrame DEF LoopCancelTimer, CallingInv
<1>4. ASSUME NEW t \in Tasks, LoopQueueInLoop(t)
      PROVE  CallingInv' /\ WakeupInv' /\ QuitInv'
  <2>1. wakeupFd \in 0..WakeupCapacity /\ pendingFunctors \in Seq(Tasks)
        /\ origin \in [Tasks -> Origins \cup {"none"}]
    BY DEF TInv, TypeOK
  <2>2. ToSet(pendingFunctors') = ToSet(pendingFunctors) \cup {t}
    BY <1>4, <2>1, ToSetAppend DEF LoopQueueInLoop
  <2>3. Awake => Awake'
    BY <1>4, <2>1, WrittenPositive DEF LoopQueueInLoop, Awake
  <2>4. CallingInv'
    BY <1>4 DEF LoopQueueInLoop, CallingInv, InLoopCode, TInv, CallbackInv
  <2>5. QuitInv'
    BY <1>4, <2>3 DEF LoopQueueInLoop, QuitInv
  <2>6. ASSUME phase' \in {"idle", "functors", "head", "timers", "poll"},
               NEW x \in ToSet(pendingFunctors')
        PROVE  origin'[x] \in {"timers", "idle"} \/ Awake'
    <3>1. phase' = phase /\ phase \in {"idle", "functors", "timers"}
      BY <1>4, <2>6 DEF LoopQueueInLoop, InLoopCode, TInv, CallbackInv, CallbackPhases
    <3>2. CASE x = t /\ phase = "functors"
      BY <1>4, <2>1, <3>2, WrittenPositive DEF LoopQueueInLoop, CallingInv, Awake
    <3>3. CASE x = t /\ phase \in {"idle", "timers"}
      BY <1>4, <2>1, <3>3 DEF LoopQueueInLoop
    <3>4. CASE x # t
      <4>1. x \in ToSet(pendingFunctors)
        BY <2>2, <2>6, <3>4
      <4>2. origin[x] \in {"timers", "idle"} \/ Awake
        BY <3>1, <4>1 DEF WakeupInv
      <4>3. origin'[x] = origin[x]
        BY <1>4, <2>1, <3>4, <4>1, ToSetSubset DEF LoopQueueInLoop
      <4>4. QED  BY <2>3, <4>2, <4>3
    <3>5. QED  BY <3>1, <3>2, <3>3, <3>4
  <2>7. QED  BY <2>4, <2>5, <2>6 DEF WakeupInv
<1>5. QED  BY <1>1, <1>2, <1>3, <1>4 DEF LoopCode

LEMMA WakeupOtherThreads ==
  ASSUME WInv, OtherThreads
  PROVE  CallingInv' /\ WakeupInv' /\ QuitInv'
<1> USE DEF WInv, control, clock, queues, quitting
<1>1. PICK u \in Users : Quit(u) \/ Wakeup(u) \/ \E t \in Tasks : QueueInLoop(u, t)
  BY DEF OtherThreads
<1>2. wakeupFd \in 0..WakeupCapacity /\ userAt \in [Users -> {"idle", "wakeup"}]
  BY DEF TInv, TypeOK
<1>3. CASE Quit(u)
  BY <1>2, <1>3 DEF Quit, CallingInv, WakeupInv, QuitInv, Awake
<1>4. CASE Wakeup(u)
  <2>1. Awake'
    BY <1>2, <1>4, WrittenPositive DEF Wakeup, Awake
  <2>2. QED  BY <1>4, <2>1 DEF Wakeup, CallingInv, WakeupInv, QuitInv
<1>5. ASSUME NEW t \in Tasks, QueueInLoop(u, t)
      PROVE  CallingInv' /\ WakeupInv' /\ QuitInv'
  <2>1. Awake'
    BY <1>2, <1>5 DEF QueueInLoop, Awake
  <2>2. QED  BY <1>5, <2>1 DEF QueueInLoop, CallingInv, WakeupInv, QuitInv
<1>6. QED  BY <1>1, <1>3, <1>4, <1>5

LEMMA WakeupStep == WInv /\ [Next]_vars => WInv'
<1> SUFFICES ASSUME WInv, [Next]_vars  PROVE WInv'
  OBVIOUS
<1>1. TInv'
  BY TypeStep DEF WInv
<1>2. CASE Next
  BY <1>1, <1>2, WakeupLoopThread, WakeupLoopCode, WakeupOtherThreads DEF Next, WInv
<1>3. CASE UNCHANGED vars
  BY <1>1, <1>3 DEF WInv, CallingInv, WakeupInv, QuitInv, Awake, vars, control,
                    clock, queues, quitting
<1>4. QED  BY <1>2, <1>3

LEMMA WakeupCorrect == Spec => []WInv
  BY WakeupInit, WakeupStep, PTL DEF Spec

\* queueInLoop from another thread, an event callback or a functor never leaves
\* the loop asleep on the functor.
LEMMA WakeupNotLost == Spec => []NoLostWakeup
<1>1. WInv => NoLostWakeup
  BY DEF WInv, TInv, TypeOK, WakeupInv, NoLostWakeup, Asleep, IsPending, Awake
<1>2. QED  BY <1>1, WakeupCorrect, PTL

\* quit from another thread, an event callback or a functor never leaves the
\* loop asleep.
LEMMA QuitNotLost == Spec => []NoSleepAfterQuit
<1>1. WInv => NoSleepAfterQuit
  BY DEF WInv, TInv, TypeOK, QuitInv, NoSleepAfterQuit, Asleep, Awake
<1>2. QED  BY <1>1, WakeupCorrect, PTL

\* Both together: the loop never sleeps on a functor or on quit().
THEOREM NeverAsleep == Spec => []NeverAsleepOnWork
<1>1. NoLostWakeup /\ NoSleepAfterQuit => NeverAsleepOnWork
  BY DEF NeverAsleepOnWork
<1>2. QED  BY <1>1, WakeupNotLost, QuitNotLost, PTL

------------------------------------------------------------------------------
(* No functor is lost, duplicated or reordered.                               *)

KInv == TInv /\ FunctorsInv /\ KnownInv /\ DrainInv

LEMMA KnownInit == Init => KInv
<1>1. Init => FunctorsInv /\ KnownInv /\ DrainInv
  BY ToSetEmpty DEF Init, FunctorsInv, KnownInv, DrainInv
<1>2. QED  BY <1>1, TypeInit DEF KInv

\* A step that touches neither the queues nor the phases they depend on.
LEMMA KnownFrame ==
  ASSUME KInv, UNCHANGED <<queues, userAt>>,
         phase' \in {"drain", "destroyed", "crashed"} => phase = "drain",
         phase' \notin {"functors", "drain", "crashed"} => functors = <<>>
  PROVE  FunctorsInv' /\ KnownInv' /\ DrainInv'
  BY DEF KInv, FunctorsInv, KnownInv, DrainInv, queues

LEMMA KnownLoopThread ==
  ASSUME KInv, LoopThread
  PROVE  FunctorsInv' /\ KnownInv' /\ DrainInv'
<1> USE DEF control, clock, quitting
<1>0. phase \in Phases /\ (phase \notin {"functors", "drain", "crashed"} => functors = <<>>)
      /\ pendingFunctors \in Seq(Tasks) /\ functors \in Seq(Tasks)
      /\ executed \in Seq(Tasks)
  BY DEF KInv, TInv, TypeOK, FunctorsInv
<1>1. CASE Loop  BY <1>0, <1>1, KnownFrame DEF Loop
<1>2. CASE CheckQuit  BY <1>0, <1>2, KnownFrame DEF CheckQuit
<1>3. CASE RunTimer  BY <1>0, <1>3, KnownFrame DEF RunTimer
<1>4. CASE EnterPoll  BY <1>0, <1>4, KnownFrame DEF EnterPoll
<1>5. CASE \E ready \in SUBSET LoopChannels : Poll(ready)
  BY <1>0, <1>5, KnownFrame DEF Poll
<1>6. CASE HandleWakeup  BY <1>0, <1>6, KnownFrame DEF HandleWakeup
<1>7. CASE HandleEvent  BY <1>0, <1>7, KnownFrame DEF HandleEvent
<1>8. CASE EventsDone  BY <1>0, <1>8, KnownFrame DEF EventsDone
<1>9. CASE SwapFunctors
  BY <1>0, <1>9, ToSetEmpty DEF SwapFunctors, KInv, FunctorsInv, KnownInv, DrainInv
<1>10. CASE RunFunctor
  <2>1. /\ ToSet(functors) = {Head(functors)} \cup ToSet(functors')
        /\ ToSet(executed') = ToSet(executed) \cup {Head(functors)}
    <3>1. Head(functors) \in Tasks
      BY <1>0, <1>10, HeadTailProperties DEF RunFunctor
    <3>2. QED  BY <1>0, <1>10, <3>1, ToSetHeadTail, ToSetAppend DEF RunFunctor
  <2>2. KnownInv'
    BY <1>10, <2>1 DEF RunFunctor, KInv, KnownInv
  <2>3. QED  BY <1>10, <2>2 DEF RunFunctor, KInv, FunctorsInv, DrainInv
<1>11. CASE FunctorsDone  BY <1>0, <1>11, KnownFrame DEF FunctorsDone
<1>12. CASE CallbackReturn
  <2>1. phase' = phase /\ phase \in CallbackPhases
    BY <1>12 DEF CallbackReturn, KInv, TInv, CallbackInv
  <2>2. QED  BY <1>0, <1>12, <2>1, KnownFrame DEF CallbackReturn, CallbackPhases
<1>13. CASE BeginDestructor
  BY <1>0, <1>13, ToSetEmpty DEF BeginDestructor, KInv, TInv, TypeOK, FunctorsInv, KnownInv, DrainInv
<1>14. CASE EndDestructor  BY <1>0, <1>14, KnownFrame DEF EndDestructor
<1>15. QED
  BY <1>1, <1>2, <1>3, <1>4, <1>5, <1>6, <1>7, <1>8, <1>9, <1>10, <1>11, <1>12,
     <1>13, <1>14 DEF LoopThread

\* Both forms of queueInLoop push a functor that was not there before.
LEMMA KnownPush ==
  ASSUME KInv, NEW t \in Tasks, NEW from \in Origins, origin[t] = "none",
         pendingFunctors' = Append(pendingFunctors, t),
         origin' = [origin EXCEPT ![t] = from],
         UNCHANGED <<functors, executed>>
  PROVE  KnownInv' /\ ToSet(pendingFunctors') = ToSet(pendingFunctors) \cup {t}
<1>1. pendingFunctors \in Seq(Tasks) /\ origin \in [Tasks -> Origins \cup {"none"}]
  BY DEF KInv, TInv, TypeOK
<1>2. ToSet(pendingFunctors') = ToSet(pendingFunctors) \cup {t}
  BY <1>1, ToSetAppend
<1>3. from # "none"
  BY DEF Origins
<1>4. QED  BY <1>1, <1>2, <1>3 DEF KInv, KnownInv

LEMMA KnownLoopCode ==
  ASSUME KInv, LoopCode
  PROVE  FunctorsInv' /\ KnownInv' /\ DrainInv'
<1> USE DEF control, clock, quitting
<1>0. phase \notin {"functors", "drain", "crashed"} => functors = <<>>
  BY DEF KInv, FunctorsInv
<1>1. InLoopCode => phase \in {"idle", "timers", "events", "functors", "drain"}
  BY DEF InLoopCode, KInv, TInv, CallbackInv, CallbackPhases
<1>2. CASE LoopQuit  BY <1>0, <1>1, <1>2, KnownFrame DEF LoopQuit
<1>3. CASE LoopAddTimer  BY <1>0, <1>1, <1>3, KnownFrame DEF LoopAddTimer
<1>4. CASE LoopCancelTimer  BY <1>0, <1>1, <1>4, KnownFrame DEF LoopCancelTimer
<1>5. ASSUME NEW t \in Tasks, LoopQueueInLoop(t)
      PROVE  FunctorsInv' /\ KnownInv' /\ DrainInv'
  <2>1. phase \in Origins
    BY <1>1, <1>5 DEF LoopQueueInLoop, Origins
  <2>2. KnownInv' /\ ToSet(pendingFunctors') = ToSet(pendingFunctors) \cup {t}
    BY <1>5, <2>1, KnownPush DEF LoopQueueInLoop
  <2>3. origin \in [Tasks -> Origins \cup {"none"}]
        /\ ToSet(pendingFunctors) \subseteq Tasks
    BY ToSetSubset DEF KInv, TInv, TypeOK
  <2>4. phase' \in {phase, "crashed"} /\ (phase' # phase => phase = "drain")
    BY <1>5 DEF LoopQueueInLoop
  <2>5. FunctorsInv'
    BY <1>5, <2>4 DEF LoopQueueInLoop, KInv, FunctorsInv
  <2>6. DrainInv'
    BY <1>1, <1>5, <2>2, <2>3, <2>4 DEF LoopQueueInLoop, KInv, DrainInv
  <2>7. QED  BY <2>2, <2>5, <2>6
<1>6. QED  BY <1>2, <1>3, <1>4, <1>5 DEF LoopCode

LEMMA KnownOtherThreads ==
  ASSUME KInv, OtherThreads
  PROVE  FunctorsInv' /\ KnownInv' /\ DrainInv'
<1> USE DEF control, clock, quitting, queues, Gone
<1>1. PICK u \in Users : Quit(u) \/ Wakeup(u) \/ \E t \in Tasks : QueueInLoop(u, t)
  BY DEF OtherThreads
<1>2. CASE Quit(u)
  BY <1>2 DEF Quit, KInv, FunctorsInv, KnownInv, DrainInv
<1>3. CASE Wakeup(u)
  BY <1>3 DEF Wakeup, KInv, FunctorsInv, KnownInv, DrainInv
<1>4. ASSUME NEW t \in Tasks, QueueInLoop(u, t)
      PROVE  FunctorsInv' /\ KnownInv' /\ DrainInv'
  <2>1. KnownInv'
    BY <1>4, KnownPush DEF QueueInLoop, Origins
  <2>2. QED  BY <1>4, <2>1 DEF QueueInLoop, KInv, FunctorsInv, DrainInv
<1>5. QED  BY <1>1, <1>2, <1>3, <1>4

LEMMA KnownStep == KInv /\ [Next]_vars => KInv'
<1> SUFFICES ASSUME KInv, [Next]_vars  PROVE KInv'
  OBVIOUS
<1>1. TInv'
  BY TypeStep DEF KInv
<1>2. CASE Next
  BY <1>1, <1>2, KnownLoopThread, KnownLoopCode, KnownOtherThreads DEF Next, KInv
<1>3. CASE UNCHANGED vars
  BY <1>1, <1>3 DEF KInv, FunctorsInv, KnownInv, DrainInv, vars, control, clock, queues
<1>4. QED  BY <1>2, <1>3

LEMMA KnownCorrect == Spec => []KInv
  BY KnownInit, KnownStep, PTL DEF Spec

\* The destructor runs every functor queued before it began.
THEOREM DestructorComplete == Spec => []DestructorRunsQueue
<1>1. KInv => DestructorRunsQueue
  <2> SUFFICES ASSUME KInv, phase = "destroyed", NEW t \in Tasks,
                      origin[t] \notin {"none", "drain"}
               PROVE  t \in ToSet(executed)
    BY DEF DestructorRunsQueue, IsExecuted
  <2>1. functors = <<>>
    BY DEF KInv, FunctorsInv
  <2>2. t \notin ToSet(pendingFunctors)
    BY DEF KInv, DrainInv
  <2>3. QED  BY <2>1, <2>2, ToSetEmpty DEF KInv, KnownInv
<1>2. QED  BY <1>1, KnownCorrect, PTL

------------------------------------------------------------------------------
(* The loop implements TaskQueue.                                             *)

LEMMA RefineInit == Init => TQ!Init
  BY ConcatEmptySeq, EmptySeq DEF Init, TQ!Init

\* Queueing, from whichever thread, is the abstract Submit.
LEMMA RefineSubmit ==
  ASSUME KInv, NEW t \in Tasks, origin[t] = "none",
         pendingFunctors' = Append(pendingFunctors, t),
         UNCHANGED <<functors, executed>>
  PROVE  TQ!Submit(t)
<1>1. pendingFunctors \in Seq(Tasks) /\ functors \in Seq(Tasks)
  BY DEF KInv, TInv, TypeOK
<1>2. functors' \o pendingFunctors' = Append(functors \o pendingFunctors, t)
  BY <1>1, ConcatAppend
<1>3. t \notin ToSet(functors \o pendingFunctors) \cup ToSet(executed)
  BY <1>1, ToSetConcat DEF KInv, KnownInv
<1>4. QED  BY <1>2, <1>3 DEF TQ!Submit, TQ!Known, TQ!ToSet, ToSet

\* Running a functor of the batch is the abstract Execute.
LEMMA RefineExecute ==
  ASSUME KInv, RunFunctor
  PROVE  TQ!Execute
<1>1. pendingFunctors \in Seq(Tasks) /\ functors \in Seq(Tasks) /\ functors # <<>>
  BY DEF KInv, TInv, TypeOK, RunFunctor
<1>2. QED  BY <1>1, ConcatHeadTail DEF RunFunctor, TQ!Execute

\* Taking the batch moves functors without changing what is left to execute.
LEMMA RefineSwap ==
  ASSUME KInv, functors = <<>>, functors' = pendingFunctors,
         pendingFunctors' = <<>>, UNCHANGED executed
  PROVE  UNCHANGED TQ!vars
<1>1. pendingFunctors \in Seq(Tasks)
  BY DEF KInv, TInv, TypeOK
<1>2. QED  BY <1>1, ConcatEmptySeq DEF TQ!vars

LEMMA RefineStep ==
  ASSUME KInv, [Next]_vars
  PROVE  [TQ!Next]_(TQ!vars)
<1> USE DEF queues
<1>1. CASE LoopThread
  <2>1. CASE RunFunctor  BY <2>1, RefineExecute DEF TQ!Next
  <2>2. CASE SwapFunctors \/ BeginDestructor
    BY <2>2, RefineSwap DEF SwapFunctors, BeginDestructor, KInv, FunctorsInv
  <2>3. CASE UNCHANGED queues  BY <2>3 DEF TQ!vars
  <2>4. QED
    BY <1>1, <2>1, <2>2, <2>3
    DEF LoopThread, Loop, CheckQuit, RunTimer, EnterPoll, Poll, HandleWakeup,
        HandleEvent, EventsDone, FunctorsDone, CallbackReturn, EndDestructor
<1>2. CASE LoopCode
  <2>1. ASSUME NEW t \in Tasks, LoopQueueInLoop(t)  PROVE TQ!Submit(t)
    BY <2>1, RefineSubmit DEF LoopQueueInLoop
  <2>2. CASE UNCHANGED queues  BY <2>2 DEF TQ!vars
  <2>3. QED
    BY <1>2, <2>1, <2>2 DEF LoopCode, LoopQuit, LoopAddTimer, LoopCancelTimer, TQ!Next
<1>3. CASE OtherThreads
  <2>1. ASSUME NEW u \in Users, NEW t \in Tasks, QueueInLoop(u, t)  PROVE TQ!Submit(t)
    BY <2>1, RefineSubmit DEF QueueInLoop
  <2>2. CASE UNCHANGED queues  BY <2>2 DEF TQ!vars
  <2>3. QED
    BY <1>3, <2>1, <2>2 DEF OtherThreads, Quit, Wakeup, TQ!Next
<1>4. CASE UNCHANGED vars  BY <1>4 DEF vars, TQ!vars
<1>5. QED  BY <1>1, <1>2, <1>3, <1>4 DEF Next

\* Neither sleep nor the destructor makes the loop forget a functor or a quit.
THEOREM NeverForgets == Spec => []NothingForgotten
<1>1. NeverAsleepOnWork /\ DestructorRunsQueue => NothingForgotten
  BY DEF NothingForgotten
<1>2. QED  BY <1>1, NeverAsleep, DestructorComplete, PTL

\* queueInLoop keeps its promise: each functor runs at most once, in the order
\* queued, across the swap of the vectors and the destructor.
THEOREM LoopImplementsTaskQueue == Spec => ImplementsTaskQueue
<1>1. Init => TQ!Init  BY RefineInit
<1>2. KInv /\ [Next]_vars => [TQ!Next]_(TQ!vars)  BY RefineStep
<1>3. QED  BY <1>1, <1>2, KnownCorrect, PTL DEF Spec, TQ!Spec, ImplementsTaskQueue
------------------------------------------------------------------------------
(* EventLoopThread.tla, for any number of threads: whose objects live when.   *)

\* What the owner has done so far.
Starting == ownerAt \in {"create", "latch", "lock", "waiting"}
OwnerInv ==
  /\ Starting => cur \in 1..N /\ loops = 1..(cur - 1) /\ destroyed = {}
  /\ Starting => \A i \in cur..N : i # cur \/ ownerAt = "create" => at[i] = "none"
  /\ ~Starting => loops = 1..N
  /\ ownerAt = "serve" => cur = 1 /\ destroyed = {}
  /\ ownerAt \in {"destroy", "quit", "join"} => cur \in 1..N /\ destroyed = 1..(cur - 1)

\* The owner has asked the thread's loop to quit: only this, or its own code,
\* lets a loop end.
AskedToQuit(i) == i \in destroyed \/ (ownerAt = "join" /\ i = cur)
ThreadInv(i) ==
  /\ mLoop[i] <=> at[i] \in {"enter", "looping", "left"}
  /\ i \in loops => at[i] \notin {"none", "entry", "construct", "publish"}
  /\ i \in quitters \/ AskedToQuit(i) \/ (~loopQuit[i] /\ at[i] \notin {"left", "cleared", "done"})
  /\ i \in destroyed \ quitters => at[i] = "done"

PoolInv ==
  /\ PoolTypeOK /\ PoolNoFault
  /\ OwnerInv /\ \A i \in 1..N : ThreadInv(i)

LEMMA PoolInitStep == ASSUME PoolInit PROVE PoolInv
  BY ThreadAssumption
     DEF PoolInit, PoolTypeOK, Threads, OwnerAt, At, Faults, PoolNoFault,
         PoolInv, OwnerInv, ThreadInv, Starting

\* A step of the owner's, of a thread's.
LEMMA OwnerStep ==
  ASSUME PoolInv, Owner, poolFault = "none" PROVE PoolInv'
<1> USE ThreadAssumption
<1>0. /\ PoolTypeOK /\ PoolNoFault /\ OwnerInv /\ \A i \in 1..N : ThreadInv(i)
      /\ Threads = 1..N
  BY DEF PoolInv, Threads
<1>1. CASE CreateThread
  <2>1. cur \in 1..N /\ at' = [at EXCEPT ![cur] = "entry"] /\ ownerAt = "create" /\ ownerAt' = "latch"
        /\ UNCHANGED <<cur, latch, mLoop, loopQuit, loops, destroyed, poolFault, quitters>>
    BY <1>0, <1>1 DEF CreateThread, OwnerInv, Starting
  <2>2. PoolTypeOK' /\ PoolNoFault'
    BY <1>0, <2>1 DEF PoolTypeOK, OwnerAt, At, PoolNoFault
  <2>3. OwnerInv'
    BY <1>0, <2>1 DEF OwnerInv, Starting, PoolTypeOK
  <2>4. \A i \in 1..N : ThreadInv(i)'
    BY <1>0, <2>1 DEF OwnerInv, Starting, ThreadInv, AskedToQuit, PoolTypeOK
  <2>5. QED  BY <2>2, <2>3, <2>4 DEF PoolInv
<1>2. CASE LatchOpen \/ BeginDestroy
  <2>1. /\ \/ ownerAt = "latch" /\ ownerAt' = "lock"
           \/ ownerAt = "serve" /\ ownerAt' = "destroy"
        /\ UNCHANGED <<cur, at, latch, mLoop, loopQuit, loops, destroyed, poolFault, quitters>>
    BY <1>2 DEF LatchOpen, BeginDestroy
  <2>2. PoolTypeOK' /\ PoolNoFault'
    BY <1>0, <2>1 DEF PoolTypeOK, OwnerAt, PoolNoFault
  <2>3. OwnerInv'
    BY <1>0, <2>1 DEF OwnerInv, Starting
  <2>4. \A i \in 1..N : ThreadInv(i)'
    BY <1>0, <2>1 DEF ThreadInv, AskedToQuit
  <2>5. QED  BY <2>2, <2>3, <2>4 DEF PoolInv
<1>3. CASE CheckLoop
  <2>0. ownerAt = "lock" /\ cur \in 1..N /\ loops = 1..(cur - 1) /\ destroyed = {}
    BY <1>0, <1>3 DEF CheckLoop, OwnerInv, Starting
  <2>1. UNCHANGED <<at, latch, mLoop, loopQuit, destroyed, poolFault, quitters>>
    BY <1>3 DEF CheckLoop
  <2>2. CASE ~mLoop[cur]
    <3>1. ownerAt' = "waiting" /\ UNCHANGED <<cur, loops>>
      BY <1>3, <2>2 DEF CheckLoop
    <3>2. PoolTypeOK' /\ PoolNoFault'
      BY <1>0, <2>1, <3>1 DEF PoolTypeOK, OwnerAt, PoolNoFault
    <3>3. OwnerInv'
      BY <1>0, <2>0, <2>1, <3>1 DEF OwnerInv, Starting
    <3>4. \A i \in 1..N : ThreadInv(i)'
      BY <1>0, <2>0, <2>1, <3>1 DEF ThreadInv, AskedToQuit
    <3>5. QED  BY <3>2, <3>3, <3>4 DEF PoolInv
  <2>3. CASE mLoop[cur]
    <3>1. /\ loops' = loops \cup {cur}
          /\ cur' = IF cur = N THEN 1 ELSE cur + 1
          /\ ownerAt' = IF cur = N THEN "serve" ELSE "create"
      BY <1>3, <2>3 DEF CheckLoop
    <3>2. PoolTypeOK' /\ PoolNoFault'
      BY <1>0, <2>0, <2>1, <3>1 DEF PoolTypeOK, OwnerAt, PoolNoFault
    <3>3. OwnerInv'
      <4>1. loops' = 1..cur
        BY <2>0, <3>1
      <4>2. CASE cur = N
        BY <2>0, <2>1, <3>1, <4>1, <4>2 DEF OwnerInv, Starting
      <4>3. CASE cur # N
        <5>1. cur' = cur + 1 /\ cur' \in 1..N /\ loops' = 1..(cur' - 1) /\ ownerAt' = "create"
          BY <2>0, <3>1, <4>1, <4>3
        <5>2. \A i \in cur'..N : at'[i] = "none"
          BY <1>0, <2>0, <2>1, <5>1 DEF OwnerInv, Starting
        <5>3. QED  BY <2>0, <2>1, <5>1, <5>2 DEF OwnerInv, Starting
      <4>4. QED  BY <4>2, <4>3
    <3>4. \A i \in 1..N : ThreadInv(i)'
      <4>1. at[cur] \in {"enter", "looping", "left"}
        BY <1>0, <2>0, <2>3 DEF ThreadInv
      <4>2. QED  BY <1>0, <2>0, <2>1, <3>1, <4>1 DEF ThreadInv, AskedToQuit
    <3>5. QED  BY <3>2, <3>3, <3>4 DEF PoolInv
  <2>4. QED  BY <2>2, <2>3
<1>4. ASSUME Destroyed, ownerAt \in {"destroy", "join"}, cur \in 1..N,
             cur \in quitters \/ at[cur] = "done",
             UNCHANGED <<at, latch, mLoop, loopQuit, loops, poolFault, quitters>>
      PROVE  PoolInv'
  <2>1. /\ destroyed' = destroyed \cup {cur} /\ cur' = cur + 1 /\ destroyed = 1..(cur - 1)
        /\ ownerAt' = IF cur = N THEN "gone" ELSE "destroy"
    BY <1>0, <1>4 DEF Destroyed, OwnerInv
  <2>2. PoolTypeOK' /\ PoolNoFault'
    BY <1>0, <1>4, <2>1 DEF PoolTypeOK, OwnerAt, PoolNoFault
  <2>3. OwnerInv'
    <3>1. destroyed' = 1..(cur' - 1) /\ (cur # N => cur' \in 1..N)
      BY <1>4, <2>1
    <3>2. loops' = 1..N
      BY <1>0, <1>4 DEF OwnerInv, Starting
    <3>3. QED  BY <2>1, <3>1, <3>2 DEF OwnerInv, Starting
  <2>4. \A i \in 1..N : ThreadInv(i)'
    BY <1>0, <1>4, <2>1 DEF ThreadInv, AskedToQuit
  <2>5. QED  BY <2>2, <2>3, <2>4 DEF PoolInv
<1>5. CASE TestLoop
  <2>0. /\ ownerAt = "destroy" /\ cur \in 1..N /\ loops = 1..N /\ destroyed = 1..(cur - 1)
        /\ UNCHANGED <<at, latch, mLoop, loopQuit, loops, poolFault, quitters>>
    BY <1>0, <1>5 DEF TestLoop, OwnerInv, Starting
  <2>1. CASE mLoop[cur]
    <3>1. ownerAt' = "quit" /\ UNCHANGED <<cur, destroyed>>
      BY <1>5, <2>1 DEF TestLoop
    <3>2. PoolTypeOK' /\ PoolNoFault'
      BY <1>0, <2>0, <3>1 DEF PoolTypeOK, OwnerAt, PoolNoFault
    <3>3. OwnerInv'
      BY <2>0, <3>1 DEF OwnerInv, Starting
    <3>4. \A i \in 1..N : ThreadInv(i)'
      BY <1>0, <2>0, <3>1 DEF ThreadInv, AskedToQuit
    <3>5. QED  BY <3>2, <3>3, <3>4 DEF PoolInv
  <2>2. CASE ~mLoop[cur]
    <3>1. Destroyed
      BY <1>5, <2>2 DEF TestLoop
    <3>2. cur \in quitters \/ at[cur] = "done"
      <4>1. ThreadInv(cur) /\ cur \in loops /\ ~AskedToQuit(cur) /\ at[cur] \in At
        BY <1>0, <2>0 DEF AskedToQuit, PoolTypeOK
      <4>2. QED  BY <2>2, <4>1 DEF ThreadInv, At
    <3>3. QED  BY <1>4, <2>0, <3>1, <3>2
  <2>3. QED  BY <2>1, <2>2
<1>6. CASE QuitLoop
  <2>0. /\ ownerAt = "quit" /\ ownerAt' = "join" /\ cur \in 1..N /\ loops = 1..N
        /\ destroyed = 1..(cur - 1)
        /\ UNCHANGED <<cur, at, latch, mLoop, loops, destroyed, quitters>>
    BY <1>0, <1>6 DEF QuitLoop, OwnerInv, Starting
  <2>1. \/ loopQuit' = [loopQuit EXCEPT ![cur] = TRUE] /\ UNCHANGED poolFault
        \/ poolFault' = "loop" /\ UNCHANGED loopQuit /\ quitters # {}
    <3>1. CASE LoopAlive(cur)
      BY <1>6, <3>1 DEF QuitLoop
    <3>2. CASE ~LoopAlive(cur)
      <4>1. ThreadInv(cur) /\ cur \in loops /\ ~AskedToQuit(cur) /\ at[cur] \in At
        BY <1>0, <2>0 DEF AskedToQuit, PoolTypeOK
      <4>2. cur \in quitters
        BY <3>2, <4>1 DEF ThreadInv, At, LoopAlive
      <4>3. QED  BY <1>6, <3>2, <4>2 DEF QuitLoop
    <3>3. QED  BY <3>1, <3>2
  <2>2. PoolTypeOK' /\ PoolNoFault'
    BY <1>0, <2>0, <2>1 DEF PoolTypeOK, OwnerAt, Faults, PoolNoFault
  <2>3. OwnerInv'
    BY <2>0 DEF OwnerInv, Starting
  <2>4. \A i \in 1..N : ThreadInv(i)'
    BY <1>0, <2>0, <2>1 DEF ThreadInv, AskedToQuit, PoolTypeOK
  <2>5. QED  BY <2>2, <2>3, <2>4 DEF PoolInv
<1>7. CASE JoinThread
  BY <1>0, <1>4, <1>7 DEF JoinThread, OwnerInv
<1>8. QED
  BY <1>1, <1>2, <1>3, <1>5, <1>6, <1>7 DEF Owner

LEMMA ThreadStep ==
  ASSUME PoolInv, NEW i \in 1..N, Thread(i) \/ QuitSelf(i), poolFault = "none"
  PROVE  PoolInv'
<1>0. /\ PoolTypeOK /\ OwnerInv /\ \A k \in 1..N : ThreadInv(k)
      /\ Threads = 1..N /\ UNCHANGED <<cur, loops, destroyed>>
  BY DEF PoolInv, Threads, Thread, ThreadEntry, ConstructLoop, PublishLoop,
         EnterLoop, LeaveLoop, ClearLoop, ThreadExit, QuitSelf
<1>1. /\ at[i] # "none"
      /\ \A k \in (1..N) \ {i} :
           at'[k] = at[k] /\ mLoop'[k] = mLoop[k] /\ loopQuit'[k] = loopQuit[k]
           /\ (k \in quitters' <=> k \in quitters)
      /\ quitters \subseteq quitters'
      /\ ownerAt' = ownerAt \/ (ownerAt = "waiting" /\ ownerAt' = "lock")
  BY <1>0 DEF PoolTypeOK, Thread, ThreadEntry, ConstructLoop, PublishLoop,
              EnterLoop, LeaveLoop, ClearLoop, ThreadExit, QuitSelf,
              CallsQuit
<1>2. PoolTypeOK'
  BY <1>0 DEF PoolTypeOK, OwnerAt, At, Faults, Thread, ThreadEntry,
              ConstructLoop, PublishLoop, EnterLoop, LeaveLoop,
              ClearLoop, ThreadExit, QuitSelf, CallsQuit, UsesThreadObject
<1>3. PoolNoFault'
  <2>1. CASE ClearLoop(i) \/ ThreadExit(i)
    <3>1. i \in destroyed => i \in quitters
      BY <1>0, <2>1 DEF ThreadInv, ClearLoop, ThreadExit
    <3>2. QED
      BY <1>1, <2>1, <3>1
         DEF PoolNoFault, ClearLoop, ThreadExit, UsesThreadObject
  <2>2. CASE poolFault' = poolFault
    BY <2>2 DEF PoolNoFault
  <2>3. QED
    BY <2>1, <2>2 DEF Thread, ThreadEntry, ConstructLoop, PublishLoop,
                      EnterLoop, LeaveLoop, QuitSelf
<1>4. OwnerInv'
  <2>1. \A k \in 1..N : at[k] = "none" => at'[k] = "none"
    BY <1>1
  <2>2. Starting => cur \in 1..N /\ cur..N \subseteq 1..N
    BY <1>0 DEF OwnerInv
  <2>3. QED  BY <1>0, <1>1, <2>1, <2>2 DEF OwnerInv, Starting
<1>5. \A k \in (1..N) \ {i} : ThreadInv(k)'
  BY <1>0, <1>1 DEF ThreadInv, AskedToQuit
<1>6. ThreadInv(i)'
  <2>1. i \in loops => at[i] \notin {"none", "entry", "construct", "publish"}
    BY <1>0 DEF ThreadInv
  <2>2. AskedToQuit(i)' = AskedToQuit(i)
    BY <1>0, <1>1 DEF AskedToQuit
  <2>3. /\ at \in [1..N -> At] /\ mLoop \in [1..N -> BOOLEAN] /\ loopQuit \in [1..N -> BOOLEAN]
        /\ ThreadInv(i)
    BY <1>0 DEF PoolTypeOK
  <2>4. CASE ThreadEntry(i)
    BY <1>0, <1>1, <2>1, <2>2, <2>3, <2>4 DEF ThreadInv, ThreadEntry
  <2>5. CASE ConstructLoop(i)
    BY <1>0, <1>1, <2>1, <2>2, <2>3, <2>5 DEF ThreadInv, ConstructLoop, CallsQuit
  <2>6. CASE PublishLoop(i)
    BY <1>0, <1>1, <2>1, <2>2, <2>3, <2>6 DEF ThreadInv, PublishLoop
  <2>7. CASE EnterLoop(i)
    BY <1>0, <1>1, <2>1, <2>2, <2>3, <2>7 DEF ThreadInv, EnterLoop
  <2>8. CASE LeaveLoop(i)
    BY <1>0, <1>1, <2>1, <2>2, <2>3, <2>8 DEF ThreadInv, LeaveLoop
  <2>9. CASE ClearLoop(i)
    BY <1>0, <1>1, <2>1, <2>2, <2>3, <2>9 DEF ThreadInv, ClearLoop
  <2>10. CASE ThreadExit(i)
    BY <1>0, <1>1, <2>1, <2>2, <2>3, <2>10 DEF ThreadInv, ThreadExit
  <2>11. CASE QuitSelf(i)
    BY <1>0, <1>1, <2>1, <2>2, <2>3, <2>11 DEF ThreadInv, QuitSelf, CallsQuit
  <2>12. QED
    BY <2>4, <2>5, <2>6, <2>7, <2>8, <2>9, <2>10, <2>11 DEF Thread
<1>7. QED  BY <1>2, <1>3, <1>4, <1>5, <1>6 DEF PoolInv

LEMMA PoolStep == ASSUME PoolInv, [PoolNext]_poolVars PROVE PoolInv'
<1>1. CASE UNCHANGED poolVars
  BY <1>1 DEF poolVars, PoolInv, PoolTypeOK, PoolNoFault, OwnerInv, Starting, ThreadInv, AskedToQuit
<1>2. CASE PoolNext
  <2>1. poolFault = "none" /\ (Owner \/ \E i \in 1..N : Thread(i) \/ QuitSelf(i))
    BY <1>2 DEF PoolNext, Threads
  <2>2. QED  BY <2>1, OwnerStep, ThreadStep
<1>3. QED  BY <1>1, <1>2

\* Neither the owner nor a loop thread uses what the other has destroyed, and
\* startLoop returns loops that can be used, for any number of threads.
THEOREM PoolSound == PoolSpec => []Sound
<1>1. PoolInit => PoolInv
  BY PoolInitStep
<1>2. PoolInv /\ [PoolNext]_poolVars => PoolInv'
  BY PoolStep
<1>3. PoolInv => Sound
  <2> SUFFICES ASSUME PoolInv PROVE Sound
    OBVIOUS
  <2>1. PoolTypeOK /\ PoolNoFault /\ OwnerInv /\ \A i \in 1..N : ThreadInv(i)
    BY DEF PoolInv
  <2>2. loops \subseteq 1..N /\ destroyed \subseteq 1..N
    BY <2>1 DEF PoolTypeOK, Threads
  <2>3. JoinedBeforeDestroyed /\ ReturnedOnceCreated
    BY <2>1, <2>2 DEF ThreadInv, JoinedBeforeDestroyed, ReturnedOnceCreated
  <2>4. LoopsUsable
    <3> SUFFICES ASSUME NEW i \in loops \ quitters,
                        ownerAt \in {"create", "latch", "lock", "waiting", "serve", "destroy"},
                        ownerAt = "destroy" => i >= cur
                 PROVE  mLoop[i] /\ LoopAlive(i)
      BY DEF LoopsUsable
    <3>1. ~AskedToQuit(i)
      <4>1. i \notin destroyed
        BY <2>1, <2>2 DEF OwnerInv, Starting
      <4>2. QED  BY <4>1 DEF AskedToQuit
    <3>2. at[i] \in At /\ ThreadInv(i)
      BY <2>1, <2>2 DEF PoolTypeOK, Threads
    <3>3. QED  BY <3>1, <3>2 DEF ThreadInv, At, LoopAlive
  <2>5. QED  BY <2>1, <2>3, <2>4 DEF Sound, LifetimesNest
<1>4. QED  BY <1>1, <1>2, <1>3, PTL DEF PoolSpec


------------------------------------------------------------------------------
(* SelectPoller.tla, for any channels and descriptors: the tables of the poller *)
(* and the batch.                                                             *)

USE PollerAssumption DEF PollerAssumption

InUse(c) == life[c] \in {"new", "added"}

\* An address has a descriptor exactly while there is a channel at it, and an
\* index once its channel has been added.
LifeInv ==
  \A c \in Channels :
    /\ life[c] = "none" <=> fd[c] = NoFd
    /\ life[c] \in {"none", "new"} <=> index[c] = -1

\* m_channels holds registered channels only, each under its descriptor.
MapInv ==
  \A f \in Fds : channels[f] # NoChannel =>
    Registered(channels[f]) /\ fd[channels[f]] = f

\* Channels in use have different descriptors.
FdInv ==
  \A c, d \in Channels : InUse(c) /\ InUse(d) /\ fd[c] = fd[d] => c = d

\* What the batch needs: its channels are registered, and the one whose
\* callback runs, which may remove itself, still exists.
BatchInv ==
  /\ BatchRegistered
  /\ pending \subseteq active
  /\ current \notin pending
  /\ ~handling => pending = {} /\ current = NoChannel /\ callback = "none"
  /\ current = NoChannel => callback = "none"
  /\ current # NoChannel => life[current] # "none"

IInv == PollerTypeOK /\ NoFault /\ SlotsAgree /\ LifeInv /\ MapInv /\ FdInv /\ BatchInv

------------------------------------------------------------------------------
(* The slots.                                                                 *)

\* A vector after a removal: the last slot is in the place of the removed one.
LEMMA SwapOut ==
  ASSUME NEW S, NEW p \in Seq(S), NEW i \in DOMAIN p,
         NEW q, q = [k \in 1..(Len(p) - 1) |-> IF k = i THEN p[Len(p)] ELSE p[k]]
  PROVE  /\ q \in Seq(S)
         /\ DOMAIN q = 1..(Len(p) - 1)
         /\ Len(p) \in Nat \ {0} /\ i \in 1..Len(p)
<1>1. DOMAIN p = 1..Len(p) /\ Len(p) \in Nat
  BY LenProperties
<1>2. Len(p) - 1 \in Nat /\ i \in 1..Len(p)
  BY <1>1
<1>3. \A k \in 1..(Len(p) - 1) : (IF k = i THEN p[Len(p)] ELSE p[k]) \in S
  BY <1>1, <1>2, ElementOfSeq
<1>4. q \in Seq(S)
  BY <1>2, <1>3, IsASeq
<1>5. QED  BY <1>1, <1>2, <1>4

\* Of PollerTypeOK, what the steps below need.
LEMMA Types ==
  ASSUME PollerTypeOK
  PROVE  /\ life \in [Channels -> {"none", "new", "added", "removed"}]
         /\ fd \in [Channels -> Fds \cup {NoFd}]
         /\ index \in [Channels -> Nat \cup {-1}]
         /\ channels \in [Fds -> Channels \cup {NoChannel}]
         /\ events \in [Channels -> SUBSET Asked]
         /\ pollfds \in Seq(Slot)
         /\ Len(pollfds) \in Nat
         /\ DOMAIN pollfds = 1..Len(pollfds)
<1>1. pollfds \in Seq(Slot)
  BY DEF PollerTypeOK
<1>2. Len(pollfds) \in Nat /\ DOMAIN pollfds = 1..Len(pollfds)
  BY <1>1, LenProperties
<1>3. QED  BY <1>1, <1>2 DEF PollerTypeOK

\* Initially nothing is registered.
LEMMA InitEstablishes == PollerInit => IInv
<1> SUFFICES ASSUME PollerInit PROVE IInv
  OBVIOUS
<1>1. PollerTypeOK
  <2>1. pollfds \in Seq(Slot)
    BY DEF PollerInit
  <2>2. /\ fdset \in [Ready -> SUBSET Fds]
        /\ life \in [Channels -> {"none", "new", "added", "removed"}]
        /\ fd \in [Channels -> Fds \cup {NoFd}]
        /\ events \in [Channels -> SUBSET Asked]
        /\ index \in [Channels -> Nat \cup {-1}]
        /\ revents \in [Channels -> SUBSET Ready]
        /\ channels \in [Fds -> Channels \cup {NoChannel}]
    BY DEF PollerInit, NoneReady
  <2>3. QED  BY <2>1, <2>2 DEF PollerInit, PollerTypeOK
<1>2. DOMAIN pollfds = {}
  BY DEF PollerInit
<1>3. NoFault /\ SlotsAgree
  BY <1>2 DEF PollerInit, NoFault, SlotsAgree, RegisteredHaveSlots, SlotsAreRegistered, Registered
<1>4. LifeInv /\ MapInv /\ FdInv /\ BatchInv
  BY DEF PollerInit, LifeInv, MapInv, FdInv, InUse, BatchInv, BatchRegistered
<1>5. QED  BY <1>1, <1>3, <1>4 DEF IInv

\* An assertion that catches an owner ends the program and changes nothing else.
LEMMA FailsKeeps ==
  ASSUME IInv, Fails(TRUE)
  PROVE  IInv'
<1>1. fault' = "owner" /\ UNCHANGED <<registration, batch>>
  BY DEF Fails
<1>2. PollerTypeOK' /\ NoFault'
  BY <1>1 DEF IInv, PollerTypeOK, NoFault, registration, batch
<1>3. SlotsAgree' /\ LifeInv' /\ MapInv' /\ FdInv' /\ BatchInv'
  BY <1>1 DEF IInv, SlotsAgree, RegisteredHaveSlots, SlotsAreRegistered, Registered, LifeInv,
              MapInv, FdInv, InUse, BatchInv, BatchRegistered, registration, batch
<1>4. QED  BY <1>2, <1>3 DEF IInv

\* A new channel is not in the poller yet.
LEMMA ConstructKeeps ==
  ASSUME IInv, NEW c \in Channels, NEW f \in Fds, Construct(c, f)
  PROVE  IInv'
<1>0. /\ life[c] = "none" /\ fd[c] = NoFd /\ index[c] = -1
      /\ \A d \in Channels : fd[d] = f => life[d] = "removed"
      /\ life' = [life EXCEPT ![c] = "new"]
      /\ fd' = [fd EXCEPT ![c] = f]
      /\ UNCHANGED <<events, index, pollfds, channels, handling, active, pending,
                     current, todo, callback, fdset, revents, fault>>
      /\ c \notin pending /\ c # current
  BY DEF Construct, batch, IInv, LifeInv, BatchInv, BatchRegistered, Registered, PollerTypeOK
<1>1. PollerTypeOK' /\ NoFault'
  BY <1>0 DEF IInv, PollerTypeOK, NoFault
<1>2. \A d \in Channels : d # c => life'[d] = life[d] /\ fd'[d] = fd[d]
  BY <1>0 DEF IInv, PollerTypeOK
<1>3. life'[c] = "new" /\ fd'[c] = f
  BY <1>0 DEF IInv, PollerTypeOK
<1>4. RegisteredHaveSlots'
  BY <1>0, <1>2, <1>3 DEF IInv, SlotsAgree, RegisteredHaveSlots, Registered
<1>5. SlotsAreRegistered'
  BY <1>0, <1>2, <1>3 DEF IInv, SlotsAgree, SlotsAreRegistered, Registered
<1>6. LifeInv'
  BY <1>0, <1>2, <1>3 DEF IInv, LifeInv
<1>7. MapInv'
  BY <1>0, <1>2, <1>3, Types DEF IInv, MapInv, Registered
<1>8. FdInv'
  BY <1>0, <1>2, <1>3 DEF IInv, FdInv, InUse
<1>9. BatchInv'
  BY <1>0, <1>2, <1>3 DEF IInv, BatchInv, BatchRegistered, Registered, PollerTypeOK
<1>10. QED  BY <1>1, <1>4, <1>5, <1>6, <1>7, <1>8, <1>9 DEF IInv, SlotsAgree

\* updateChannel of a new channel adds a slot for it.
LEMMA AddKeeps ==
  ASSUME IInv, NEW c \in Channels, NEW ev \in SUBSET Asked,
         life[c] = "new", Update(c, ev)
  PROVE  IInv'
<1>1. life[c] = "new" /\ fd[c] \in Fds /\ channels[fd[c]] = NoChannel /\ index[c] < 0
  <2>2. fd[c] \in Fds /\ index[c] = -1
    BY Types DEF IInv, LifeInv
  <2>3. channels[fd[c]] = NoChannel
    BY <2>2, Types DEF IInv, MapInv, FdInv, InUse, Registered
  <2>4. QED  BY <2>2, <2>3
<1>0. /\ events' = [events EXCEPT ![c] = ev]
      /\ life' = [life EXCEPT ![c] = "added"]
      /\ pollfds' = Append(pollfds, [fd |-> fd[c], ev |-> ev])
      /\ index' = [index EXCEPT ![c] = Len(pollfds)]
      /\ channels' = [channels EXCEPT ![fd[c]] = c]
      /\ UNCHANGED <<fd, handling, active, pending, current, todo, callback, fdset, revents,
                     fault>>
  BY <1>1 DEF Update, Updatable, Add, batch
<1>2. [fd |-> fd[c], ev |-> ev] \in Slot
  BY <1>1 DEF Slot
<1>3. /\ pollfds' \in Seq(Slot)
      /\ Len(pollfds) \in Nat
      /\ DOMAIN pollfds = 1..Len(pollfds)
      /\ DOMAIN pollfds' = 1..(Len(pollfds) + 1)
      /\ \A i \in 1..Len(pollfds) : pollfds'[i] = pollfds[i]
      /\ pollfds'[Len(pollfds) + 1] = [fd |-> fd[c], ev |-> ev]
  <2>1. pollfds \in Seq(Slot) /\ Len(pollfds) \in Nat /\ DOMAIN pollfds = 1..Len(pollfds)
    BY Types DEF IInv
  <2>2. pollfds' \in Seq(Slot) /\ Len(pollfds') = Len(pollfds) + 1
    BY <2>1, <1>0, <1>2, AppendProperties
  <2>3. DOMAIN pollfds' = 1..(Len(pollfds) + 1)
    BY <2>2, LenProperties
  <2>4. \A i \in 1..Len(pollfds) : pollfds'[i] = pollfds[i]
    BY <2>1, <1>0, <1>2, AppendProperties
  <2>5. pollfds'[Len(pollfds) + 1] = [fd |-> fd[c], ev |-> ev]
    BY <2>1, <1>0, <1>2, AppendProperties
  <2>6. QED  BY <2>1, <2>2, <2>3, <2>4, <2>5
<1>4. PollerTypeOK' /\ NoFault'
  BY <1>0, <1>3, <1>1 DEF IInv, PollerTypeOK, NoFault
<1>5. /\ life'[c] = "added" /\ index'[c] = Len(pollfds) /\ events'[c] = ev
      /\ \A d \in Channels : d # c =>
           life'[d] = life[d] /\ index'[d] = index[d] /\ events'[d] = events[d]
      /\ channels'[fd[c]] = c
      /\ \A f \in Fds : f # fd[c] => channels'[f] = channels[f]
  BY <1>0, <1>1 DEF IInv, PollerTypeOK
<1>6. RegisteredHaveSlots'
  <2> SUFFICES ASSUME NEW d \in Channels, life'[d] = "added"
               PROVE  /\ fd[d] \in Fds
                      /\ channels'[fd[d]] = d
                      /\ index'[d] + 1 \in DOMAIN pollfds'
                      /\ pollfds'[index'[d] + 1] = [fd |-> fd[d], ev |-> events'[d]]
    BY <1>0 DEF RegisteredHaveSlots, Registered
  <2>1. CASE d = c
    BY <2>1, <1>1, <1>3, <1>5
  <2>2. CASE d # c
    <3>1. /\ life[d] = "added" /\ fd[d] \in Fds /\ channels[fd[d]] = d
          /\ index[d] + 1 \in 1..Len(pollfds)
          /\ pollfds[index[d] + 1] = [fd |-> fd[d], ev |-> events[d]]
      BY <2>2, <1>3, <1>5 DEF IInv, SlotsAgree, RegisteredHaveSlots, Registered
    <3>2. fd[d] # fd[c]
      BY <3>1, <1>1, <2>2 DEF IInv, FdInv, InUse
    <3>3. QED  BY <2>2, <3>1, <3>2, <1>3, <1>5
  <2>3. QED  BY <2>1, <2>2
<1>7. SlotsAreRegistered'
  <2> SUFFICES ASSUME NEW i \in 1..(Len(pollfds) + 1)
               PROVE  \E d \in Channels : life'[d] = "added" /\ index'[d] + 1 = i /\ fd[d] = pollfds'[i].fd
    BY <1>0, <1>3 DEF SlotsAreRegistered, Registered
  <2>1. CASE i = Len(pollfds) + 1
    BY <2>1, <1>3, <1>5
  <2>2. CASE i # Len(pollfds) + 1
    <3>1. i \in 1..Len(pollfds)
      BY <2>2, <1>3
    <3>2. PICK d \in Channels : life[d] = "added" /\ index[d] + 1 = i /\ fd[d] = pollfds[i].fd
      BY <3>1, <1>3 DEF IInv, SlotsAgree, SlotsAreRegistered, Registered
    <3>3. QED  BY <3>1, <3>2, <1>1, <1>3, <1>5
  <2>3. QED  BY <2>1, <2>2
<1>8. LifeInv'
  <2>1. Len(pollfds) # -1
    BY <1>3
  <2>2. QED  BY <2>1, <1>0, <1>1, <1>5 DEF IInv, LifeInv, PollerTypeOK
<1>9. MapInv'
  BY <1>0, <1>1, <1>5, Types DEF IInv, MapInv, Registered
<1>10. FdInv'
  BY <1>0, <1>1, <1>5 DEF IInv, FdInv, InUse
<1>11. BatchInv'
  BY <1>0, <1>1, <1>5 DEF IInv, BatchInv, BatchRegistered, Registered, PollerTypeOK
<1>12. QED  BY <1>4, <1>6, <1>7, <1>8, <1>9, <1>10, <1>11 DEF IInv, SlotsAgree

\* updateChannel of a registered channel changes the events of its own slot.
LEMMA ModifyKeeps ==
  ASSUME IInv, NEW c \in Channels, NEW ev \in SUBSET Asked,
         life[c] = "added", Update(c, ev)
  PROVE  IInv'
<1>1. /\ life[c] = "added" /\ fd[c] \in Fds /\ channels[fd[c]] = c
      /\ index[c] + 1 \in DOMAIN pollfds
      /\ pollfds[index[c] + 1] = [fd |-> fd[c], ev |-> events[c]]
      /\ ~(index[c] < 0)
  <2>1. index[c] \in Nat \cup {-1} /\ index[c] # -1
    BY Types DEF IInv, LifeInv
  <2>2. QED  BY <2>1 DEF IInv, SlotsAgree, RegisteredHaveSlots, Registered
<1>0. /\ events' = [events EXCEPT ![c] = ev]
      /\ life' = [life EXCEPT ![c] = "added"]
      /\ pollfds' = [pollfds EXCEPT ![index[c] + 1].ev = ev]
      /\ UNCHANGED <<fd, index, channels, handling, active, pending, current, todo,
                     callback, fdset, revents, fault>>
  BY <1>1 DEF Update, Updatable, Modify, batch
<1> DEFINE j == index[c] + 1
<1>2. /\ Len(pollfds) \in Nat
      /\ DOMAIN pollfds = 1..Len(pollfds)
      /\ j \in 1..Len(pollfds)
  BY <1>1, LenProperties DEF IInv, PollerTypeOK
<1>3. [pollfds[j] EXCEPT !.ev = ev] = [fd |-> fd[c], ev |-> ev]
  BY <1>1
<1>4. [fd |-> fd[c], ev |-> ev] \in Slot
  BY <1>1 DEF Slot
<1>5. pollfds' = [pollfds EXCEPT ![j] = [fd |-> fd[c], ev |-> ev]]
  BY <1>0, <1>3
<1>6. /\ pollfds' \in Seq(Slot)
      /\ DOMAIN pollfds' = DOMAIN pollfds
      /\ pollfds'[j] = [fd |-> fd[c], ev |-> ev]
      /\ \A i \in DOMAIN pollfds : i # j => pollfds'[i] = pollfds[i]
  <2>1. pollfds \in Seq(Slot)
    BY Types DEF IInv
  <2>2. /\ pollfds' \in Seq(Slot)
        /\ Len(pollfds') = Len(pollfds)
        /\ \A i \in 1..Len(pollfds) :
             pollfds'[i] = IF i = j THEN [fd |-> fd[c], ev |-> ev] ELSE pollfds[i]
    BY <2>1, <1>2, <1>4, <1>5, ExceptSeq
  <2>3. DOMAIN pollfds' = 1..Len(pollfds)
    BY <2>2, LenProperties
  <2>4. QED  BY <2>2, <2>3, <1>2
<1>7. life' = life
  BY <1>0, <1>1 DEF IInv, PollerTypeOK
<1>8. events'[c] = ev /\ \A d \in Channels : d # c => events'[d] = events[d]
  BY <1>0 DEF IInv, PollerTypeOK
<1> HIDE DEF j
<1>9. PollerTypeOK' /\ NoFault'
  BY <1>0, <1>6, <1>7 DEF IInv, PollerTypeOK, NoFault
<1>10. RegisteredHaveSlots'
  <2> SUFFICES ASSUME NEW d \in Channels, life[d] = "added"
               PROVE  /\ fd[d] \in Fds
                      /\ channels[fd[d]] = d
                      /\ index[d] + 1 \in DOMAIN pollfds
                      /\ pollfds'[index[d] + 1] = [fd |-> fd[d], ev |-> events'[d]]
    BY <1>0, <1>6, <1>7 DEF RegisteredHaveSlots, Registered
  <2>0. /\ fd[d] \in Fds /\ channels[fd[d]] = d /\ index[d] + 1 \in DOMAIN pollfds
        /\ pollfds[index[d] + 1] = [fd |-> fd[d], ev |-> events[d]]
    BY DEF IInv, SlotsAgree, RegisteredHaveSlots, Registered
  <2>1. CASE d = c
    BY <2>0, <2>1, <1>6, <1>8 DEF j
  <2>2. CASE d # c
    <3>1. fd[d] # fd[c]
      BY <2>2, <1>1 DEF IInv, FdInv, InUse
    <3>2. index[d] + 1 # j
      BY <3>1, <2>0, <1>1 DEF j
    <3>3. QED  BY <2>0, <2>2, <3>2, <1>6, <1>8
  <2>3. QED  BY <2>1, <2>2
<1>11. \A i \in DOMAIN pollfds : pollfds'[i].fd = pollfds[i].fd
  BY <1>1, <1>6 DEF j
<1>12. SlotsAreRegistered'
  BY <1>0, <1>6, <1>7, <1>11, SMTT(30) DEF IInv, SlotsAgree, SlotsAreRegistered, Registered
<1>13. LifeInv' /\ MapInv' /\ FdInv' /\ BatchInv'
  BY <1>0, <1>7 DEF IInv, LifeInv, MapInv, FdInv, InUse, BatchInv, BatchRegistered, Registered
<1>14. QED  BY <1>9, <1>10, <1>12, <1>13 DEF IInv, SlotsAgree

\* A channel that has been removed is known to have been in the poller and is
\* not there: the assertion of updateChannel catches its use.
LEMMA UpdateKeeps ==
  ASSUME IInv, NEW c \in Channels, NEW ev \in SUBSET Asked, Update(c, ev)
  PROVE  IInv'
<1>1. CASE life[c] = "removed"
  <2>1. fd[c] \in Fds /\ channels[fd[c]] # c
    BY <1>1, Types DEF IInv, LifeInv, MapInv, Registered
  <2>2. ~(index[c] < 0)
    BY <1>1, Types DEF IInv, LifeInv
  <2>3. Fails(TRUE)
    BY <1>1, <2>1, <2>2 DEF Update, Updatable
  <2>4. QED  BY <2>3, FailsKeeps
<1>2. life[c] \in {"new", "added", "removed"}
  BY DEF Update, IInv, PollerTypeOK
<1>3. QED  BY <1>1, <1>2, AddKeeps, ModifyKeeps

\* removeChannel takes the slot of the channel out and re-indexes the last one.
LEMMA RemoveKeeps ==
  ASSUME IInv, NEW c \in Channels, Registered(c), events[c] = {}, NotInBatch(c),
         RemoveChannel(c)
  PROVE  IInv'
<1> DEFINE n == Len(pollfds)
           i == index[c] + 1
<1>1. /\ life[c] = "added" /\ fd[c] \in Fds /\ channels[fd[c]] = c /\ events[c] = {}
      /\ i \in DOMAIN pollfds
      /\ pollfds[i] = [fd |-> fd[c], ev |-> events[c]]
  BY DEF IInv, SlotsAgree, RegisteredHaveSlots, Registered
<1>2. /\ n \in Nat \ {0}
      /\ DOMAIN pollfds = 1..n
      /\ i \in 1..n /\ n \in DOMAIN pollfds
  <2>1. n \in Nat /\ DOMAIN pollfds = 1..n
    BY LenProperties DEF IInv, PollerTypeOK
  <2>2. QED  BY <2>1, <1>1
<1>3. PICK l \in Channels : life[l] = "added" /\ index[l] + 1 = n /\ fd[l] = pollfds[n].fd
  BY <1>2 DEF IInv, SlotsAgree, SlotsAreRegistered, Registered
<1>4. fd[l] \in Fds /\ channels[pollfds[n].fd] = l
  BY <1>3 DEF IInv, SlotsAgree, RegisteredHaveSlots, Registered
<1>5. pollfds[i].ev = events[c]
  BY <1>1
<1>6. c \notin pending
  BY DEF NotInBatch, IInv, BatchInv
<1>7. channels[pollfds[n].fd] # NoChannel
  BY <1>4
<1>8. Removable(c)
  BY <1>1, <1>5, <1>7 DEF Removable
<1>0. /\ life' = [life EXCEPT ![c] = "removed"]
      /\ pollfds' = [k \in 1..(n - 1) |-> IF k = i THEN pollfds[n] ELSE pollfds[k]]
      /\ index' = IF i = n THEN index ELSE [index EXCEPT ![l] = i - 1]
      /\ channels' = [channels EXCEPT ![fd[c]] = NoChannel]
      /\ UNCHANGED <<fd, events, handling, active, pending, current, todo, callback,
                     fdset, revents, fault>>
  BY <1>1, <1>4, <1>8 DEF RemoveChannel, TakeOut, batch
<1>9. /\ pollfds' \in Seq(Slot)
      /\ DOMAIN pollfds' = 1..(n - 1)
      /\ \A k \in 1..(n - 1) : pollfds'[k] = IF k = i THEN pollfds[n] ELSE pollfds[k]
  <2>1. pollfds \in Seq(Slot) /\ i \in DOMAIN pollfds
    BY <1>1, Types DEF IInv
  <2>2. /\ pollfds' \in Seq(Slot)
        /\ DOMAIN pollfds' = 1..(n - 1)
    BY <2>1, <1>0, SwapOut, Zenon DEF n
  <2>3. QED  BY <2>2, <1>0
<1>10. /\ index \in [Channels -> Nat \cup {-1}]
       /\ i - 1 \in Nat
       /\ index' \in [Channels -> Nat \cup {-1}]
  <2>1. index \in [Channels -> Nat \cup {-1}] /\ i - 1 \in Nat
    <3>1. index \in [Channels -> Nat \cup {-1}]
      BY Types DEF IInv
    <3>2. QED  BY <3>1, <1>2
  <2>2. QED  BY <2>1, <1>0
<1> HIDE DEF n, i
<1>11. PollerTypeOK' /\ NoFault'
  BY <1>0, <1>9, <1>10 DEF IInv, PollerTypeOK, NoFault
<1>12. /\ life'[c] = "removed"
       /\ \A d \in Channels : d # c => life'[d] = life[d]
       /\ channels'[fd[c]] = NoChannel
       /\ \A f \in Fds : f # fd[c] => channels'[f] = channels[f]
  BY <1>0, <1>1 DEF IInv, PollerTypeOK
<1>13. \A d \in Channels : index'[d] = IF i # n /\ d = l THEN i - 1 ELSE index[d]
  BY <1>0, <1>10
<1>14. i = n <=> c = l
  BY <1>1, <1>3 DEF i, n, IInv, FdInv, InUse
<1>15. RegisteredHaveSlots'
  <2> SUFFICES ASSUME NEW d \in Channels, d # c, life[d] = "added"
               PROVE  /\ fd[d] \in Fds
                      /\ channels'[fd[d]] = d
                      /\ index'[d] + 1 \in 1..(n - 1)
                      /\ pollfds'[index'[d] + 1] = [fd |-> fd[d], ev |-> events[d]]
    <3>1. \A d \in Channels : life'[d] = "added" => d # c /\ life[d] = "added"
      BY <1>12
    <3>2. QED  BY <1>0, <1>9, <3>1 DEF RegisteredHaveSlots, Registered
  <2>0. /\ fd[d] \in Fds /\ channels[fd[d]] = d /\ index[d] + 1 \in 1..n
        /\ pollfds[index[d] + 1] = [fd |-> fd[d], ev |-> events[d]]
    BY <1>2 DEF IInv, SlotsAgree, RegisteredHaveSlots, Registered
  <2>1. fd[d] # fd[c]
    BY <1>1 DEF IInv, FdInv, InUse
  <2>2. channels'[fd[d]] = d
    BY <2>0, <2>1, <1>12
  <2>3. index[d] + 1 # i
    BY <2>0, <2>1, <1>1
  <2>4. CASE d = l
    <3>1. i # n /\ index'[d] + 1 = i /\ i \in 1..(n - 1)
      BY <2>4, <1>14, <1>13, <1>2, <1>10
    <3>2. pollfds'[i] = pollfds[n]
      BY <3>1, <1>9
    <3>3. QED  BY <2>0, <2>2, <2>4, <3>1, <3>2, <1>3
  <2>5. CASE d # l
    <3>1. index[d] + 1 # n
      BY <2>0, <2>5, <1>3 DEF IInv, FdInv, InUse
    <3>2. index'[d] = index[d] /\ index[d] + 1 \in 1..(n - 1)
      BY <2>0, <2>5, <3>1, <1>13, <1>2
    <3>3. QED  BY <2>0, <2>2, <2>3, <3>2, <1>9
  <2>6. QED  BY <2>4, <2>5
<1>16. SlotsAreRegistered'
  <2> SUFFICES ASSUME NEW k \in 1..(n - 1)
               PROVE  \E d \in Channels : life'[d] = "added" /\ index'[d] + 1 = k /\ fd[d] = pollfds'[k].fd
    BY <1>0, <1>9 DEF SlotsAreRegistered, Registered
  <2>1. CASE k = i
    <3>1. i # n /\ l # c
      BY <2>1, <1>2, <1>14
    <3>2. life'[l] = "added" /\ index'[l] + 1 = k /\ fd[l] = pollfds'[k].fd
      BY <2>1, <3>1, <1>3, <1>9, <1>12, <1>13, <1>2, <1>10
    <3>3. QED  BY <3>2
  <2>2. CASE k # i
    <3>1. k \in DOMAIN pollfds /\ k # n
      BY <1>2
    <3>2. PICK d \in Channels : life[d] = "added" /\ index[d] + 1 = k /\ fd[d] = pollfds[k].fd
      BY <3>1 DEF IInv, SlotsAgree, SlotsAreRegistered, Registered
    <3>3. d # c /\ d # l
      BY <2>2, <3>1, <3>2, <1>3 DEF i
    <3>4. life'[d] = "added" /\ index'[d] + 1 = k /\ fd[d] = pollfds'[k].fd
      BY <2>2, <3>2, <3>3, <1>9, <1>12, <1>13
    <3>5. QED  BY <3>4
  <2>3. QED  BY <2>1, <2>2
<1>17. \A d \in Channels : index[d] = -1 <=> index'[d] = -1
  <2>1. i - 1 # -1 /\ index[l] # -1
    BY <1>10, <1>3 DEF IInv, LifeInv
  <2>2. QED  BY <2>1, <1>13
<1>18. LifeInv'
  <2> SUFFICES ASSUME NEW d \in Channels
               PROVE  /\ life'[d] = "none" <=> fd'[d] = NoFd
                      /\ life'[d] \in {"none", "new"} <=> index'[d] = -1
    BY DEF LifeInv
  <2>1. fd' = fd
    BY <1>0
  <2>2. /\ life[d] = "none" <=> fd[d] = NoFd
        /\ life[d] \in {"none", "new"} <=> index[d] = -1
    BY DEF IInv, LifeInv
  <2>3. CASE d = c
    BY <1>1, <1>12, <1>17, <2>1, <2>2, <2>3
  <2>4. CASE d # c
    BY <1>12, <1>17, <2>1, <2>2, <2>4
  <2>5. QED  BY <2>3, <2>4
<1>19. MapInv'
  BY <1>0, <1>1, <1>12, Types DEF IInv, MapInv, Registered
<1>20. FdInv'
  BY <1>0, <1>12 DEF IInv, FdInv, InUse
<1>21. BatchInv'
  BY <1>0, <1>6, <1>12 DEF IInv, BatchInv, BatchRegistered, Registered, PollerTypeOK
<1>22. QED  BY <1>11, <1>15, <1>16, <1>18, <1>19, <1>20, <1>21 DEF IInv, SlotsAgree

\* A channel that is not in the poller may go.
LEMMA DestroyKeeps ==
  ASSUME IInv, NEW c \in Channels, c # current, ~Registered(c), Destroy(c)
  PROVE  IInv'
<1>1. life[c] \in {"new", "removed"} /\ c # current /\ fd[c] \in Fds /\ c \notin pending
  BY DEF Destroy, IInv, LifeInv, PollerTypeOK, Registered, BatchInv, BatchRegistered
<1>2. channels[fd[c]] # c
  BY <1>1 DEF IInv, MapInv, Registered
<1>0. /\ life' = [life EXCEPT ![c] = "none"]
      /\ fd' = [fd EXCEPT ![c] = NoFd]
      /\ events' = [events EXCEPT ![c] = {}]
      /\ index' = [index EXCEPT ![c] = -1]
      /\ revents' = [revents EXCEPT ![c] = {}]
      /\ UNCHANGED <<pollfds, channels, fdset, handling, active, pending, current, todo, callback,
                     fault>>
  BY <1>1, <1>2 DEF Destroy
<1>3. PollerTypeOK' /\ NoFault'
  BY <1>0 DEF IInv, PollerTypeOK, NoFault
<1>4. /\ life'[c] = "none" /\ fd'[c] = NoFd /\ index'[c] = -1
      /\ \A d \in Channels : d # c => /\ life'[d] = life[d] /\ fd'[d] = fd[d]
                                      /\ index'[d] = index[d] /\ events'[d] = events[d]
                                      /\ revents'[d] = revents[d]
  BY <1>0 DEF IInv, PollerTypeOK
<1>5. RegisteredHaveSlots'
  BY <1>0, <1>4 DEF IInv, SlotsAgree, RegisteredHaveSlots, Registered
<1>6. SlotsAreRegistered'
  BY <1>0, <1>1, <1>4 DEF IInv, SlotsAgree, SlotsAreRegistered, Registered
<1>7. LifeInv'
  BY <1>0, <1>4 DEF IInv, LifeInv
<1>8. MapInv'
  BY <1>0, <1>1, <1>4, Types DEF IInv, MapInv, Registered
<1>9. FdInv'
  BY <1>0, <1>4 DEF IInv, FdInv, InUse
<1>10. BatchInv'
  BY <1>0, <1>1, <1>4 DEF IInv, BatchInv, BatchRegistered, Registered, PollerTypeOK
<1>11. QED  BY <1>3, <1>5, <1>6, <1>7, <1>8, <1>9, <1>10 DEF IInv, SlotsAgree

------------------------------------------------------------------------------
(* The loop.                                                                  *)

\* A slot that select() has found leads to a registered channel.
LEMMA FilledRegistered ==
  ASSUME IInv, NEW s, NEW k \in Filled(s)
  PROVE  /\ channels[pollfds[k].fd] \in Channels
         /\ Registered(channels[pollfds[k].fd])
         /\ channels[pollfds[k].fd] # NoChannel
         /\ fd[channels[pollfds[k].fd]] = pollfds[k].fd
<1>1. k \in DOMAIN pollfds
  BY DEF Filled
<1>2. PICK c \in Channels : Registered(c) /\ fd[c] = pollfds[k].fd
  BY <1>1 DEF IInv, SlotsAgree, SlotsAreRegistered
<1>3. channels[fd[c]] = c
  BY <1>2 DEF IInv, SlotsAgree, RegisteredHaveSlots
<1>4. QED  BY <1>2, <1>3

\* What fillActiveChannels finds is registered, so its assertions hold.
LEMMA PollKeeps ==
  ASSUME IInv, NEW s \in [Ready -> SUBSET Fds], SelectPoll(s)
  PROVE  IInv'
<1> DEFINE found == {channels[pollfds[i].fd] : i \in Filled(s)}
<1>3. /\ found \in SUBSET Channels
      /\ \A c \in found : Registered(c)
  BY FilledRegistered
<1>4. \A i \in Filled(s) :
        LET c == channels[pollfds[i].fd]
        IN c # NoChannel /\ fd[c] = pollfds[i].fd
  BY FilledRegistered
<1>5. ~handling /\ pending = {} /\ current = NoChannel /\ callback = "none"
  BY DEF SelectPoll, IInv, BatchInv
<1>0. /\ fdset' = s
      /\ fault' = fault
      /\ revents' = [c \in Channels |-> IF c \in found THEN ReadyIn(s, fd[c]) ELSE revents[c]]
      /\ active' = found
      /\ pending' = found
      /\ handling' = TRUE
      /\ UNCHANGED <<life, fd, events, index, pollfds, channels, current, todo, callback>>
  BY <1>4 DEF SelectPoll, registration
<1> HIDE DEF found
<1>6. revents' \in [Channels -> SUBSET Ready]
  <2>1. revents \in [Channels -> SUBSET Ready]
    BY DEF IInv, PollerTypeOK
  <2>2. \A f : ReadyIn(s, f) \in SUBSET Ready
    BY DEF ReadyIn
  <2>3. QED  BY <2>1, <2>2, <1>0
<1>7. PollerTypeOK' /\ NoFault'
  BY <1>0, <1>3, <1>6 DEF IInv, PollerTypeOK, NoFault
<1>8. SlotsAgree' /\ LifeInv' /\ MapInv' /\ FdInv'
  BY <1>0 DEF IInv, SlotsAgree, RegisteredHaveSlots, SlotsAreRegistered, Registered,
              LifeInv, MapInv, FdInv, InUse
<1>9. BatchInv'
  BY <1>0, <1>3, <1>5 DEF BatchInv, BatchRegistered, Registered
<1>10. QED  BY <1>7, <1>8, <1>9 DEF IInv

\* Serving the batch leaves the registrations alone.
LEMMA ServeKeeps ==
  ASSUME IInv, Serve
  PROVE  IInv'
<1>1. UNCHANGED <<life, fd, events, index, pollfds, channels>>
  BY DEF Serve, HandleEventOf, StartCallback, ReturnCallback, EndHandleEvent, EndBatch,
         registration
<1>2. SlotsAgree' /\ LifeInv' /\ MapInv' /\ FdInv'
  BY <1>1 DEF IInv, SlotsAgree, RegisteredHaveSlots, SlotsAreRegistered, Registered,
              LifeInv, MapInv, FdInv, InUse
<1>3. PollerTypeOK' /\ NoFault' /\ BatchInv'
  <2>1. ASSUME NEW c \in Channels, HandleEventOf(c)
        PROVE  PollerTypeOK' /\ NoFault' /\ BatchInv'
    <3>1. life[c] = "added"
      BY <2>1 DEF HandleEventOf, IInv, BatchInv, BatchRegistered, Registered
    <3>0. /\ handling /\ current = NoChannel /\ c \in pending
          /\ pending' = pending \ {c} /\ current' = c /\ todo' = revents[c]
          /\ fault' = fault
          /\ UNCHANGED <<fdset, revents, handling, active, callback>>
      BY <2>1, <3>1 DEF HandleEventOf
    <3>2. QED  BY <1>1, <3>0, <3>1 DEF IInv, PollerTypeOK, NoFault, BatchInv, BatchRegistered, Registered
  <2>2. ASSUME NEW r \in Ready, StartCallback(r)
        PROVE  PollerTypeOK' /\ NoFault' /\ BatchInv'
    <3>0. /\ current # NoChannel
          /\ todo' = todo \ {r} /\ callback' = r
          /\ UNCHANGED <<fdset, revents, handling, active, pending, current, fault>>
      BY <2>2 DEF StartCallback
    <3>1. QED  BY <1>1, <3>0 DEF IInv, PollerTypeOK, NoFault, BatchInv, BatchRegistered, Registered
  <2>3. CASE ReturnCallback
    <3>0. /\ callback' = "none"
          /\ UNCHANGED <<fdset, revents, handling, active, pending, current, todo, fault>>
      BY <2>3 DEF ReturnCallback
    <3>1. QED  BY <1>1, <3>0 DEF IInv, PollerTypeOK, NoFault, BatchInv, BatchRegistered, Registered
  <2>4. CASE EndHandleEvent
    <3>0. /\ current' = NoChannel
          /\ fault' = fault
          /\ UNCHANGED <<fdset, revents, handling, active, pending, todo, callback>>
      BY <2>4 DEF EndHandleEvent, IInv, BatchInv
    <3>1. NoChannel \notin pending
      BY DEF IInv, PollerTypeOK
    <3>2. callback = "none"
      BY <2>4 DEF EndHandleEvent
    <3>3. QED  BY <1>1, <3>0, <3>1, <3>2 DEF IInv, PollerTypeOK, NoFault, BatchInv, BatchRegistered, Registered
  <2>5. CASE EndBatch
    <3>0. /\ handling /\ current = NoChannel /\ pending = {}
          /\ handling' = FALSE /\ active' = {} /\ fdset' = NoneReady
          /\ revents' = [c \in Channels |-> {}]
          /\ UNCHANGED <<pending, current, todo, callback, fault>>
      BY <2>5 DEF EndBatch
    <3>1. callback = "none"
      BY <3>0 DEF IInv, BatchInv
    <3>2. fdset' \in [Ready -> SUBSET Fds] /\ revents' \in [Channels -> SUBSET Ready]
      BY <3>0 DEF NoneReady
    <3>3. PollerTypeOK' /\ NoFault'
      BY <1>1, <3>0, <3>2 DEF IInv, PollerTypeOK, NoFault
    <3>4. BatchInv'
      BY <3>0, <3>1 DEF BatchInv, BatchRegistered
    <3>5. QED  BY <3>3, <3>4
  <2>6. QED  BY <2>1, <2>2, <2>3, <2>4, <2>5 DEF Serve
<1>4. QED  BY <1>2, <1>3 DEF IInv

\* What the owners of channels do keeps the invariant.
LEMMA OwnersKeep ==
  ASSUME IInv, Owners
  PROVE  IInv'
<1> SUFFICES ASSUME NEW c \in Channels,
                    \/ \E f \in Fds : Construct(c, f)
                    \/ \E e \in Asked : Enable(c, e)
                    \/ \E es \in SUBSET Asked \ {{}} : Disable(c, es)
                    \/ RemoveChannel(c)
                    \/ Destroy(c)
             PROVE  IInv'
  BY DEF Owners
<1>1. events[c] \in SUBSET Asked
  BY DEF IInv, PollerTypeOK
<1>2. ASSUME NEW e \in Asked, Enable(c, e)
      PROVE  IInv'
  BY <1>1, <1>2, UpdateKeeps DEF Enable
<1>3. ASSUME NEW es \in SUBSET Asked \ {{}}, Disable(c, es)
      PROVE  IInv'
  BY <1>1, <1>3, UpdateKeeps DEF Disable
<1>4. CASE RemoveChannel(c)
  <2>1. CASE Registered(c) /\ events[c] = {} /\ NotInBatch(c)
    BY <1>4, <2>1, RemoveKeeps
  <2>2. CASE ~Registered(c) \/ events[c] # {} \/ ~NotInBatch(c)
    <3>1. ~(events[c] = {} /\ NotInBatch(c) /\ Removable(c))
      <4>1. CASE Registered(c)
        BY <2>2, <4>1
      <4>2. CASE ~Registered(c)
        <5>1. fd[c] \in Fds
          BY <1>4, Types DEF RemoveChannel, IInv, LifeInv
        <5>2. channels[fd[c]] # c
          BY <4>2, <5>1 DEF IInv, MapInv, PollerTypeOK
        <5>3. QED  BY <5>2 DEF Removable
      <4>3. QED  BY <4>1, <4>2
    <3>2. Fails(TRUE)
      BY <1>4, <2>2, <3>1 DEF RemoveChannel
    <3>3. QED  BY <3>2, FailsKeeps
  <2>3. QED  BY <2>1, <2>2
<1>5. CASE Destroy(c)
  <2>1. CASE c # current /\ ~Registered(c)
    BY <1>5, <2>1, DestroyKeeps
  <2>2. CASE ~(c # current /\ ~Registered(c))
    <3>1. Fails(TRUE)
      BY <1>5, <2>2 DEF Destroy
    <3>2. QED  BY <3>1, FailsKeeps
  <2>3. QED  BY <2>1, <2>2
<1>6. QED  BY <1>2, <1>3, <1>4, <1>5, ConstructKeeps

\* Every step keeps the invariant.
LEMMA NextKeeps ==
  ASSUME IInv, [PollerNext]_pollerVars
  PROVE  IInv'
<1>1. CASE UNCHANGED pollerVars
  <2>1. PollerTypeOK' /\ NoFault'
    BY <1>1 DEF pollerVars, IInv, PollerTypeOK, NoFault
  <2>2. SlotsAgree' /\ LifeInv' /\ MapInv' /\ FdInv' /\ BatchInv'
    BY <1>1 DEF pollerVars, IInv, SlotsAgree, RegisteredHaveSlots, SlotsAreRegistered,
                Registered, LifeInv, MapInv, FdInv, InUse, BatchInv, BatchRegistered
  <2>3. QED  BY <2>1, <2>2 DEF IInv
<1>2. CASE PollerNext
  BY <1>2, OwnersKeep, PollKeeps, ServeKeeps DEF PollerNext
<1>3. QED  BY <1>1, <1>2

\* Every state of the loop satisfies the invariant.
THEOREM Invariant == PollerSpec => []IInv
  BY InitEstablishes, NextKeeps, PTL DEF PollerSpec

\* Every variable always has its type.
THEOREM PollerTypeCorrect == PollerSpec => []PollerTypeOK
<1>1. IInv => PollerTypeOK
  BY DEF IInv
<1>2. QED  BY <1>1, Invariant, PTL

\* m_pollfds, m_channels and the channels' indices agree for any channels and
\* descriptors and any sequence of registrations and removals.
THEOREM SlotsAlwaysAgree == PollerSpec => []SlotsAgree
<1>1. IInv => SlotsAgree
  BY DEF IInv
<1>2. QED  BY <1>1, Invariant, PTL

\* No assertion about the poller's own tables fails and no destroyed channel is
\* used, whatever owners do to their channels and from whichever callback.
THEOREM NeverFaults == PollerSpec => []NoFault
<1>1. IInv => NoFault
  BY DEF IInv
<1>2. QED  BY <1>1, Invariant, PTL

\* Tables, indices and channels agree, in the middle of a batch too.
THEOREM AlwaysAgree == PollerSpec => []ChannelsAgree
<1>1. SlotsAgree /\ NoFault => ChannelsAgree
  BY DEF ChannelsAgree
<1>2. QED  BY <1>1, SlotsAlwaysAgree, NeverFaults, PTL

\* Whatever the callbacks before it do, a channel of the batch that has not been
\* served is registered and has the events that select() found for it.
THEOREM BatchStaysRegistered == PollerSpec => []BatchRegistered
<1>1. IInv => BatchRegistered
  BY DEF IInv, BatchInv
<1>2. QED  BY <1>1, Invariant, PTL
=============================================================================

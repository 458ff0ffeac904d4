-------------------------- MODULE TimerQueueProofs --------------------------
(****************************************************************************)
(* What TimerQueue.tla guarantees, for any set of addresses and any number of  *)
(* timers, proved; and, in the second half, what MinHeap.tla guarantees of     *)
(* the heap they are in, for any elements, keys and sizes: between two calls   *)
(* the array is a heap, indices and array agree, and pop() returns a least     *)
(* element.                                                                    *)
(****************************************************************************)
EXTENDS TimerQueue, MinHeap, SequenceTheorems, FiniteSetTheorems, WellFoundedInduction, TLAPS

(* The elements of a sequence.                                              *)

\* A vector with nothing in it has no elements.
LEMMA ToSetEmpty == ToSet(<<>>) = {}
  BY DEF ToSet

\* push_back adds its argument and nothing else.
LEMMA ToSetAppend ==
  ASSUME NEW S, NEW s \in Seq(S), NEW e \in S
  PROVE  ToSet(Append(s, e)) = ToSet(s) \cup {e}
<1>1. /\ DOMAIN s = 1..Len(s)
      /\ DOMAIN Append(s, e) = 1..(Len(s) + 1)
      /\ Len(s) \in Nat
  BY AppendProperties, LenProperties
<1>2. ToSet(Append(s, e)) \subseteq ToSet(s) \cup {e}
  BY <1>1, AppendProperties DEF ToSet
<1>3. ToSet(s) \cup {e} \subseteq ToSet(Append(s, e))
  BY <1>1, AppendProperties DEF ToSet
<1>4. QED  BY <1>2, <1>3

\* Taking the first element off splits the elements into it and the rest.
LEMMA ToSetHeadTail ==
  ASSUME NEW S, NEW s \in Seq(S), s # <<>>
  PROVE  ToSet(s) = {Head(s)} \cup ToSet(Tail(s))
<1>1. /\ DOMAIN s = 1..Len(s)
      /\ DOMAIN Tail(s) = 1..(Len(s) - 1)
      /\ Len(s) \in Nat \ {0}
      /\ Head(s) = s[1]
      /\ \A i \in 1..(Len(s) - 1) : Tail(s)[i] = s[i + 1]
  BY HeadTailProperties, LenProperties, EmptySeq
<1>2. ToSet(s) \subseteq {Head(s)} \cup ToSet(Tail(s))
  <2> SUFFICES ASSUME NEW i \in 1..Len(s), i # 1
               PROVE  s[i] \in ToSet(Tail(s))
    BY <1>1 DEF ToSet
  <2>1. i - 1 \in 1..(Len(s) - 1) /\ s[i] = Tail(s)[i - 1]
    BY <1>1
  <2>2. QED  BY <2>1, <1>1 DEF ToSet
<1>3. {Head(s)} \cup ToSet(Tail(s)) \subseteq ToSet(s)
  BY <1>1 DEF ToSet
<1>4. QED  BY <1>2, <1>3

------------------------------------------------------------------------------
USE TimerAssumption DEF TimerAssumption

Live(a, n) == timer[a] # Free /\ timer[a].seq = n

\* The containers hold the same timers, at whose addresses they are.
ActiveInv ==
  /\ \A a \in Addrs, n \in Seqs : <<a, n>> \in active => a \in heap /\ Live(a, n)
  /\ \A a \in heap : timer[a] # Free /\ <<a, timer[a].seq>> \in active

\* A functor that adds a timer is queued once; until then nobody else has it.
QueuedInv ==
  /\ \A a \in Addrs, n \in Seqs :
       <<a, n>> \in PendingAdds =>
         /\ Live(a, n)
         /\ a \notin heap
         /\ phase = "run" => a # running
  /\ \A i, j \in DOMAIN pending :
       pending[i].op = "add" /\ pending[i] = pending[j] => i = j

\* The timer whose callback runs is in neither container, and is noted as run.
RunInv ==
  phase = "run" =>
    /\ running \in Addrs /\ timer[running] # Free /\ running \notin heap
    /\ timer[running].seq \in ran

\* Nothing leaks.
OwnedInv ==
  \A a \in Addrs : timer[a] # Free =>
    \/ a \in heap
    \/ <<a, timer[a].seq>> \in PendingAdds
    \/ phase = "run" /\ a = running

\* Sequence numbers are never given twice.
SeqInv ==
  \A a \in Addrs : timer[a] # Free =>
    /\ timer[a].seq < numCreated
    /\ \A b \in Addrs : timer[b] # Free /\ timer[b].seq = timer[a].seq => a = b

\* What the assertions compare.
CountInv ==
  /\ IsFiniteSet(heap) /\ IsFiniteSet(active)
  /\ Cardinality(heap) = Cardinality(active)

\* A deleted timer's number is not in use.
StoppedInv ==
  \A n \in stopped :
    /\ n < numCreated
    /\ \A a \in Addrs : timer[a] # Free => timer[a].seq # n

\* A functor that cancels a timer has been queued by a cancel() of that timer.
CancelsInv ==
  \A i \in DOMAIN pending : pending[i].op = "cancel" => pending[i].id[2] \in cancels \cup Misnamed

\* What every step keeps, the last one before a fault included ...
Core ==
  /\ TypeOK
  /\ ActiveInv
  /\ QueuedInv
  /\ RunInv
  /\ OwnedInv
  /\ SeqInv
  /\ CountInv
  /\ StoppedInv
  /\ CancelsInv
  /\ UncancelledKept

\* ... and what holds while the queue goes on.
Unharmed == fault = "none"
IInv == Core /\ Unharmed

------------------------------------------------------------------------------
(* The queued functors.                                                       *)

\* Queueing an addTimerInLoop adds its timer to the pending ones.
LEMMA AppendAdd ==
  ASSUME pending \in Seq(Functor), NEW id \in TimerId,
         pending' = Append(pending, [op |-> "add", id |-> id])
  PROVE  PendingAdds' = PendingAdds \cup {id}
<1>1. [op |-> "add", id |-> id] \in Functor
  BY DEF Functor
<1>2. ToSet(pending') = ToSet(pending) \cup {[op |-> "add", id |-> id]}
  BY <1>1, ToSetAppend
<1> QED
  BY <1>2 DEF PendingAdds

\* Queueing a cancelInLoop adds none.
LEMMA AppendCancel ==
  ASSUME pending \in Seq(Functor), NEW id \in TimerId,
         pending' = Append(pending, [op |-> "cancel", id |-> id])
  PROVE  PendingAdds' = PendingAdds
<1>1. [op |-> "cancel", id |-> id] \in Functor
  BY DEF Functor
<1>2. ToSet(pending') = ToSet(pending) \cup {[op |-> "cancel", id |-> id]}
  BY <1>1, ToSetAppend
<1>3. \A i \in TimerId : [op |-> "add", id |-> i] # [op |-> "cancel", id |-> id]
  OBVIOUS
<1> QED
  BY <1>2, <1>3 DEF PendingAdds

\* Executing the first functor removes exactly what it adds.
LEMMA TakeFunctor ==
  ASSUME pending \in Seq(Functor), pending # <<>>, pending' = Tail(pending), QueuedInv
  PROVE  /\ Head(pending) \in Functor
         /\ Head(pending).op = "add" =>
              /\ Head(pending).id \in PendingAdds
              /\ PendingAdds' = PendingAdds \ {Head(pending).id}
         /\ Head(pending).op = "cancel" =>
              /\ Head(pending).id[2] \in cancels \cup Misnamed \/ ~CancelsInv
              /\ PendingAdds' = PendingAdds
<1> DEFINE h == Head(pending)
<1>1. /\ DOMAIN pending = 1..Len(pending)
      /\ DOMAIN pending' = 1..(Len(pending) - 1)
      /\ Len(pending) \in Nat \ {0}
      /\ h = pending[1]
      /\ \A i \in 1..(Len(pending) - 1) : pending'[i] = pending[i + 1]
      /\ h \in Functor
  BY HeadTailProperties, EmptySeq, LenProperties
<1>2. ToSet(pending) = {h} \cup ToSet(pending')
  BY ToSetHeadTail
<1>3. h = [op |-> h.op, id |-> h.id] /\ h.id \in TimerId /\ h.op \in {"add", "cancel"}
  BY <1>1 DEF Functor
<1>4. ASSUME h.op = "add" PROVE h \notin ToSet(pending')
  <2>1. SUFFICES ASSUME NEW i \in 1..(Len(pending) - 1), pending[i + 1] = h PROVE FALSE
    BY <1>1 DEF ToSet
  <2>2. 1 \in DOMAIN pending /\ i + 1 \in DOMAIN pending /\ i + 1 # 1
    BY <1>1
  <2> QED
    BY <1>1, <1>4, <2>1, <2>2 DEF QueuedInv
<1>5. h.op = "add" => h.id \in PendingAdds
  BY <1>2, <1>3 DEF PendingAdds
<1>6. ASSUME h.op = "add" PROVE PendingAdds' = PendingAdds \ {h.id}
  <2>1. \A i \in TimerId : [op |-> "add", id |-> i] = h <=> i = h.id
    BY <1>3, <1>6
  <2> QED
    BY <1>2, <1>4, <1>6, <2>1 DEF PendingAdds
<1>7. ASSUME h.op = "cancel" PROVE PendingAdds' = PendingAdds
  <2>1. \A i \in TimerId : [op |-> "add", id |-> i] # h
    BY <1>3, <1>7
  <2> QED
    BY <1>2, <2>1 DEF PendingAdds
<1>8. h.op = "cancel" => h.id[2] \in cancels \cup Misnamed \/ ~CancelsInv
  BY <1>1 DEF CancelsInv
<1> QED
  BY <1>1, <1>5, <1>6, <1>7, <1>8

------------------------------------------------------------------------------
(* One lemma per action.                                                      *)

LEMMA InitInv == ASSUME Init PROVE IInv
<1> USE DEF Init
<1>1. PendingAdds = {}
  BY ToSetEmpty DEF PendingAdds
<1>2. TypeOK
  BY DEF TypeOK
<1>3. CountInv
  BY FS_EmptySet DEF CountInv
<1>4. UncancelledKept
  BY DEF UncancelledKept, Seqs
<1> QED
  BY <1>1, <1>2, <1>3, <1>4 DEF IInv, Core, Unharmed, ActiveInv, OwnedInv, QueuedInv, SeqInv, RunInv,
     StoppedInv, CancelsInv

\* An id that names its own timer misnames none.
LEMMA HandOutRight ==
  ASSUME NEW a, NEW n, HandOut(n, <<a, n>>)
  PROVE  Misnamed' = Misnamed
<1> DEFINE i == [meant |-> n, id |-> <<a, n>>]
<1>1. ids' = ids \cup {i} /\ i.id[2] = i.meant
  BY DEF HandOut
<1> HIDE DEF i
<1> QED
  BY <1>1 DEF Misnamed

\* An id once handed out is not taken back.
LEMMA HandOutMore ==
  ASSUME NEW n, NEW id, HandOut(n, id)
  PROVE  Misnamed \subseteq Misnamed'
  BY DEF HandOut, Misnamed

\* What the history says of the ids.
LEMMA HandedTypes ==
  ASSUME TypeOK, NEW i \in ids
  PROVE  i.id \in TimerId /\ i.meant \in Seqs /\ (i.id[2] = i.meant \/ i.id[2] \in Misnamed)
<1>1. i \in Handed
  BY DEF TypeOK
<1> QED
  BY <1>1 DEF Handed, Misnamed

\* What TypeOK says of the timers and the containers.
LEMMA Types ==
  ASSUME TypeOK
  PROVE  /\ timer \in [Addrs -> Timer \cup {Free}]
         /\ \A a \in Addrs : timer[a] # Free => timer[a] \in Timer /\ timer[a].seq \in Seqs
         /\ heap \subseteq Addrs
         /\ active \subseteq TimerId
         /\ numCreated \in Nat /\ numCreated \in 0..MaxSeq
         /\ stopped \subseteq Seqs /\ Seqs \subseteq Nat
         /\ \A id \in TimerId : id = <<id[1], id[2]>> /\ id[1] \in Addrs /\ id[2] \in Seqs
<1>1. \A t \in Timer : t.seq \in Seqs
  BY DEF Timer
<1>2. \A id \in TimerId : id = <<id[1], id[2]>> /\ id[1] \in Addrs /\ id[2] \in Seqs
  BY DEF TimerId
<1>3. timer \in [Addrs -> Timer \cup {Free}]
  BY DEF TypeOK
<1>4. \A a \in Addrs : timer[a] # Free => timer[a] \in Timer
  BY <1>3
<1>5. heap \subseteq Addrs /\ active \subseteq TimerId /\ stopped \subseteq Seqs
  BY DEF TypeOK
<1>6. numCreated \in Nat /\ numCreated \in 0..MaxSeq
  <2>1. numCreated \in 0..MaxSeq
    BY DEF TypeOK
  <2> QED
    BY <2>1
<1>7. Seqs \subseteq Nat
  BY DEF Seqs
<1> QED
  BY <1>7, <1>1, <1>2, <1>3, <1>4, <1>5, <1>6

\* The sizes that the assertions compare change together.
LEMMA CountAdd ==
  ASSUME CountInv, NEW a, NEW id, a \notin heap, id \notin active,
         heap' = heap \cup {a}, active' = active \cup {id}
  PROVE  CountInv'
<1>1. IsFiniteSet(heap) /\ IsFiniteSet(active)
  BY DEF CountInv
<1>2. /\ IsFiniteSet(heap \cup {a})
      /\ Cardinality(heap \cup {a}) = Cardinality(heap) + 1
  BY <1>1, FS_AddElement
<1>3. /\ IsFiniteSet(active \cup {id})
      /\ Cardinality(active \cup {id}) = Cardinality(active) + 1
  BY <1>1, FS_AddElement
<1> QED
  BY <1>2, <1>3 DEF CountInv

LEMMA CountRemove ==
  ASSUME CountInv, NEW a, NEW id, a \in heap, id \in active,
         heap' = heap \ {a}, active' = active \ {id}
  PROVE  CountInv'
<1>1. IsFiniteSet(heap) /\ IsFiniteSet(active)
  BY DEF CountInv
<1>2. /\ IsFiniteSet(heap \ {a})
      /\ Cardinality(heap \ {a}) = Cardinality(heap) - 1
  BY <1>1, FS_RemoveElement
<1>3. /\ IsFiniteSet(active \ {id})
      /\ Cardinality(active \ {id}) = Cardinality(active) - 1
  BY <1>1, FS_RemoveElement
<1> QED
  BY <1>2, <1>3 DEF CountInv

\* The timer's address and number join the containers.
LEMMA LoopAddTimerInv ==
  ASSUME IInv, NEW a \in Addrs, NEW t \in Timer, LoopAddTimer(a, t)
  PROVE  IInv'
<1> USE DEF IInv, Core
<1>0. /\ UNCHANGED <<pending, now, pollTime, phase, running, adding, ran, cancels, stopped>>
      /\ heap' = heap \cup {a}
      /\ active' = active \cup {<<a, t.seq>>}
      /\ fault' = Asserted(<<a, t.seq>> \notin active)
      /\ numCreated < MaxSeq /\ numCreated' = numCreated + 1
      /\ HandOut(t.seq, <<a, t.seq>>)
      /\ timer' = [timer EXCEPT ![a] = t] /\ timer[a] = Free
      /\ t.seq = numCreated
  BY DEF LoopAddTimer, NewTimer, AddInLoop, clock
<1>1. PendingAdds' = PendingAdds /\ Misnamed' = Misnamed
  BY <1>0, HandOutRight DEF PendingAdds
<1>2. /\ t.seq = numCreated /\ t.seq \in Seqs /\ t # Free
      /\ timer[a] = Free /\ timer'[a] = t
      /\ \A b \in Addrs : b # a => timer'[b] = timer[b]
  BY <1>0, Types DEF Timer
<1>3. a \notin heap /\ <<a, t.seq>> \notin active
  BY <1>2 DEF ActiveInv, Live
<1>4. TypeOK'
  <2>1. numCreated' \in 0..MaxSeq
    BY <1>0, Types
  <2>2. timer' \in [Addrs -> Timer \cup {Free}]
    BY <1>0, Types
  <2>3. <<a, t.seq>> \in TimerId
    BY <1>2 DEF TimerId
  <2>4. fault' \in {"none", "assert", "use after free", "read after free"}
    BY <1>0 DEF TypeOK, Asserted
  <2>5. ids' \in SUBSET Handed
    <3>1. [meant |-> t.seq, id |-> <<a, t.seq>>] \in Handed
      BY <1>2, <2>3 DEF Handed
    <3> QED
      BY <1>0, <3>1 DEF TypeOK, HandOut
  <2> QED
    BY <1>0, <2>1, <2>2, <2>3, <2>4, <2>5 DEF TypeOK
<1>5. CountInv' /\ Unharmed'
  BY <1>0, <1>3, CountAdd DEF CountInv, Unharmed, Asserted
<1>6. ActiveInv'
  BY <1>0, <1>2, <1>3, Types DEF ActiveInv, Live
<1>7. QueuedInv' /\ RunInv'
  BY <1>0, <1>1, <1>2, Types DEF QueuedInv, Live, RunInv
<1>8. OwnedInv'
  BY <1>0, <1>1, <1>2, Types DEF OwnedInv
<1>9. SeqInv'
  BY <1>0, <1>2, Types DEF SeqInv
<1>10. StoppedInv'
  BY <1>0, <1>2, Types DEF StoppedInv
<1>11. CancelsInv'
  BY <1>0, <1>1 DEF CancelsInv
<1>12. UncancelledKept'
  <2>1. \A n \in Seqs : n < numCreated' => n < numCreated \/ n = t.seq
    BY <1>0, <1>2, Types
  <2> QED
    BY <1>0, <1>1, <2>1 DEF UncancelledKept
<1> QED
  BY <1>4, <1>5, <1>6, <1>7, <1>8, <1>9, <1>10, <1>11, <1>12

\* What cancelInLoop does to the containers, to the timer and to the others.
LEMMA CancelEffect ==
  ASSUME IInv, NEW id \in TimerId, CancelInLoop(id), NoteCancel(id)
  PROVE  /\ id \in active =>
              /\ heap' = heap \ {id[1]} /\ active' = active \ {id}
              /\ timer' = [timer EXCEPT ![id[1]] = Free]
              /\ id[1] \in heap /\ Live(id[1], id[2])
              /\ stopped' = stopped \cup {id[2]}
         /\ id \notin active => UNCHANGED <<heap, active, timer, stopped>>
         /\ CountInv' /\ Unharmed'
<1> USE DEF IInv, Core
<1>1. id = <<id[1], id[2]>> /\ id[1] \in Addrs /\ id[2] \in Seqs
  BY Types
<1>2. ASSUME id \in active
      PROVE  /\ heap' = heap \ {id[1]} /\ active' = active \ {id}
             /\ timer' = [timer EXCEPT ![id[1]] = Free]
             /\ id[1] \in heap /\ Live(id[1], id[2])
             /\ stopped' = stopped \cup {id[2]}
             /\ fault' = Asserted(id[1] \in heap)
  BY <1>1, <1>2 DEF CancelInLoop, NoteCancel, ActiveInv
<1>3. ASSUME id \notin active
      PROVE  UNCHANGED <<heap, active, timer, stopped>>
             /\ fault' = Asserted(TRUE)
  <2>1. active \ {id} = active
    BY <1>3
  <2>2. timer' = timer
    BY <1>3, <1>1, Types DEF CancelInLoop
  <2> QED
    BY <1>3, <2>1, <2>2 DEF CancelInLoop, NoteCancel, Asserted
<1>4. CountInv'
  BY <1>2, <1>3, CountRemove DEF CountInv
<1>5. Unharmed'
  BY <1>2, <1>3 DEF Unharmed, Asserted, CountInv
<1> QED
  BY <1>2, <1>3, <1>4, <1>5

\* A cancelInLoop leaves the invariant intact, whatever else is unchanged.
LEMMA CancelInLoopInv ==
  ASSUME IInv, NEW id \in TimerId, CancelInLoop(id), NoteCancel(id),
         PendingAdds' = PendingAdds, Misnamed' = Misnamed,
         id[2] \in cancels' \cup Misnamed, cancels \subseteq cancels',
         UNCHANGED <<numCreated, phase, running, ran>>
  PROVE  /\ ActiveInv' /\ OwnedInv' /\ SeqInv' /\ StoppedInv' /\ UncancelledKept' /\ RunInv'
         /\ \A a \in Addrs, n \in Seqs : <<a, n>> \in PendingAdds =>
              Live(a, n)' /\ a \notin heap' /\ (phase' = "run" => a # running')
         /\ timer' \in [Addrs -> Timer \cup {Free}]
         /\ heap' \in SUBSET Addrs /\ active' \in SUBSET TimerId /\ stopped' \in SUBSET Seqs
<1> USE DEF IInv, Core
<1>1. id = <<id[1], id[2]>> /\ id[1] \in Addrs /\ id[2] \in Seqs
  BY Types
<1>2. CASE id \in active
  <2>1. /\ heap' = heap \ {id[1]} /\ active' = active \ {id}
        /\ timer' = [timer EXCEPT ![id[1]] = Free]
        /\ id[1] \in heap /\ Live(id[1], id[2])
        /\ stopped' = stopped \cup {id[2]}
    BY <1>2, CancelEffect
  <2>2. /\ timer' \in [Addrs -> Timer \cup {Free}]
        /\ timer'[id[1]] = Free
        /\ \A b \in Addrs : b # id[1] => timer'[b] = timer[b]
    BY <1>1, <2>1, Types
  <2>3. \A n \in Seqs : <<id[1], n>> \in active => n = id[2]
    BY <1>1, <2>1 DEF ActiveInv, Live
  <2>4. ActiveInv'
    BY <1>1, <2>1, <2>2, <2>3, Types DEF ActiveInv, Live
  <2>5. OwnedInv' /\ RunInv'
    BY <1>1, <2>1, <2>2, Types DEF OwnedInv, RunInv
  <2>6. SeqInv'
    BY <2>2 DEF SeqInv
  <2>7. StoppedInv'
    BY <1>1, <2>1, <2>2 DEF StoppedInv, SeqInv, Live
  <2>8. UncancelledKept'
    BY <1>1, <2>1 DEF UncancelledKept
  <2>9. \A a \in Addrs, n \in Seqs : <<a, n>> \in PendingAdds =>
          Live(a, n)' /\ a \notin heap' /\ (phase' = "run" => a # running')
    BY <1>1, <2>1, <2>2 DEF QueuedInv, Live
  <2>10. heap' \in SUBSET Addrs /\ active' \in SUBSET TimerId /\ stopped' \in SUBSET Seqs
    BY <1>1, <2>1, Types
  <2> QED
    BY <2>2, <2>4, <2>5, <2>6, <2>7, <2>8, <2>9, <2>10
<1>3. CASE id \notin active
  <2>1. UNCHANGED <<heap, active, timer, stopped>>
    BY <1>3, CancelEffect
  <2>2. UncancelledKept'
    BY <2>1 DEF UncancelledKept
  <2> QED
    BY <2>1, <2>2, Types DEF ActiveInv, OwnedInv, SeqInv, StoppedInv, RunInv, QueuedInv, Live
<1> QED
  BY <1>2, <1>3

LEMMA LoopCancelInv ==
  ASSUME IInv, NEW i \in ids, LoopCancel(i)
  PROVE  IInv'
<1> USE DEF IInv, Core
<1> DEFINE id == i.id
<1>0. /\ UNCHANGED <<pending, numCreated, now, pollTime, phase, running, adding, ids, ran>>
      /\ CancelInLoop(id) /\ NoteCancel(id)
      /\ cancels' = cancels \cup {i.meant}
  BY DEF LoopCancel, clock
<1>1. PendingAdds' = PendingAdds /\ Misnamed' = Misnamed
  BY <1>0 DEF PendingAdds, Misnamed
<1>2. id \in TimerId /\ i.meant \in Seqs /\ id[2] \in cancels' \cup Misnamed
  BY <1>0, HandedTypes
<1> HIDE DEF id
<1>3. /\ ActiveInv' /\ OwnedInv' /\ SeqInv' /\ StoppedInv' /\ UncancelledKept' /\ RunInv'
      /\ \A a \in Addrs, n \in Seqs : <<a, n>> \in PendingAdds =>
           Live(a, n)' /\ a \notin heap' /\ (phase' = "run" => a # running')
      /\ timer' \in [Addrs -> Timer \cup {Free}]
      /\ heap' \in SUBSET Addrs /\ active' \in SUBSET TimerId /\ stopped' \in SUBSET Seqs
  BY <1>0, <1>1, <1>2, CancelInLoopInv
<1>4. CountInv' /\ Unharmed'
  BY <1>0, <1>2, CancelEffect
<1>5. QueuedInv'
  BY <1>0, <1>1, <1>3 DEF QueuedInv
<1>6. CancelsInv'
  BY <1>0, <1>1 DEF CancelsInv
<1>7. TypeOK'
  BY <1>0, <1>2, <1>3, <1>4 DEF TypeOK, Unharmed
<1> QED
  BY <1>3, <1>4, <1>5, <1>6, <1>7

LEMMA AddTimerInv ==
  ASSUME IInv, NEW u \in Users, NEW a \in Addrs, NEW t \in Timer, AddTimer(u, a, t)
  PROVE  IInv'
<1> USE DEF IInv, Core
<1>0. /\ UNCHANGED <<heap, active, now, pollTime, phase, running, fault, ids, ran, cancels, stopped>>
      /\ pending' = Append(pending, [op |-> "add", id |-> <<a, t.seq>>])
      /\ numCreated < MaxSeq /\ numCreated' = numCreated + 1
      /\ adding' = [adding EXCEPT ![u] = <<a, t.seq>>]
      /\ timer' = [timer EXCEPT ![a] = t] /\ timer[a] = Free
      /\ t.seq = numCreated
  BY DEF AddTimer, NewTimer, clock
<1>1. /\ t.seq \in Seqs /\ t # Free
      /\ timer'[a] = t
      /\ \A b \in Addrs : b # a => timer'[b] = timer[b]
  BY <1>0, Types DEF Timer
<1>2. <<a, t.seq>> \in TimerId /\ pending \in Seq(Functor)
  BY <1>1 DEF TimerId, TypeOK
<1>3. PendingAdds' = PendingAdds \cup {<<a, t.seq>>} /\ Misnamed' = Misnamed
  BY <1>0, <1>2, AppendAdd DEF Misnamed
<1>4. a \notin heap /\ (phase = "run" => running # a)
  BY <1>0 DEF ActiveInv, RunInv
<1>5. /\ [op |-> "add", id |-> <<a, t.seq>>] \in Functor
      /\ pending' \in Seq(Functor)
      /\ DOMAIN pending = 1..Len(pending) /\ Len(pending) \in Nat
      /\ DOMAIN pending' = 1..(Len(pending) + 1)
      /\ \A i \in DOMAIN pending : pending'[i] = pending[i]
      /\ pending'[Len(pending) + 1] = [op |-> "add", id |-> <<a, t.seq>>]
  <2>1. [op |-> "add", id |-> <<a, t.seq>>] \in Functor
    BY <1>2 DEF Functor
  <2> QED
    BY <1>0, <1>2, <2>1, AppendProperties, LenProperties
<1>6. \A i \in DOMAIN pending : pending[i] # [op |-> "add", id |-> <<a, t.seq>>]
  <2>1. <<a, t.seq>> \notin PendingAdds
    BY <1>0, <1>1 DEF QueuedInv, Live
  <2> QED
    BY <1>2, <2>1 DEF PendingAdds, ToSet
<1>7. TypeOK'
  <2>1. numCreated' \in 0..MaxSeq
    BY <1>0, Types
  <2>2. timer' \in [Addrs -> Timer \cup {Free}]
    BY <1>0, Types
  <2>3. adding' \in [Users -> TimerId \cup {None}]
    BY <1>0, <1>2 DEF TypeOK
  <2> QED
    BY <1>0, <1>2, <1>5, <2>1, <2>2, <2>3 DEF TypeOK
<1>8. Unharmed' /\ CountInv'
  BY <1>0 DEF Unharmed, CountInv
<1>9. ActiveInv'
  BY <1>0, <1>1, <1>4, Types DEF ActiveInv, Live
<1>10. QueuedInv'
  <2>1. \A b \in Addrs, n \in Seqs : <<b, n>> \in PendingAdds' =>
          Live(b, n)' /\ b \notin heap' /\ (phase' = "run" => b # running')
    BY <1>0, <1>1, <1>3, <1>4 DEF QueuedInv, Live
  <2>2. \A i, j \in DOMAIN pending' :
          pending'[i].op = "add" /\ pending'[i] = pending'[j] => i = j
    BY <1>5, <1>6 DEF QueuedInv
  <2> QED
    BY <2>1, <2>2 DEF QueuedInv
<1>11. RunInv' /\ OwnedInv'
  BY <1>0, <1>1, <1>3, <1>4 DEF RunInv, OwnedInv
<1>12. SeqInv'
  BY <1>0, <1>1, Types DEF SeqInv
<1>13. StoppedInv'
  BY <1>0, <1>1, Types DEF StoppedInv
<1>14. CancelsInv'
  BY <1>0, <1>3, <1>5 DEF CancelsInv
<1>15. UncancelledKept'
  <2>1. \A n \in Seqs : n < numCreated' => n < numCreated \/ n = t.seq
    BY <1>0, <1>1, Types
  <2> QED
    BY <1>0, <1>3, <2>1 DEF UncancelledKept
<1> QED
  BY <1>7, <1>8, <1>9, <1>10, <1>11, <1>12, <1>13, <1>14, <1>15

\* The late read touches nothing of the queue.
LEMMA ReadIdCore ==
  ASSUME IInv, NEW u \in Users, ReadId(u)
  PROVE  Core'
<1> USE DEF IInv, Core
<1> DEFINE a == adding[u][1]
<1>0. /\ UNCHANGED <<timer, heap, active, pending, numCreated, now, pollTime, phase, running,
                     ran, cancels, stopped>>
      /\ adding[u] # None
      /\ \/ /\ timer[a] # Free /\ HandOut(adding[u][2], <<a, timer[a].seq>>)
            /\ adding' = [adding EXCEPT ![u] = None] /\ UNCHANGED fault
         \/ /\ fault' = "read after free" /\ UNCHANGED <<ids, adding>>
  BY DEF ReadId, clock
<1>1. adding[u] \in TimerId /\ a \in Addrs /\ adding[u][2] \in Seqs
  BY <1>0, Types DEF TypeOK
<1>2. PendingAdds' = PendingAdds /\ Misnamed \subseteq Misnamed'
  BY <1>0, HandOutMore DEF PendingAdds, Misnamed
<1>3. TypeOK'
  <2>1. ASSUME timer[a] # Free, HandOut(adding[u][2], <<a, timer[a].seq>>)
        PROVE  ids' \in SUBSET Handed
    <3>1. <<a, timer[a].seq>> \in TimerId
      BY <1>1, <2>1, Types DEF TimerId
    <3>2. [meant |-> adding[u][2], id |-> <<a, timer[a].seq>>] \in Handed
      BY <1>1, <3>1 DEF Handed
    <3> QED
      BY <2>1, <3>2 DEF HandOut, TypeOK
  <2>2. ids' \in SUBSET Handed
    BY <1>0, <2>1 DEF TypeOK
  <2>3. adding' \in [Users -> TimerId \cup {None}]
    BY <1>0 DEF TypeOK
  <2>4. fault' \in {"none", "assert", "use after free", "read after free"}
    BY <1>0 DEF TypeOK
  <2> QED
    BY <1>0, <2>2, <2>3, <2>4 DEF TypeOK
<1>4. QueuedInv' /\ UncancelledKept' /\ CancelsInv'
  BY <1>0, <1>2 DEF QueuedInv, Live, UncancelledKept, CancelsInv
<1> QED
  BY <1>0, <1>2, <1>3, <1>4 DEF ActiveInv, RunInv, OwnedInv, SeqInv, CountInv, StoppedInv, Live

LEMMA CancelInv ==
  ASSUME IInv, NEW u \in Users, NEW i \in ids, Cancel(u, i)
  PROVE  IInv'
<1> USE DEF IInv, Core
<1> DEFINE id == i.id
<1>0. /\ UNCHANGED <<timer, heap, active, numCreated, now, pollTime, phase, running, fault,
                     adding, ids, ran, stopped>>
      /\ pending' = Append(pending, [op |-> "cancel", id |-> id])
      /\ cancels' = cancels \cup {i.meant}
  BY DEF Cancel, clock
<1>1. /\ id \in TimerId /\ i.meant \in Seqs /\ id[2] \in cancels' \cup Misnamed
      /\ pending \in Seq(Functor)
  BY <1>0, HandedTypes DEF TypeOK
<1> HIDE DEF id
<1>2. PendingAdds' = PendingAdds /\ Misnamed' = Misnamed
  BY <1>0, <1>1, AppendCancel DEF Misnamed
<1>3. /\ [op |-> "cancel", id |-> id] \in Functor
      /\ pending' \in Seq(Functor)
      /\ DOMAIN pending = 1..Len(pending) /\ Len(pending) \in Nat
      /\ DOMAIN pending' = 1..(Len(pending) + 1)
      /\ \A k \in DOMAIN pending : pending'[k] = pending[k]
      /\ pending'[Len(pending) + 1] = [op |-> "cancel", id |-> id]
  <2>1. [op |-> "cancel", id |-> id] \in Functor
    BY <1>1 DEF Functor
  <2> QED
    BY <1>0, <1>1, <2>1, AppendProperties, LenProperties
<1>4. TypeOK'
  BY <1>0, <1>1, <1>3 DEF TypeOK
<1>5. QueuedInv'
  <2>1. \A b \in Addrs, n \in Seqs : <<b, n>> \in PendingAdds' =>
          Live(b, n)' /\ b \notin heap' /\ (phase' = "run" => b # running')
    BY <1>0, <1>2 DEF QueuedInv, Live
  <2>2. \A k, l \in DOMAIN pending' :
          pending'[k].op = "add" /\ pending'[k] = pending'[l] => k = l
    BY <1>3 DEF QueuedInv
  <2> QED
    BY <2>1, <2>2 DEF QueuedInv
<1>6. CancelsInv'
  BY <1>0, <1>1, <1>2, <1>3 DEF CancelsInv
<1>7. UncancelledKept'
  BY <1>0, <1>2 DEF UncancelledKept
<1> QED
  BY <1>0, <1>2, <1>4, <1>5, <1>6, <1>7 DEF Unharmed, ActiveInv, RunInv, OwnedInv, SeqInv,
     CountInv, StoppedInv, Live

LEMMA RunFunctorInv ==
  ASSUME IInv, RunFunctor
  PROVE  IInv'
<1> USE DEF IInv, Core
<1> DEFINE f == Head(pending)
           a == f.id[1]
<1>0. /\ UNCHANGED <<numCreated, now, pollTime, phase, running, adding, ids, ran, cancels>>
      /\ phase = "idle" /\ pending # <<>> /\ pending' = Tail(pending)
      /\ \/ /\ f.op = "add"
            /\ AddInLoop(a, timer[a])
            /\ UNCHANGED <<timer, stopped>>
         \/ /\ f.op = "cancel"
            /\ CancelInLoop(f.id)
            /\ NoteCancel(f.id)
  BY DEF RunFunctor, clock
<1>1. pending \in Seq(Functor)
  BY DEF TypeOK
<1>2. /\ f \in Functor /\ f.id \in TimerId
      /\ f.id = <<a, f.id[2]>> /\ a \in Addrs /\ f.id[2] \in Seqs
  <2>1. f \in Functor
    BY <1>0, <1>1, TakeFunctor
  <2>2. f.id \in TimerId
    BY <2>1 DEF Functor
  <2> QED
    BY <2>1, <2>2, Types
<1>3. /\ pending' \in Seq(Functor)
      /\ DOMAIN pending = 1..Len(pending) /\ Len(pending) \in Nat \ {0}
      /\ DOMAIN pending' = 1..(Len(pending) - 1)
      /\ \A i \in 1..(Len(pending) - 1) : pending'[i] = pending[i + 1]
  BY <1>0, <1>1, HeadTailProperties, EmptySeq, LenProperties
<1>4. /\ \A i \in DOMAIN pending' : i + 1 \in DOMAIN pending /\ pending'[i] = pending[i + 1]
      /\ \A i, j \in DOMAIN pending' : i + 1 = j + 1 => i = j
  BY <1>3
<1>5. \A i, j \in DOMAIN pending' : pending'[i].op = "add" /\ pending'[i] = pending'[j] => i = j
  BY <1>4 DEF QueuedInv
<1>6. CancelsInv' /\ Misnamed' = Misnamed
  BY <1>0, <1>4 DEF CancelsInv, Misnamed
<1>7. CASE /\ f.op = "add"
           /\ AddInLoop(a, timer[a])
           /\ UNCHANGED <<timer, stopped>>
  <2>1. f.id \in PendingAdds /\ PendingAdds' = PendingAdds \ {f.id}
    BY <1>0, <1>1, <1>7, TakeFunctor
  <2>2. Live(a, f.id[2]) /\ a \notin heap /\ f.id = <<a, timer[a].seq>>
    <3>1. <<a, f.id[2]>> \in PendingAdds
      BY <1>2, <2>1
    <3>2. Live(a, f.id[2]) /\ a \notin heap
      BY <1>2, <3>1 DEF QueuedInv
    <3> QED
      BY <1>2, <3>2 DEF Live
  <2>3. f.id \notin active
    BY <1>2, <2>2 DEF ActiveInv
  <2>4. heap' = heap \cup {a} /\ active' = active \cup {f.id}
    BY <1>7, <2>2 DEF AddInLoop
  <2>5. CountInv' /\ Unharmed'
    BY <1>7, <2>2, <2>3, <2>4, CountAdd DEF CountInv, Unharmed, AddInLoop, Asserted
  <2>6. TypeOK'
    BY <1>0, <1>2, <1>3, <1>7, <2>4, <2>5 DEF TypeOK, Unharmed
  <2>7. ActiveInv'
    BY <1>2, <1>7, <2>2, <2>4, Types DEF ActiveInv, Live
  <2>8. \A b \in Addrs, n \in Seqs : <<b, n>> \in PendingAdds' =>
          Live(b, n)' /\ b \notin heap' /\ (phase' = "run" => b # running')
    BY <1>0, <1>7, <2>1, <2>2, <2>4 DEF QueuedInv, Live
  <2>9. OwnedInv'
    BY <1>0, <1>2, <1>7, <2>1, <2>2, <2>4 DEF OwnedInv
  <2>10. UncancelledKept'
    BY <1>0, <1>6, <2>1, <2>4 DEF UncancelledKept
  <2>11. QueuedInv'
    BY <1>5, <2>8 DEF QueuedInv
  <2> QED
    BY <1>0, <1>6, <1>7, <2>5, <2>6, <2>7, <2>9, <2>10, <2>11 DEF RunInv, SeqInv, StoppedInv
<1>8. CASE f.op = "cancel" /\ CancelInLoop(f.id) /\ NoteCancel(f.id)
  <2>1. PendingAdds' = PendingAdds /\ f.id[2] \in cancels \cup Misnamed
    BY <1>0, <1>1, <1>8, TakeFunctor
  <2>2. /\ ActiveInv' /\ OwnedInv' /\ SeqInv' /\ StoppedInv' /\ UncancelledKept' /\ RunInv'
        /\ \A b \in Addrs, n \in Seqs : <<b, n>> \in PendingAdds =>
             Live(b, n)' /\ b \notin heap' /\ (phase' = "run" => b # running')
        /\ timer' \in [Addrs -> Timer \cup {Free}]
        /\ heap' \in SUBSET Addrs /\ active' \in SUBSET TimerId /\ stopped' \in SUBSET Seqs
    BY <1>0, <1>2, <1>6, <1>8, <2>1, CancelInLoopInv
  <2>3. CountInv' /\ Unharmed'
    BY <1>2, <1>8, CancelEffect
  <2>4. QueuedInv'
    BY <1>5, <2>1, <2>2 DEF QueuedInv
  <2>5. TypeOK'
    BY <1>0, <1>3, <2>2, <2>3 DEF TypeOK, Unharmed
  <2> QED
    BY <1>6, <2>2, <2>3, <2>4, <2>5
<1> QED
  BY <1>0, <1>7, <1>8

\* Between the passes and within them nothing dangles.
LEMMA NothingDangles == ASSUME IInv PROVE ~Dangling
  BY DEF IInv, Core, ActiveInv, Dangling

LEMMA BeginPassInv ==
  ASSUME IInv, BeginPass
  PROVE  IInv'
<1> USE DEF IInv, Core
<1>0. /\ UNCHANGED <<timer, heap, active, pending, numCreated, now, running, adding, ids, ran, cancels,
                     stopped>>
      /\ phase = "idle" /\ phase' = "pass" /\ pollTime' = now
      /\ fault' = "none"
  BY DEF BeginPass, history, Asserted, CountInv, Unharmed
<1>1. PendingAdds' = PendingAdds /\ Misnamed' = Misnamed
  BY <1>0 DEF PendingAdds, Misnamed
<1>2. TypeOK'
  BY <1>0 DEF TypeOK
<1>3. UncancelledKept'
  BY <1>0, <1>1 DEF UncancelledKept
<1>4. QueuedInv'
  BY <1>0, <1>1 DEF QueuedInv, Live
<1> QED
  BY <1>0, <1>1, <1>2, <1>3, <1>4 DEF Unharmed, ActiveInv, RunInv, OwnedInv, SeqInv,
     CountInv, StoppedInv, CancelsInv, Live

LEMMA RunExpiredInv ==
  ASSUME IInv, NEW a \in Addrs, RunExpired(a)
  PROVE  IInv'
<1> USE DEF IInv, Core
<1>0. /\ UNCHANGED <<timer, pending, numCreated, now, pollTime, adding, ids, cancels, stopped>>
      /\ phase = "pass" /\ phase' = "run" /\ running' = a
      /\ a \in heap
      /\ heap' = heap \ {a}
      /\ active' = active \ {IdOf(a)}
      /\ fault' = Asserted(IdOf(a) \in active)
      /\ ran' = ran \cup {timer[a].seq}
  BY DEF RunExpired, clock, IsTop
<1>1. PendingAdds' = PendingAdds /\ Misnamed' = Misnamed
  BY <1>0 DEF PendingAdds, Misnamed
<1>2. /\ IdOf(a) = <<a, timer[a].seq>> /\ IdOf(a) \in active
      /\ timer[a] # Free /\ timer[a].seq \in Seqs
  BY <1>0, Types DEF ActiveInv, IdOf
<1>3. CountInv' /\ Unharmed'
  BY <1>0, <1>2, CountRemove DEF CountInv, Unharmed, Asserted
<1>4. TypeOK'
  BY <1>0, <1>2, <1>3 DEF TypeOK, Unharmed
<1>5. ActiveInv'
  BY <1>0, <1>2, Types DEF ActiveInv, Live
<1>6. QueuedInv'
  BY <1>0, <1>1 DEF QueuedInv, Live
<1>7. RunInv' /\ OwnedInv'
  BY <1>0, <1>1, <1>2 DEF RunInv, OwnedInv
<1>8. UncancelledKept'
  BY <1>0, <1>1, <1>2 DEF UncancelledKept
<1> QED
  BY <1>0, <1>1, <1>3, <1>4, <1>5, <1>6, <1>7, <1>8 DEF SeqInv, StoppedInv, CancelsInv

LEMMA AfterRunInv ==
  ASSUME IInv, AfterRun
  PROVE  IInv'
<1> USE DEF IInv, Core
<1> DEFINE t == [timer[running] EXCEPT !.exp = pollTime + Interval]
<1>0. /\ UNCHANGED <<pending, numCreated, now, pollTime, adding, ids, ran, cancels, stopped>>
      /\ phase = "run" /\ phase' = "pass" /\ running' = None
      /\ \/ /\ timer' = [timer EXCEPT ![running] = t]
            /\ AddInLoop(running, t)
         \/ /\ timer' = [timer EXCEPT ![running] = Free]
            /\ UNCHANGED <<heap, active, fault>>
  BY DEF AfterRun, clock, history
<1>1. PendingAdds' = PendingAdds /\ Misnamed' = Misnamed
  BY <1>0 DEF PendingAdds, Misnamed
<1>2. /\ running \in Addrs /\ timer[running] # Free /\ running \notin heap
      /\ timer[running] \in Timer /\ timer[running].seq \in Seqs
  BY <1>0, Types DEF RunInv
<1>3. \A n \in Seqs : <<running, n>> \notin PendingAdds /\ <<running, n>> \notin active
  BY <1>0, <1>2 DEF QueuedInv, ActiveInv
<1>4. t \in Timer /\ t # Free /\ t.seq = timer[running].seq
  <2>1. pollTime \in 0..MaxTime
    BY DEF TypeOK
  <2>2. pollTime + Interval \in 0..(MaxTime + 1 + Interval)
    BY <2>1
  <2> QED
    BY <1>2, <2>2 DEF Timer
<1>5. CASE timer' = [timer EXCEPT ![running] = t] /\ AddInLoop(running, t)
  <2>1. /\ timer' \in [Addrs -> Timer \cup {Free}] /\ timer'[running] = t
        /\ \A b \in Addrs : b # running => timer'[b] = timer[b]
        /\ heap' = heap \cup {running} /\ active' = active \cup {<<running, timer[running].seq>>}
        /\ \A b \in Addrs : timer'[b] = Free <=> timer[b] = Free
        /\ \A b \in Addrs : timer[b] # Free => timer'[b].seq = timer[b].seq
    BY <1>2, <1>4, <1>5, Types DEF AddInLoop
  <2>2. CountInv' /\ Unharmed'
    BY <1>2, <1>3, <1>4, <1>5, <2>1, CountAdd DEF CountInv, Unharmed, AddInLoop, Asserted
  <2>3. <<running, timer[running].seq>> \in TimerId
    BY <1>2 DEF TimerId
  <2>4. TypeOK'
    BY <1>0, <1>2, <2>1, <2>2, <2>3 DEF TypeOK, Unharmed
  <2>5. ActiveInv'
    <3>1. ASSUME NEW b \in Addrs, NEW n \in Seqs, <<b, n>> \in active'
          PROVE  b \in heap' /\ Live(b, n)'
      BY <1>2, <1>3, <2>1, <3>1 DEF ActiveInv, Live
    <3>2. ASSUME NEW b \in heap' PROVE timer'[b] # Free /\ <<b, timer'[b].seq>> \in active'
      <4>1. CASE b = running
        BY <1>2, <1>4, <2>1, <4>1
      <4>2. CASE b # running
        BY <1>2, <2>1, <4>2, Types DEF ActiveInv
      <4> QED
        BY <4>1, <4>2
    <3> QED
      BY <3>1, <3>2 DEF ActiveInv
  <2>6. QueuedInv'
    BY <1>0, <1>1, <1>3, <2>1 DEF QueuedInv, Live
  <2>7. OwnedInv' /\ RunInv'
    BY <1>0, <1>1, <2>1 DEF OwnedInv, RunInv
  <2>8. SeqInv' /\ StoppedInv'
    BY <1>0, <2>1 DEF SeqInv, StoppedInv
  <2>9. UncancelledKept' /\ CancelsInv'
    BY <1>0, <1>1, <2>1 DEF UncancelledKept, CancelsInv
  <2> QED
    BY <2>2, <2>4, <2>5, <2>6, <2>7, <2>8, <2>9
<1>6. CASE timer' = [timer EXCEPT ![running] = Free] /\ UNCHANGED <<heap, active, fault>>
  <2>1. /\ timer' \in [Addrs -> Timer \cup {Free}] /\ timer'[running] = Free
        /\ \A b \in Addrs : b # running => timer'[b] = timer[b]
    BY <1>2, <1>6, Types
  <2>2. CountInv' /\ Unharmed'
    BY <1>6 DEF CountInv, Unharmed
  <2>3. TypeOK'
    BY <1>0, <1>6, <2>1 DEF TypeOK
  <2>4. ActiveInv'
    BY <1>2, <1>3, <1>6, <2>1, Types DEF ActiveInv, Live
  <2>5. QueuedInv'
    BY <1>0, <1>1, <1>3, <1>6, <2>1 DEF QueuedInv, Live
  <2>6. OwnedInv' /\ RunInv'
    BY <1>0, <1>1, <1>6, <2>1 DEF OwnedInv, RunInv
  <2>7. SeqInv' /\ StoppedInv'
    BY <1>0, <2>1 DEF SeqInv, StoppedInv
  <2>8. UncancelledKept' /\ CancelsInv'
    BY <1>0, <1>1, <1>6 DEF UncancelledKept, CancelsInv
  <2> QED
    BY <2>2, <2>3, <2>4, <2>5, <2>6, <2>7, <2>8
<1> QED
  BY <1>0, <1>5, <1>6

LEMMA EndPassInv ==
  ASSUME IInv, EndPass
  PROVE  IInv'
<1> USE DEF IInv, Core
<1>0. /\ UNCHANGED <<timer, heap, active, pending, numCreated, now, pollTime, running, adding, ids, ran,
                     cancels, stopped>>
      /\ phase = "pass" /\ phase' = "idle"
      /\ fault' = "none"
  BY NothingDangles DEF EndPass, history, clock, Asserted, CountInv, Unharmed
<1>1. PendingAdds' = PendingAdds /\ Misnamed' = Misnamed
  BY <1>0 DEF PendingAdds, Misnamed
<1>2. TypeOK'
  BY <1>0 DEF TypeOK
<1>3. UncancelledKept'
  BY <1>0, <1>1 DEF UncancelledKept
<1>4. QueuedInv'
  BY <1>0, <1>1 DEF QueuedInv, Live
<1> QED
  BY <1>0, <1>1, <1>2, <1>3, <1>4 DEF Unharmed, ActiveInv, RunInv, OwnedInv, SeqInv,
     CountInv, StoppedInv, CancelsInv, Live

\* The clock is not part of the invariant.
LEMMA TickInv ==
  ASSUME IInv, Tick
  PROVE  IInv'
<1> USE DEF IInv, Core
<1>0. /\ UNCHANGED <<timer, heap, active, pending, numCreated, pollTime, phase, running, fault,
                     adding, ids, ran, cancels, stopped>>
      /\ now < MaxTime /\ now' = now + 1
  BY DEF Tick, history
<1>1. PendingAdds' = PendingAdds /\ Misnamed' = Misnamed
  BY <1>0 DEF PendingAdds, Misnamed
<1>2. TypeOK'
  <2>1. now \in 0..MaxTime
    BY DEF TypeOK
  <2>2. now' \in 0..MaxTime
    BY <1>0, <2>1
  <2> QED
    BY <1>0, <2>2 DEF TypeOK
<1>3. UncancelledKept'
  BY <1>0, <1>1 DEF UncancelledKept
<1>4. QueuedInv'
  BY <1>0, <1>1 DEF QueuedInv, Live
<1> QED
  BY <1>0, <1>1, <1>2, <1>3, <1>4 DEF Unharmed, ActiveInv, RunInv, OwnedInv, SeqInv,
     CountInv, StoppedInv, CancelsInv, Live

\* Whatever is in the heap is deleted, and nothing else is left.
LEMMA DestroyInv ==
  ASSUME IInv, Destroy
  PROVE  IInv'
<1> USE DEF IInv, Core
<1>0. /\ UNCHANGED <<pending, numCreated, now, pollTime, running, adding, ids, ran, cancels, stopped>>
      /\ phase = "idle" /\ phase' = "destroyed" /\ pending = <<>>
      /\ heap' = {} /\ active' = {}
      /\ timer' = [a \in Addrs |-> IF a \in heap THEN Free ELSE timer[a]]
      /\ fault' = "none"
  BY NothingDangles DEF Destroy, history, clock, Asserted, CountInv, Unharmed
<1>1. PendingAdds' = {} /\ PendingAdds = {} /\ Misnamed' = Misnamed
  BY <1>0, ToSetEmpty DEF PendingAdds, Misnamed
<1>2. /\ timer' \in [Addrs -> Timer \cup {Free}]
      /\ \A a \in Addrs : timer'[a] = Free
  BY <1>0, <1>1, Types DEF OwnedInv
<1>3. CountInv'
  BY <1>0, FS_EmptySet DEF CountInv
<1>4. TypeOK'
  BY <1>0, <1>2 DEF TypeOK
<1>5. UncancelledKept'
  BY <1>0 DEF UncancelledKept
<1> QED
  BY <1>0, <1>1, <1>2, <1>3, <1>4, <1>5 DEF Unharmed, ActiveInv, RunInv, OwnedInv, SeqInv,
     QueuedInv, StoppedInv, CancelsInv

LEMMA StutterInv ==
  ASSUME Core, UNCHANGED vars
  PROVE  Core'
<1> USE DEF Core, vars
<1>1. PendingAdds' = PendingAdds /\ Misnamed' = Misnamed
  BY DEF PendingAdds, Misnamed
<1>2. TypeOK'
  BY DEF TypeOK
<1>3. UncancelledKept' /\ QueuedInv'
  BY <1>1 DEF UncancelledKept, QueuedInv, Live
<1> QED
  BY <1>1, <1>2, <1>3 DEF ActiveInv, RunInv, OwnedInv, SeqInv, CountInv, StoppedInv,
     CancelsInv, Live

------------------------------------------------------------------------------
(* The invariant, and what follows from it.                                   *)

\* A step of a queue that goes on leaves it going on, the late read excepted.
LEMMA NextInv ==
  ASSUME IInv, Next
  PROVE  Core' /\ (Unharmed' \/ \E u \in Users : ReadId(u))
<1>1. CASE LoopThread
  BY <1>1, RunFunctorInv, BeginPassInv, AfterRunInv, EndPassInv, RunExpiredInv DEF LoopThread, IInv
<1>2. CASE Calls
  BY <1>2, LoopCancelInv, CancelInv, LoopAddTimerInv, AddTimerInv, ReadIdCore DEF Calls, IInv
<1>3. CASE Tick
  BY <1>3, TickInv DEF IInv
<1>4. CASE Destroy
  BY <1>4, DestroyInv DEF IInv
<1> QED
  BY <1>1, <1>2, <1>3, <1>4 DEF Next

LEMMA CoreStep == ASSUME Core, [Next]_vars PROVE Core'
  BY NextInv, StutterInv DEF Next, IInv, Unharmed

LEMMA Invariance == Spec => []Core
<1>1. Init => Core
  BY InitInv DEF IInv
<1>2. Core /\ [Next]_vars => Core'
  BY CoreStep
<1> QED
  BY <1>1, <1>2, PTL DEF Spec

LEMMA InvSameTimers == ASSUME Core PROVE SameTimers
<1> USE DEF Core
<1>1. \A id \in active : id[1] \in heap /\ Live(id[1], id[2])
  BY Types DEF ActiveInv
<1>2. \A a \in heap : \E id \in active : id[1] = a
  BY DEF ActiveInv
<1> QED
  BY <1>1, <1>2 DEF SameTimers, Live

LEMMA InvOwnedOnce == ASSUME Core PROVE OwnedOnce
<1> DEFINE queued == {id[1] : id \in PendingAdds}
           run == IF phase = "run" THEN {running} ELSE {}
<1> USE DEF Core
<1>1. \A id \in PendingAdds :
        /\ id = <<id[1], id[2]>> /\ id[1] \in Addrs /\ id[2] \in Seqs
        /\ Live(id[1], id[2]) /\ id[1] \notin heap /\ id[1] \notin run
  <2>1. PendingAdds \subseteq TimerId
    BY DEF PendingAdds
  <2> QED
    BY <2>1, Types DEF QueuedInv
<1>2. heap \cap queued = {} /\ queued \cap run = {} /\ heap \cap run = {}
  BY <1>1 DEF RunInv
<1>3. \A a \in heap \cup queued \cup run : a \in Addrs /\ timer[a] # Free
  <2>1. \A a \in heap : a \in Addrs /\ timer[a] # Free
    BY Types DEF ActiveInv
  <2>2. \A a \in queued : a \in Addrs /\ timer[a] # Free
    BY <1>1 DEF Live
  <2>3. \A a \in run : a \in Addrs /\ timer[a] # Free
    BY DEF RunInv
  <2> QED
    BY <2>1, <2>2, <2>3
<1>4. \A a \in Addrs : timer[a] # Free => a \in heap \cup queued \cup run
  <2>1. SUFFICES ASSUME NEW a \in Addrs, timer[a] # Free PROVE a \in heap \cup queued \cup run
    OBVIOUS
  <2>2. CASE a \in heap
    BY <2>2
  <2>3. CASE <<a, timer[a].seq>> \in PendingAdds
    BY <2>3
  <2>4. CASE phase = "run" /\ a = running
    BY <2>4
  <2> QED
    BY <2>1, <2>2, <2>3, <2>4 DEF OwnedInv
<1>5. {a \in Addrs : timer[a] # Free} = heap \cup queued \cup run
  <2>1. \A a : a \in {b \in Addrs : timer[b] # Free} <=> a \in heap \cup queued \cup run
    BY ZenonT(30), <1>3, <1>4
  <2> QED
    BY ZenonT(30), <2>1
<1> HIDE DEF queued, run
<1> QED
  BY ZenonT(30), <1>2, <1>5 DEF OwnedOnce, queued, run

LEMMA InvCancelIsFinal == ASSUME Core PROVE CancelIsFinal
<1> USE DEF Core
<1>1. SUFFICES ASSUME NEW n \in stopped
               PROVE  /\ \A a \in Addrs : <<a, n>> \notin active \cup PendingAdds
                      /\ phase = "run" => timer[running].seq # n
  BY DEF CancelIsFinal
<1>2. n \in Seqs
  BY Types
<1> QED
  BY <1>1, <1>2 DEF StoppedInv, ActiveInv, QueuedInv, RunInv, Live

\* The types of the queue's state are kept by every step of every thread.
THEOREM TypeCorrect == Spec => []TypeOK
<1>1. Core => TypeOK
  BY DEF Core
<1> QED
  BY <1>1, Invariance, PTL

\* The heap and the active set always hold the same timers (TimerQueue.h:83-85).
THEOREM ContainersAgree == Spec => []SameTimers
<1>1. Core => SameTimers
  BY InvSameTimers
<1> QED
  BY <1>1, Invariance, PTL

\* Every Timer has one owner: none leaks and none is deleted twice.
THEOREM OneOwner == Spec => []OwnedOnce
<1>1. Core => OwnedOnce
  BY InvOwnedOnce
<1> QED
  BY <1>1, Invariance, PTL

\* A timer that cancelInLoop has found never comes back, at any address.
LEMMA CancelFinal == Spec => []CancelIsFinal
<1>1. Core => CancelIsFinal
  BY InvCancelIsFinal
<1> QED
  BY <1>1, Invariance, PTL

\* A timer that nobody cancels, by its own id or by one of another timer that was
\* read too late, stays in the queue until it has run.
LEMMA StaleIdHarmless == Spec => []UncancelledKept
<1>1. Core => UncancelledKept
  BY DEF Core
<1> QED
  BY <1>1, Invariance, PTL

------------------------------------------------------------------------------
(* When timers run, and that repeating ones stay.                             *)

\* A timer that has run and does not repeat is in the hands of its pass or gone.
RanInv ==
  /\ \A n \in ran : n < numCreated
  /\ \A a \in Addrs :
       timer[a] # Free /\ timer[a].seq \in ran /\ ~timer[a].repeat => phase = "run" /\ running = a

\* The pass looks at the clock when it begins.
PollInv == pollTime <= now

\* What can become of the timer at an address.
Stays(a) == timer'[a] = timer[a] /\ (phase = "run" /\ running = a => phase' = "run" /\ running' = a)
Comes(a) == timer[a] = Free /\ timer'[a] # Free /\ timer'[a].seq = numCreated
Ends(a) ==
  /\ timer'[a] = Free
  /\ timer[a] # Free => timer[a].seq \in ran' \cup stopped' \/ adding' = [u \in Users |-> None]
  /\ timer[a] # Free /\ timer[a].repeat =>
       timer[a].seq \in cancels' \cup Misnamed \/ phase' = "destroyed"
Restarts(a) ==
  /\ timer[a] # Free /\ timer[a].repeat
  /\ timer'[a] # Free /\ timer'[a].repeat /\ timer'[a].seq = timer[a].seq

Runs(a) == ran' = ran \cup {timer[a].seq} /\ phase' = "run" /\ running' = a

LEMMA Numbers ==
  ASSUME Core
  PROVE  /\ now \in Nat /\ pollTime \in Nat /\ pollTime \in 0..MaxTime
         /\ numCreated \in Nat /\ ran \subseteq Nat
<1>1. TypeOK
  BY DEF Core
<1>2. now \in 0..MaxTime /\ pollTime \in 0..MaxTime /\ ran \subseteq Seqs
  BY <1>1 DEF TypeOK
<1>3. QED  BY <1>1, <1>2, Types

LEMMA NewTimerEffect ==
  ASSUME Core, NEW b \in Addrs, NEW t \in Timer, NewTimer(b, t), UNCHANGED <<phase, running>>
  PROVE  /\ numCreated' = numCreated + 1
         /\ \A a \in Addrs : Stays(a) \/ Comes(a)
<1>1. /\ timer[b] = Free /\ timer' = [timer EXCEPT ![b] = t] /\ t.seq = numCreated
      /\ numCreated' = numCreated + 1
  BY DEF NewTimer
<1>2. timer' = [timer EXCEPT ![b] = t] /\ timer \in [Addrs -> Timer \cup {Free}] /\ t # Free
  BY <1>1, Types DEF Core
<1>3. QED  BY <1>1, <1>2 DEF Stays, Comes

LEMMA CancelTimerEffect ==
  ASSUME Core, NEW id \in TimerId, CancelInLoop(id), NoteCancel(id), id[2] \in cancels' \cup Misnamed,
         UNCHANGED <<phase, running>>
  PROVE  \A a \in Addrs : Stays(a) \/ Ends(a)
<1>1. timer \in [Addrs -> Timer \cup {Free}] /\ id[1] \in Addrs /\ id[2] \in Seqs /\ id = <<id[1], id[2]>>
  BY Types DEF Core
<1>2. timer' = [timer EXCEPT ![id[1]] = IF id \in active THEN Free ELSE @]
  BY DEF CancelInLoop
<1>3. id \in active => timer[id[1]].seq = id[2] /\ id[2] \in stopped'
  BY <1>1 DEF Core, ActiveInv, Live, NoteCancel
<1>4. QED  BY <1>1, <1>2, <1>3 DEF Stays, Ends

\* A step creates at most one timer, and the one whose callback begins has a
\* place in the heap.
LEMMA TimerEffect ==
  ASSUME Core, [Next]_vars
  PROVE  /\ \A a \in Addrs : Stays(a) \/ Comes(a) \/ Ends(a) \/ Restarts(a)
         /\ \/ ran' = ran
            \/ \E b \in Addrs : RunExpired(b) /\ Runs(b) /\ UNCHANGED <<timer, numCreated>>
         /\ numCreated' \in {numCreated, numCreated + 1}
<1>0. TypeOK /\ timer \in [Addrs -> Timer \cup {Free}]
  BY DEF Core, TypeOK
<1>1. ASSUME NEW i \in ids, LoopCancel(i) \/ \E u \in Users : Cancel(u, i)
      PROVE  ran' = ran /\ numCreated' = numCreated /\ \A a \in Addrs : Stays(a) \/ Ends(a)
  <2>1. CASE LoopCancel(i)
    <3>1. /\ CancelInLoop(i.id) /\ NoteCancel(i.id) /\ i.meant \in cancels'
          /\ UNCHANGED <<phase, running, ran, numCreated>>
      BY <2>1 DEF LoopCancel
    <3>2. i.id \in TimerId /\ i.id[2] \in cancels' \cup Misnamed
      BY <1>0, <3>1, HandedTypes
    <3>3. QED  BY <3>1, <3>2, CancelTimerEffect
  <2>2. CASE \E u \in Users : Cancel(u, i)
    BY <2>2 DEF Cancel, Stays
  <2>3. QED  BY <1>1, <2>1, <2>2
<1>2. ASSUME NEW b \in Addrs, NEW t \in Timer, LoopAddTimer(b, t) \/ \E u \in Users : AddTimer(u, b, t)
      PROVE  ran' = ran /\ numCreated' = numCreated + 1 /\ \A a \in Addrs : Stays(a) \/ Comes(a)
  <2>1. NewTimer(b, t) /\ UNCHANGED <<phase, running, ran>>
    BY <1>2 DEF LoopAddTimer, AddTimer
  <2>2. QED  BY <2>1, NewTimerEffect
<1>3. ASSUME RunFunctor
      PROVE  ran' = ran /\ numCreated' = numCreated /\ \A a \in Addrs : Stays(a) \/ Ends(a)
  <2> DEFINE f == Head(pending)
  <2>1. UNCHANGED <<phase, running, ran, numCreated, cancels>>
    BY <1>3 DEF RunFunctor
  <2>2. /\ pending \in Seq(Functor) /\ pending # <<>> /\ pending' = Tail(pending)
        /\ QueuedInv /\ CancelsInv
    BY <1>3 DEF RunFunctor, Core, TypeOK
  <2>3. f \in Functor /\ (f.op = "cancel" => f.id[2] \in cancels \cup Misnamed)
    BY <2>2, TakeFunctor
  <2>4. CASE timer' = timer
    BY <2>1, <2>4 DEF Stays
  <2>5. CASE f.op = "cancel" /\ CancelInLoop(f.id) /\ NoteCancel(f.id)
    <3>1. f.id \in TimerId
      BY <2>3 DEF Functor
    <3>2. QED  BY <3>1, <2>1, <2>3, <2>5, CancelTimerEffect
  <2>6. QED  BY <1>3, <2>4, <2>5, <2>1 DEF RunFunctor
<1>4. ASSUME AfterRun
      PROVE  ran' = ran /\ numCreated' = numCreated /\ \A a \in Addrs : Stays(a) \/ Ends(a) \/ Restarts(a)
  <2>1. UNCHANGED <<ran, numCreated>> /\ phase = "run" /\ running \in Addrs /\ timer[running] # Free
        /\ timer[running].seq \in ran
    BY <1>4 DEF AfterRun, Core, RunInv, history
  <2>2. CASE timer[running].repeat
    <3> DEFINE t == [timer[running] EXCEPT !.exp = pollTime + Interval]
    <3>1. timer' = [timer EXCEPT ![running] = t]
      BY <1>4, <2>2 DEF AfterRun
    <3>2. timer[running] \in Timer
      BY <2>1, <1>0
    <3>3. t.seq = timer[running].seq /\ t.repeat = timer[running].repeat
      BY <3>2 DEF Timer
    <3>4. t # Free
      <4>1. pollTime + Interval \in 0..(MaxTime + 1 + Interval)
        BY Numbers
      <4>2. t \in Timer
        BY <4>1, <3>2 DEF Timer
      <4>3. QED  BY <4>2
    <3> HIDE DEF t
    <3>5. QED  BY <3>1, <3>3, <3>4, <2>1, <2>2, <1>0 DEF Stays, Restarts
  <2>3. CASE ~timer[running].repeat
    <3>1. timer' = [timer EXCEPT ![running] = Free]
      BY <1>4, <2>3 DEF AfterRun
    <3>2. QED  BY <3>1, <2>1, <2>3, <1>0 DEF Stays, Ends
  <2>4. QED  BY <2>1, <2>2, <2>3
<1>5. ASSUME NEW b \in Addrs, RunExpired(b)
      PROVE  Runs(b) /\ UNCHANGED <<timer, numCreated>> /\ \A a \in Addrs : Stays(a)
  BY <1>5 DEF RunExpired, Runs, Stays
<1>6. ASSUME BeginPass \/ EndPass \/ Tick \/ UNCHANGED vars \/ \E u \in Users : ReadId(u)
      PROVE  ran' = ran /\ numCreated' = numCreated /\ \A a \in Addrs : Stays(a)
  BY <1>6 DEF BeginPass, EndPass, Tick, ReadId, vars, Stays, history
<1>7. ASSUME Destroy
      PROVE  ran' = ran /\ numCreated' = numCreated /\ \A a \in Addrs : Stays(a) \/ Ends(a)
  <2>1. /\ timer' = [a \in Addrs |-> IF a \in heap THEN Free ELSE timer[a]]
        /\ UNCHANGED <<ran, numCreated, adding, running>>
        /\ phase' = "destroyed" /\ phase = "idle" /\ \A u \in Users : adding[u] = None
    BY <1>7 DEF Destroy, history
  <2>2. adding' = [u \in Users |-> None]
    BY <1>0, <2>1 DEF TypeOK
  <2>3. QED  BY <2>1, <2>2, <1>0 DEF Stays, Ends
<1>8. QED
  BY <1>0, <1>1, <1>2, <1>3, <1>4, <1>5, <1>6, <1>7 DEF Next, LoopThread, Calls

\* The history only grows, and a place in adding is filled by its own thread.
LEMMA HistoryEffect ==
  ASSUME Core, [Next]_vars
  PROVE  /\ ran \subseteq ran' /\ stopped \subseteq stopped'
         /\ \A u \in Users : adding'[u] \in {adding[u], None} \/ \E a \in Addrs, t \in Timer : AddTimer(u, a, t)
         /\ \/ ids' = ids
            \/ \E a \in Addrs, t \in Timer : LoopAddTimer(a, t)
            \/ \E u \in Users : ReadId(u)
<1>0. adding \in [Users -> TimerId \cup {None}]
  BY DEF Core, TypeOK
<1>1. CASE Tick \/ Destroy \/ UNCHANGED vars
  BY <1>1 DEF Tick, Destroy, vars, history
<1>2. CASE LoopThread
  BY <1>2 DEF LoopThread, RunFunctor, BeginPass, AfterRun, EndPass, RunExpired, NoteCancel, history
<1>3. ASSUME NEW i \in ids, LoopCancel(i) \/ \E u \in Users : Cancel(u, i)
      PROVE  ran \subseteq ran' /\ stopped \subseteq stopped' /\ adding' = adding /\ ids' = ids
  BY <1>3 DEF LoopCancel, Cancel, NoteCancel
<1>4. ASSUME NEW a \in Addrs, NEW t \in Timer, LoopAddTimer(a, t)
      PROVE  ran = ran' /\ stopped = stopped' /\ adding' = adding
  BY <1>4 DEF LoopAddTimer
<1>5. ASSUME NEW u \in Users, NEW a \in Addrs, NEW t \in Timer, AddTimer(u, a, t)
      PROVE  /\ ran = ran' /\ stopped = stopped' /\ ids' = ids
             /\ \A v \in Users : v # u => adding'[v] = adding[v]
  BY <1>0, <1>5 DEF AddTimer
<1>6. ASSUME NEW u \in Users, ReadId(u)
      PROVE  /\ ran = ran' /\ stopped = stopped'
             /\ \A v \in Users : adding'[v] \in {adding[v], None}
  BY <1>0, <1>6 DEF ReadId
<1> QED
  BY <1>1, <1>2, <1>3, <1>4, <1>5, <1>6 DEF Next, Calls

LEMMA RanStep == ASSUME Core, RanInv, [Next]_vars PROVE RanInv'
<1>1. numCreated \in Nat /\ ran \subseteq Nat
  BY Numbers
<1>2. numCreated' \in {numCreated, numCreated + 1}
  BY TimerEffect
<1>3. CASE ran' = ran
  <2>1. \A n \in ran' : n < numCreated'
    BY <1>1, <1>2, <1>3 DEF RanInv
  <2>2. ASSUME NEW a \in Addrs, timer'[a] # Free, timer'[a].seq \in ran', ~timer'[a].repeat
        PROVE  phase' = "run" /\ running' = a
    <3>1. Stays(a) \/ Comes(a) \/ Ends(a) \/ Restarts(a)
      BY TimerEffect
    <3>2. CASE Stays(a)
      BY <3>2, <2>2, <1>3 DEF Stays, RanInv
    <3>3. CASE Comes(a)
      BY <3>3, <2>2, <1>1, <1>3 DEF Comes, RanInv
    <3>4. QED  BY <3>1, <3>2, <3>3, <2>2 DEF Ends, Restarts
  <2>3. QED  BY <2>1, <2>2 DEF RanInv
<1>4. ASSUME NEW b \in Addrs, RunExpired(b), Runs(b), UNCHANGED <<timer, numCreated>> PROVE RanInv'
  <2>1. timer[b] # Free /\ phase # "run"
    BY <1>4 DEF RunExpired, IsTop, Core, ActiveInv
  <2>2. timer[b].seq < numCreated /\ \A a \in Addrs : timer[a] # Free /\ timer[a].seq = timer[b].seq => a = b
    BY <2>1 DEF Core, SeqInv
  <2>3. QED  BY <2>1, <2>2, <1>4 DEF Runs, RanInv
<1>5. QED  BY <1>3, <1>4, TimerEffect

LEMMA PollStep == ASSUME Core, PollInv, [Next]_vars PROVE PollInv'
<1>1. now \in Nat /\ pollTime \in Nat
  BY Numbers
<1>2. CASE Tick
  BY <1>1, <1>2 DEF Tick, PollInv
<1>3. CASE BeginPass
  BY <1>1, <1>3 DEF BeginPass, PollInv
<1>4. CASE UNCHANGED clock
  BY <1>4 DEF PollInv, clock
<1>5. Tick \/ BeginPass \/ UNCHANGED clock
  BY DEF Next, LoopThread, Calls, RunFunctor, AfterRun, EndPass, RunExpired, LoopCancel, Cancel,
         LoopAddTimer, AddTimer, ReadId, Destroy, clock, vars
<1>6. QED  BY <1>2, <1>3, <1>4, <1>5

LEMMA AlwaysTimed == Spec => [](Core /\ RanInv /\ PollInv)
<1>1. Init => Core /\ RanInv /\ PollInv
  <2>1. Init => RanInv /\ PollInv
    BY DEF Init, RanInv, PollInv
  <2>2. QED  BY <2>1, InitInv DEF IInv
<1>2. Core /\ RanInv /\ PollInv /\ [Next]_vars => Core' /\ RanInv' /\ PollInv'
  BY CoreStep, RanStep, PollStep
<1> QED
  BY <1>1, <1>2, PTL DEF Spec

\* No timer's callback begins before the timer's time by the clock, and that of
\* a timer that does not repeat begins only once (TimerQueue.cpp, expiredProcess).
THEOREM TimersRunOnTime == Spec => RunsOnTime
<1>1. ASSUME Core, RanInv, PollInv, [Next]_vars, NEW a \in Addrs, running' = a, running # a
      PROVE  timer[a].exp <= now /\ (timer[a].repeat \/ timer[a].seq \notin ran)
  <2>1. RunExpired(a)
    BY <1>1 DEF Next, LoopThread, Calls, RunFunctor, AfterRun, EndPass, RunExpired, LoopCancel,
                Cancel, LoopAddTimer, AddTimer, ReadId, Destroy, BeginPass, Tick, vars
  <2>2. phase = "pass" /\ timer[a].exp <= pollTime /\ timer[a] # Free
    BY <2>1, <1>1 DEF RunExpired, IsTop, Core, ActiveInv
  <2>3. timer[a] \in Timer /\ now \in Nat /\ pollTime \in Nat
    BY <2>2, <1>1, Numbers, Types DEF Core
  <2>4. timer[a].exp \in Nat
    BY <2>3 DEF Timer
  <2>5. timer[a].exp <= now
    BY <2>2, <2>3, <2>4, <1>1 DEF PollInv
  <2>6. QED  BY <2>2, <2>5, <1>1 DEF RanInv
<1>2. Core /\ RanInv /\ PollInv /\ [Next]_vars =>
        [\A a \in Addrs : running' = a /\ running # a =>
           /\ timer[a].exp <= now
           /\ timer[a].repeat \/ timer[a].seq \notin ran]_vars
  BY <1>1
<1> QED
  BY <1>2, AlwaysTimed, PTL DEF Spec, RunsOnTime

\* A repeating timer that nobody cancels keeps its object and its number from one
\* callback to the next, until the queue is destroyed.
THEOREM RepeatingTimersStay == Spec => RepeatingKept
<1>1. ASSUME Core, [Next]_vars, NEW a \in Addrs, timer[a] # Free, timer[a].repeat
      PROVE  \/ timer'[a] # Free /\ timer'[a].seq = timer[a].seq
             \/ phase' = "destroyed"
             \/ timer[a].seq \in cancels' \cup Misnamed
  BY <1>1, TimerEffect DEF Stays, Comes, Ends, Restarts
<1>2. Core /\ [Next]_vars =>
        [\A a \in Addrs :
           (timer[a] # Free /\ timer[a].repeat)
             => \/ timer'[a] # Free /\ timer'[a].seq = timer[a].seq
                \/ phase' = "destroyed"
                \/ timer[a].seq \in cancels' \cup Misnamed]_vars
  BY <1>1
<1> QED
  BY <1>2, Invariance, PTL DEF Spec, RepeatingKept

------------------------------------------------------------------------------
(* What the ids name, and what addTimer's late read can meet.                 *)

Gone(n) == n < numCreated /\ Over(n)

\* The Timer that a thread has queued is still there, or is over; then whatever
\* is at its address is younger.
AddingInv ==
  \A u \in Users : adding[u] # None =>
    /\ adding[u][2] < numCreated
    /\ Live(adding[u][1], adding[u][2]) \/ Gone(adding[u][2])
    /\ timer[adding[u][1]] # Free => timer[adding[u][1]].seq >= adding[u][2]

IdsInv == \A i \in ids : i.id[2] = i.meant \/ (i.meant < i.id[2] /\ Gone(i.meant))

\* Numbers are not given again.
LEMMA GoneStays ==
  ASSUME Core, [Next]_vars, NEW n \in Seqs, Gone(n)
  PROVE  Gone(n)'
<1>1. n \in Nat /\ numCreated \in Nat /\ numCreated' \in {numCreated, numCreated + 1}
  BY Types, TimerEffect DEF Core
<1>2. n \in ran' \cup stopped'
  BY HistoryEffect DEF Gone, Over
<1>3. ASSUME NEW a \in Addrs, timer'[a] # Free PROVE timer'[a].seq # n
  BY <1>1, <1>3, TimerEffect DEF Gone, Over, Stays, Comes, Ends, Restarts
<1> QED
  BY <1>1, <1>2, <1>3 DEF Gone, Over

\* A Timer goes when it has run or has been stopped, or with its queue.
LEMMA LiveGoes ==
  ASSUME Core, [Next]_vars, NEW a \in Addrs, NEW n \in Seqs, Live(a, n)
  PROVE  Live(a, n)' \/ Gone(n)' \/ adding' = [u \in Users |-> None]
<1>1. /\ n \in Nat /\ numCreated \in Nat /\ numCreated' \in {numCreated, numCreated + 1}
      /\ n < numCreated
      /\ \A b \in Addrs : timer[b] # Free /\ timer[b].seq = n => a = b
  BY Types, TimerEffect DEF Core, SeqInv, Live
<1>2. Stays(a) \/ Ends(a) \/ Restarts(a)
  BY TimerEffect DEF Live, Comes
<1>3. CASE Stays(a) \/ Restarts(a)
  BY <1>3 DEF Stays, Restarts, Live
<1>4. CASE Ends(a)
  <2>1. \/ adding' = [u \in Users |-> None]
        \/ n \in ran' \cup stopped'
    BY <1>4 DEF Ends, Live
  <2>2. ASSUME NEW b \in Addrs, timer'[b] # Free PROVE timer'[b].seq # n
    BY <1>1, <1>4, <2>2, TimerEffect DEF Stays, Comes, Ends, Restarts
  <2> QED
    BY <1>1, <2>1, <2>2 DEF Gone, Over
<1> QED
  BY <1>2, <1>3, <1>4

LEMMA AddingStep ==
  ASSUME Core, AddingInv, [Next]_vars
  PROVE  AddingInv'
<1> DEFINE Held(u) ==
             /\ adding[u][2] < numCreated
             /\ Live(adding[u][1], adding[u][2]) \/ Gone(adding[u][2])
             /\ timer[adding[u][1]] # Free => timer[adding[u][1]].seq >= adding[u][2]
<1>1. SUFFICES ASSUME NEW u \in Users, adding'[u] # None
               PROVE  Held(u)'
  BY DEF AddingInv
<1>2. adding \in [Users -> TimerId \cup {None}] /\ numCreated \in Nat
  BY Types DEF Core, TypeOK
<1>3. CASE adding'[u] = adding[u]
  <2>1. adding[u] \in TimerId
    BY <1>1, <1>2, <1>3
  <2>2. PICK a \in Addrs, n \in Seqs : adding[u] = <<a, n>> /\ n \in Nat
    BY <2>1, Types DEF Core
  <2>3. adding[u][1] = a /\ adding[u][2] = n
    BY <2>2
  <2>4. n < numCreated /\ (Live(a, n) \/ Gone(n)) /\ (timer[a] # Free => timer[a].seq >= n)
    BY <1>1, <1>3, <2>3 DEF AddingInv, Live, Gone, Over
  <2>5. adding' # [v \in Users |-> None]
    BY <1>1
  <2>6. Live(a, n)' \/ Gone(n)'
    BY <2>2, <2>4, <2>5, LiveGoes, GoneStays
  <2>7. timer'[a] # Free => timer'[a].seq >= n
    BY <1>2, <2>2, <2>4, TimerEffect DEF Stays, Comes, Ends, Restarts
  <2>8. n < numCreated'
    BY <1>2, <2>2, <2>4, TimerEffect
  <2> QED
    BY <1>3, <2>3, <2>6, <2>7, <2>8 DEF Live, Gone, Over
<1>4. ASSUME NEW a \in Addrs, NEW t \in Timer, AddTimer(u, a, t)
      PROVE  Held(u)'
  <2>1. /\ adding' = [adding EXCEPT ![u] = <<a, t.seq>>]
        /\ timer' = [timer EXCEPT ![a] = t]
        /\ t.seq = numCreated /\ numCreated' = numCreated + 1
    BY <1>4 DEF AddTimer, NewTimer
  <2>2. adding'[u] = <<a, t.seq>> /\ timer'[a] = t /\ t # Free
    BY <1>2, <2>1, Types DEF Core
  <2> QED
    BY <1>2, <2>1, <2>2 DEF Live
<1>5. adding'[u] \in {adding[u], None} \/ \E a \in Addrs, t \in Timer : AddTimer(u, a, t)
  BY HistoryEffect
<1> QED
  BY <1>1, <1>3, <1>4, <1>5

LEMMA IdsStep ==
  ASSUME Core, AddingInv, IdsInv, [Next]_vars
  PROVE  IdsInv'
<1>0. TypeOK
  BY DEF Core
<1>1. ASSUME NEW i \in ids PROVE i.id[2] = i.meant \/ (i.meant < i.id[2] /\ Gone(i.meant)')
  BY <1>0, <1>1, HandedTypes, GoneStays DEF IdsInv
<1>2. ASSUME NEW n \in Seqs, NEW m \in Nat, NEW a, HandOut(n, <<a, m>>), m = n \/ (n < m /\ Gone(n)')
      PROVE  IdsInv'
  <2> DEFINE i == [meant |-> n, id |-> <<a, m>>]
  <2>1. ids' = ids \cup {i} /\ i.meant = n /\ i.id[2] = m
    BY <1>2 DEF HandOut
  <2> HIDE DEF i
  <2> QED
    BY <1>1, <1>2, <2>1 DEF IdsInv
<1>3. CASE ids' = ids
  BY <1>1, <1>3 DEF IdsInv
<1>4. ASSUME NEW a \in Addrs, NEW t \in Timer, LoopAddTimer(a, t) PROVE IdsInv'
  <2>1. HandOut(t.seq, <<a, t.seq>>) /\ t.seq = numCreated /\ numCreated \in 0..MaxSeq /\ numCreated < MaxSeq
    BY <1>0, <1>4, Types DEF LoopAddTimer, NewTimer
  <2>2. t.seq \in Seqs /\ t.seq \in Nat
    BY <2>1 DEF Seqs
  <2> QED
    BY <2>1, <2>2, <1>2
<1>5. ASSUME NEW u \in Users, ReadId(u) PROVE IdsInv'
  <2>1. adding[u] \in TimerId
    BY <1>0, <1>5 DEF ReadId, TypeOK
  <2>2. PICK a \in Addrs, n \in Seqs : adding[u] = <<a, n>>
    BY <1>0, <2>1, Types
  <2>3. CASE ids' = ids
    BY <2>3, <1>3
  <2>4. CASE timer[a] # Free /\ HandOut(n, <<a, timer[a].seq>>)
    <3>1. timer[a].seq \in Seqs /\ Seqs \subseteq Nat
      BY <1>0, <2>4, Types
    <3>2. (Live(a, n) \/ Gone(n)) /\ timer[a].seq >= n
      <4>1. adding[u] # None
        BY <1>5 DEF ReadId
      <4>2. adding[u][1] = a /\ adding[u][2] = n
        BY <2>2
      <4> QED
        BY <4>1, <4>2, <2>4 DEF AddingInv, Live, Gone, Over
    <3>3. Gone(n) => timer[a].seq # n
      BY <2>4 DEF Gone, Over
    <3>4. timer[a].seq = n \/ (n < timer[a].seq /\ Gone(n)')
      <4>1. CASE Live(a, n)
        BY <4>1 DEF Live
      <4>2. CASE Gone(n)
        <5>1. Gone(n)'
          BY <4>2, GoneStays
        <5>2. n \in Nat /\ timer[a].seq \in Nat /\ timer[a].seq # n /\ timer[a].seq >= n
          BY <3>1, <3>2, <3>3, <4>2
        <5>3. n < timer[a].seq
          BY <5>2
        <5> QED
          BY <5>1, <5>3
      <4> QED
        BY <3>2, <4>1, <4>2
    <3> QED
      BY <2>4, <3>1, <3>4, <1>2
  <2> QED
    <3>1. adding[u][1] = a /\ adding[u][2] = n
      BY <2>2
    <3>2. (timer[adding[u][1]] # Free /\ HandOut(adding[u][2], <<adding[u][1], timer[adding[u][1]].seq>>)) \/ ids' = ids
      BY <1>5 DEF ReadId
    <3> QED
      BY <3>1, <3>2, <2>3, <2>4
<1> QED
  BY <1>3, <1>4, <1>5, HistoryEffect

\* The one fault is that of a late read, of a Timer that is over.
LEMMA FaultStep ==
  ASSUME Core, AddingInv, NoFault, [Next]_vars
  PROVE  NoFault'
<1>1. CASE UNCHANGED vars
  BY <1>1 DEF vars, NoFault, Over
<1>2. CASE Next
  <2>1. IInv
    BY <1>2 DEF IInv, Unharmed, Next
  <2>2. CASE Unharmed'
    BY <2>2 DEF Unharmed, NoFault
  <2>3. ASSUME NEW u \in Users, ReadId(u) PROVE NoFault'
    <3>1. CASE UNCHANGED fault
      BY <2>1, <3>1 DEF IInv, Unharmed, NoFault
    <3>2. CASE timer[adding[u][1]] = Free /\ fault' = "read after free" /\ UNCHANGED adding
      <4>1. adding[u] # None /\ UNCHANGED <<timer, ran, stopped>>
        BY <2>3 DEF ReadId
      <4>2. Over(adding[u][2])
        BY <3>2, <4>1 DEF AddingInv, Live, Gone
      <4> QED
        BY <3>2, <4>1, <4>2 DEF NoFault, Over
    <3> QED
      BY <2>3, <3>1, <3>2 DEF ReadId
  <2> QED
    BY <1>2, <2>1, <2>2, <2>3, NextInv
<1> QED
  BY <1>1, <1>2

LEMMA AlwaysNamed == Spec => [](Core /\ AddingInv /\ IdsInv /\ NoFault)
<1>1. Init => Core /\ AddingInv /\ IdsInv /\ NoFault
  <2>1. Init => AddingInv /\ IdsInv /\ NoFault
    BY DEF Init, AddingInv, IdsInv, NoFault
  <2> QED
    BY <2>1, InitInv DEF IInv
<1>2. Core /\ AddingInv /\ IdsInv /\ NoFault /\ [Next]_vars =>
        Core' /\ AddingInv' /\ IdsInv' /\ NoFault'
  BY CoreStep, AddingStep, IdsStep, FaultStep
<1> QED
  BY <1>1, <1>2, PTL DEF Spec

\* No assertion of TimerQueue.cpp fails, and the only use of a deleted Timer is
\* that of addTimer on another thread (TimerQueue.cpp:59), for a Timer that the
\* loop thread is done with before its number is read.
THEOREM NeverFaults == Spec => []NoFault
  BY AlwaysNamed, PTL

\* Every Timer is accounted for, in every interleaving of callbacks, calls of
\* other threads and passes.
THEOREM AllAccounted == Spec => []TimersAccounted
<1>1. SameTimers /\ OwnedOnce /\ NoFault => TimersAccounted
  BY DEF TimersAccounted
<1> QED
  BY <1>1, ContainersAgree, OneOwner, NeverFaults, PTL

\* cancel() hits the timer that its id names and nothing else, for good; an id
\* names the timer it was handed out for, or, if addTimer has read it too late, a
\* younger one at the address of one that is over.
THEOREM CancelIsExact == Spec => []CancelExact
<1>1. IdsInv => IdsName
  BY DEF IdsInv, IdsName, Gone
<1>2. IdsName /\ UncancelledKept /\ CancelIsFinal => CancelExact
  BY DEF CancelExact
<1> QED
  BY <1>1, <1>2, AlwaysNamed, StaleIdHarmless, CancelFinal, PTL

------------------------------------------------------------------------------
(* The heap: what is where.                                                  *)

USE HeapAssumption DEF HeapAssumption

Used == 0..(size - 1)

\* What is where while an element looks for its place.
PlaceInv ==
  /\ pc # "idle" =>
       /\ elem \in Elems
       /\ hole <= size
       /\ hole = size <=> elem = victim
       /\ pc = "up" => hole < size
       /\ popping => victim \in Elems
  /\ \A i \in Used : (pc = "idle" \/ i # hole) =>
       /\ arr[i] \in Elems /\ idx[arr[i]] = i
       /\ pc # "idle" => arr[i] # elem /\ arr[i] # victim
  /\ \A e \in Elems : (idx[e] # -1 /\ (pc = "idle" \/ (e # elem /\ e # victim))) =>
       /\ idx[e] \in Used /\ arr[idx[e]] = e
       /\ pc # "idle" => idx[e] # hole

Ordered(i) == Key[arr[Parent(i)]] <= Key[arr[i]]

\* The order, but for the hole: its children are not smaller than its parent,
\* and the element fits above them (going up) or below it (going down).
OrderInv ==
  /\ pc = "idle" => \A i \in 1..(size - 1) : Ordered(i)
  /\ pc # "idle" =>
       /\ \A i \in 1..(size - 1) : i # hole /\ Parent(i) # hole => Ordered(i)
       /\ \A i \in 1..(size - 1) : Parent(i) = hole =>
            /\ hole > 0 => Key[arr[Parent(hole)]] <= Key[arr[i]]
            /\ pc = "up" => Key[elem] <= Key[arr[i]]
       /\ pc = "down" /\ hole > 0 /\ hole < size => Key[arr[Parent(hole)]] <= Key[elem]

\* push() places a newcomer; the others move the last element and have a victim,
\* and that of pop() is not larger than what stays.
PopInv ==
  pc # "idle" =>
    /\ victim = NoElem => ~popping /\ idx[elem] = -1
    /\ victim # NoElem => idx[victim] # -1 /\ idx[elem] # -1
    /\ popping => /\ Key[victim] <= Key[elem]
                  /\ \A i \in Used : i # hole => Key[victim] <= Key[arr[i]]

HeapInv ==
  /\ HeapTypeOK
  /\ WithinCapacity
  /\ PlaceInv
  /\ OrderInv
  /\ PopInv

------------------------------------------------------------------------------
(* Indices, and the root.                                                     *)

\* A node is the left or the right child of its parent.
LEMMA ParentFacts ==
  ASSUME NEW i \in Nat, i > 0
  PROVE  /\ Parent(i) \in Nat
         /\ Parent(i) < i
         /\ i = 2 * Parent(i) + 1 \/ i = 2 * Parent(i) + 2
  BY DEF Parent

\* In a heap the root is a least element: otherwise look at the first element
\* that is smaller than it.
LEMMA RootLeast ==
  ASSUME NEW n \in Nat, NEW key \in [0..(n - 1) -> Int],
         \A i \in 1..(n - 1) : key[Parent(i)] <= key[i],
         NEW k \in 0..(n - 1)
  PROVE  key[0] <= key[k]
<1> DEFINE Small == {i \in Nat : i < n /\ key[i] < key[0]}
<1>1. SUFFICES ASSUME Small # {} PROVE FALSE
  BY DEF Small
<1>2. PICK m \in Small : \A y \in Small : <<y, m>> \notin OpToRel(<, Nat)
  BY <1>1, WFMin, NatLessThanWellFounded, Zenon
<1>3. \A y \in Small : ~(y < m)
  BY <1>2, Zenon DEF OpToRel
<1>4. m \in Nat /\ m < n /\ key[m] < key[0] /\ m > 0
  OBVIOUS
<1>5. Parent(m) \in Nat /\ Parent(m) < m
  BY <1>4, ParentFacts
<1>6. key[Parent(m)] <= key[m]
  BY <1>4
<1>7. Parent(m) \in Small
  BY <1>4, <1>5, <1>6
<1> QED
  BY <1>3, <1>5, <1>7

LEMMA HeapTypes ==
  ASSUME HeapTypeOK
  PROVE  /\ arr \in [Indices -> Elems \cup {NoElem}]
         /\ size \in Nat /\ size <= MaxSize
         /\ hole \in Nat /\ hole < MaxSize
         /\ idx \in [Elems -> Indices \cup {-1}]
         /\ capacity \in Nat
         /\ elem \in Elems \cup {NoElem} /\ victim \in Elems \cup {NoElem}
         /\ \A i \in Nat : i < MaxSize => i \in Indices
         /\ \A i \in Indices : i \in Nat /\ i < MaxSize
<1>1. /\ \A i \in Nat : i < MaxSize => i \in Indices
      /\ \A i \in Indices : i \in Nat /\ i < MaxSize
  BY DEF Indices
<1>2. /\ size \in 0..MaxSize /\ hole \in Indices
      /\ capacity \in 0..(InitialCapacity + 2 * MaxSize)
  BY DEF HeapTypeOK
<1>3. /\ arr \in [Indices -> Elems \cup {NoElem}]
      /\ idx \in [Elems -> Indices \cup {-1}]
      /\ elem \in Elems \cup {NoElem} /\ victim \in Elems \cup {NoElem}
  BY DEF HeapTypeOK
<1>4. /\ size \in Nat /\ size <= MaxSize
      /\ capacity \in Nat
  BY <1>2
<1>5. hole \in Nat /\ hole < MaxSize
  BY <1>1, <1>2
<1> QED
  BY <1>1, <1>3, <1>4, <1>5, Zenon

------------------------------------------------------------------------------
(* One lemma per action.                                                      *)

LEMMA HeapInitInv == ASSUME HeapInit PROVE HeapInv
<1> USE DEF HeapInit
<1>1. HeapTypeOK
  <2>1. 0 \in Indices /\ 0 \in 0..MaxSize /\ 0 \in 0..(InitialCapacity + 2 * MaxSize)
    BY DEF Indices
  <2> QED
    BY <2>1, Zenon DEF HeapTypeOK
<1>2. PlaceInv
  BY DEF PlaceInv, Used
<1> QED
  BY <1>1, <1>2 DEF HeapInv, WithinCapacity, OrderInv, PopInv

LEMMA ReservedFacts ==
  ASSUME NEW n \in Nat, n <= MaxSize, capacity \in 0..(InitialCapacity + 2 * MaxSize)
  PROVE  /\ Reserved(n) \in 0..(InitialCapacity + 2 * MaxSize)
         /\ n <= Reserved(n)
  BY DEF Reserved, Larger

LEMMA PushInv ==
  ASSUME HeapInv, NEW e \in Elems, Push(e)
  PROVE  HeapInv'
<1> USE DEF HeapInv
<1>1. /\ pc = "idle" /\ idx[e] = -1 /\ size < MaxSize
      /\ size' = size + 1 /\ hole' = size /\ elem' = e /\ victim' = NoElem
      /\ popping' = FALSE /\ pc' = "up" /\ capacity' = Reserved(size + 1)
      /\ arr' = arr /\ idx' = idx /\ popped' = popped
  BY DEF Push
<1>2. capacity' \in 0..(InitialCapacity + 2 * MaxSize) /\ size + 1 <= capacity'
  <2>1. capacity \in 0..(InitialCapacity + 2 * MaxSize)
    BY DEF HeapTypeOK
  <2> QED
    BY <1>1, <2>1, HeapTypes, ReservedFacts
<1>3. HeapTypeOK'
  <2>1. size' \in 0..MaxSize /\ hole' \in Indices
    BY <1>1, HeapTypes
  <2> QED
    BY <1>1, <1>2, <2>1 DEF HeapTypeOK
<1>4. WithinCapacity'
  BY <1>1, <1>2, HeapTypes DEF WithinCapacity
<1>5. PlaceInv'
  <2>1. \A i \in Used' : i # hole' => i \in Used
    BY <1>1, HeapTypes DEF Used
  <2>2. \A i \in Used : i \in Used' /\ i # hole'
    BY <1>1, HeapTypes DEF Used
  <2>3. size' \in Nat /\ hole' < size' /\ elem' \in Elems /\ elem' # victim'
    BY <1>1, HeapTypes
  <2>4. \A i \in Used : arr[i] \in Elems /\ idx[arr[i]] = i /\ i # -1
    BY <1>1, HeapTypes DEF PlaceInv, Used
  <2>5. \A f \in Elems : idx[f] # -1 => idx[f] \in Used /\ arr[idx[f]] = f
    BY <1>1 DEF PlaceInv
  <2>6. \A i \in Used' : i # hole' =>
          arr'[i] \in Elems /\ idx'[arr'[i]] = i /\ arr'[i] # elem' /\ arr'[i] # victim'
    BY <1>1, <2>1, <2>4
  <2>7. \A f \in Elems : idx'[f] # -1 =>
          idx'[f] \in Used' /\ arr'[idx'[f]] = f /\ idx'[f] # hole'
    BY <1>1, <2>2, <2>5
  <2> QED
    BY <1>1, <2>3, <2>6, <2>7, HeapTypes DEF PlaceInv
<1>6. OrderInv'
  <2>1. \A i \in 1..(size' - 1) : i # hole' => i \in 1..(size - 1)
    BY <1>1, HeapTypes
  <2>2. \A i \in 1..(size' - 1) : Parent(i) # hole'
    BY <1>1, HeapTypes, ParentFacts
  <2> QED
    BY <1>1, <2>1, <2>2 DEF OrderInv, Ordered
<1>7. PopInv'
  BY <1>1 DEF PopInv
<1> QED
  BY <1>3, <1>4, <1>5, <1>6, <1>7

\* Taking the last element away leaves a heap with a hole in it.
LEMMA RemoveInv ==
  ASSUME HeapInv, pc = "idle", TakeLast, NEW e \in Elems, idx[e] # -1,
         hole' = idx[e], victim' = e, popping' \in BOOLEAN, pc' \in {"up", "down"},
         pc' = "up" => idx[e] > 0 /\ Key[arr[Parent(idx[e])]] > Key[arr[size - 1]],
         pc' = "down" =>
           idx[e] = 0 \/ Key[arr[Parent(idx[e])]] <= Key[arr[size - 1]],
         popping' => idx[e] = 0,
         UNCHANGED <<capacity, idx, popped>>
  PROVE  HeapInv'
<1> USE DEF HeapInv
<1>1. /\ size' = size - 1 /\ elem' = arr[size - 1]
      /\ arr' = [arr EXCEPT ![size - 1] = NoElem]
      /\ hole' = idx[e] /\ victim' = e
  BY DEF TakeLast
<1>2. /\ idx[e] \in Used /\ arr[idx[e]] = e
      /\ \A i \in Used : arr[i] \in Elems /\ idx[arr[i]] = i
      /\ \A f \in Elems : idx[f] # -1 => idx[f] \in Used /\ arr[idx[f]] = f
      /\ size > 0 /\ size - 1 \in Used /\ size \in Nat /\ size <= MaxSize
  <2>1. idx[e] \in Used
    BY DEF PlaceInv
  <2>2. size > 0 /\ size - 1 \in Used /\ size \in Nat /\ size <= MaxSize
    BY <2>1, HeapTypes DEF Used
  <2> QED
    BY <2>1, <2>2 DEF PlaceInv
<1>3. /\ \A i \in Used' : i \in Used /\ i # size - 1 /\ arr'[i] = arr[i]
      /\ \A i \in Used : i # size - 1 => i \in Used'
      /\ \A i \in Used : i \in Nat /\ i < size
  BY <1>1, <1>2, HeapTypes DEF Used
<1>4. /\ elem' \in Elems /\ idx[elem'] = size - 1
      /\ hole' <= size' /\ (hole' = size' <=> elem' = victim')
  BY <1>1, <1>2, <1>3
<1>5. pc' = "up" => hole' < size'
  <2>1. SUFFICES ASSUME pc' = "up", idx[e] = size - 1 PROVE FALSE
    BY <1>1, <1>2, <1>4, <1>3
  <2>2. idx[e] \in 1..(size - 1)
    BY <2>1, <1>2
  <2>3. Ordered(idx[e])
    BY <2>2 DEF OrderInv
  <2>4. Parent(idx[e]) \in Used
    BY <2>2, ParentFacts, <1>2 DEF Used
  <2> QED
    BY <2>1, <2>3, <2>4, <1>2 DEF Ordered
<1>6. HeapTypeOK'
  <2>1. size' \in 0..MaxSize /\ hole' \in Indices
    BY <1>1, <1>2, <1>3, HeapTypes
  <2>2. arr' \in [Indices -> Elems \cup {NoElem}]
    BY <1>1, HeapTypes
  <2> QED
    BY <1>1, <1>4, <2>1, <2>2 DEF HeapTypeOK
<1>7. WithinCapacity'
  BY <1>1, <1>2, <1>3, HeapTypes DEF WithinCapacity
<1>8. PlaceInv'
  <2>1. \A i \in Used' : i # hole' =>
          arr'[i] \in Elems /\ idx'[arr'[i]] = i /\ arr'[i] # elem' /\ arr'[i] # victim'
    BY <1>1, <1>2, <1>3, <1>4
  <2>2. \A f \in Elems : idx'[f] # -1 /\ f # elem' /\ f # victim' =>
          idx'[f] \in Used' /\ arr'[idx'[f]] = f /\ idx'[f] # hole'
    BY <1>1, <1>2, <1>3, <1>4
  <2> QED
    BY <1>4, <1>5, <2>1, <2>2 DEF PlaceInv
<1>9. \A i \in 1..(size' - 1) :
        /\ i \in Used' /\ Parent(i) \in Used' /\ arr'[i] = arr[i] /\ arr'[Parent(i)] = arr[Parent(i)]
        /\ Key[arr[Parent(i)]] <= Key[arr[i]]
  <2>1. SUFFICES ASSUME NEW i \in 1..(size' - 1)
                 PROVE  /\ i \in Used' /\ Parent(i) \in Used' /\ Ordered(i)
    BY <1>3 DEF Ordered
  <2>2. i \in Used' /\ i \in 1..(size - 1)
    BY <1>1, <1>2 DEF Used
  <2>3. Parent(i) \in Used'
    BY <2>2, ParentFacts, <1>1, <1>2 DEF Used
  <2> QED
    BY <2>2, <2>3 DEF OrderInv
<1>10. \A i \in Used' : Key[arr[i]] \in Int
  BY <1>2, <1>3
<1>11. Key[elem'] \in Int
  BY <1>4
<1>12. OrderInv'
  <2>1. hole' > 0 /\ hole' < size' =>
          /\ hole' \in 1..(size' - 1) /\ Parent(hole') \in Used'
          /\ arr'[Parent(hole')] = arr[Parent(hole')]
          /\ Key[arr[Parent(hole')]] <= Key[arr[hole']]
    <3>1. hole' > 0 /\ hole' < size' => hole' \in 1..(size' - 1)
      BY <1>1, <1>2, <1>3
    <3> QED
      BY <3>1, <1>9
  <2>2. ASSUME NEW i \in 1..(size' - 1), Parent(i) = hole', hole' > 0
        PROVE  Key[arr'[Parent(hole')]] <= Key[arr'[i]]
    <3>1. hole' < size' /\ hole' \in Used'
      BY <2>2, <1>9, <1>1, <1>2, <1>3
    <3> QED
      BY <3>1, <2>1, <2>2, <1>9, <1>10
  <2>3. ASSUME NEW i \in 1..(size' - 1), Parent(i) = hole', pc' = "up"
        PROVE  Key[elem'] <= Key[arr'[i]]
    <3>1. hole' > 0 /\ hole' < size'
      BY <1>1, <1>5, <2>3
    <3>2. Key[arr'[Parent(hole')]] <= Key[arr'[i]]
      BY <2>2, <2>3, <3>1
    <3>3. Key[arr[Parent(hole')]] > Key[elem']
      BY <1>1, <2>3
    <3> QED
      BY <2>1, <3>1, <3>2, <3>3, <1>9, <1>10, <1>11
  <2>4. ASSUME pc' = "down", hole' > 0, hole' < size' PROVE Key[arr'[Parent(hole')]] <= Key[elem']
    BY <1>1, <2>1, <2>4
  <2> QED
    BY <1>9, <2>2, <2>3, <2>4 DEF OrderInv, Ordered
<1>13. PopInv'
  <2>0. idx'[elem'] # -1 /\ idx'[victim'] # -1 /\ victim' # NoElem
    BY <1>1, <1>2, <1>3, <1>4
  <2>1. SUFFICES ASSUME idx[e] = 0, NEW i \in Used PROVE Key[e] <= Key[arr[i]]
    BY <1>1, <1>2, <1>3, <1>4, <2>0 DEF PopInv
  <2> DEFINE key == [j \in 0..(size - 1) |-> Key[arr[j]]]
  <2>2. key \in [0..(size - 1) -> Int]
    BY <1>2 DEF Used
  <2>3. \A j \in 1..(size - 1) : key[Parent(j)] <= key[j]
    <3>1. SUFFICES ASSUME NEW j \in 1..(size - 1) PROVE key[Parent(j)] <= key[j]
      OBVIOUS
    <3>2. Parent(j) \in 0..(size - 1) /\ j \in 0..(size - 1)
      BY <1>2, ParentFacts
    <3>3. Ordered(j)
      BY DEF OrderInv
    <3> QED
      BY <3>2, <3>3 DEF Ordered
  <2>4. i \in 0..(size - 1) /\ 0 \in 0..(size - 1)
    BY <1>2 DEF Used
  <2> HIDE DEF key
  <2>5. key[0] <= key[i]
    BY <1>2, <2>2, <2>3, <2>4, RootLeast
  <2> QED
    BY <2>1, <2>4, <2>5, <1>2 DEF key
<1> QED
  BY <1>6, <1>7, <1>8, <1>12, <1>13

LEMMA EraseInv ==
  ASSUME HeapInv, NEW e \in Elems, Erase(e)
  PROVE  HeapInv'
<1>1. /\ pc = "idle" /\ TakeLast /\ idx[e] # -1 /\ hole' = idx[e] /\ victim' = e
      /\ popping' = FALSE
      /\ pc' = IF idx[e] > 0 /\ Key[arr[Parent(idx[e])]] > Key[arr[size - 1]]
               THEN "up" ELSE "down"
      /\ UNCHANGED <<capacity, idx, popped>>
  BY DEF Erase
<1>2. /\ idx[e] \in Nat /\ idx[e] < size /\ size \in Nat
      /\ \A i \in Nat : i < size => arr[i] \in Elems
  BY <1>1, HeapTypes DEF HeapInv, PlaceInv, Used
<1>3. /\ pc' = "up" => idx[e] > 0 /\ Key[arr[Parent(idx[e])]] > Key[arr[size - 1]]
      /\ pc' = "down" => idx[e] = 0 \/ Key[arr[Parent(idx[e])]] <= Key[arr[size - 1]]
  <2>1. CASE idx[e] > 0
    <3>1. Parent(idx[e]) \in Nat /\ Parent(idx[e]) < size /\ size - 1 \in Nat /\ size - 1 < size
      BY <1>2, <2>1, ParentFacts
    <3>2. Key[arr[Parent(idx[e])]] \in Int /\ Key[arr[size - 1]] \in Int
      BY <1>2, <3>1
    <3> QED
      BY <1>1, <2>1, <3>2
  <2>2. CASE idx[e] = 0
    BY <1>1, <2>2
  <2> QED
    BY <1>2, <2>1, <2>2
<1>4. pc' \in {"up", "down"} /\ popping' \in BOOLEAN /\ ~popping'
  BY <1>1, Zenon
<1> QED
  BY <1>1, <1>3, <1>4, RemoveInv

LEMMA PopInvKept ==
  ASSUME HeapInv, Pop
  PROVE  HeapInv'
<1>1. /\ pc = "idle" /\ size > 0 /\ TakeLast /\ hole' = 0 /\ victim' = arr[0]
      /\ popping' = TRUE /\ pc' = "down"
      /\ UNCHANGED <<capacity, idx, popped>>
  BY DEF Pop
<1>2. arr[0] \in Elems /\ idx[arr[0]] = 0
  BY <1>1, HeapTypes DEF HeapInv, PlaceInv, Used
<1>3. popping' \in BOOLEAN /\ pc' \in {"up", "down"} /\ pc' # "up" /\ idx[arr[0]] # -1
  BY <1>1, <1>2
<1> QED
  BY <1>1, <1>2, <1>3, RemoveInv

\* Moving an element other than the two on their way into the hole.
LEMMA MoveFromInv ==
  ASSUME HeapInv, pc # "idle", NEW i \in Used, i # hole, MoveFrom(i), hole < size
  PROVE  HeapTypeOK' /\ WithinCapacity' /\ PlaceInv' /\ PopInv'
<1> USE DEF HeapInv
<1>1. /\ arr' = [arr EXCEPT ![hole] = arr[i]]
      /\ idx' = [idx EXCEPT ![arr[i]] = hole]
      /\ hole' = i
      /\ UNCHANGED <<size, capacity, pc, elem, victim, popping, popped>>
  BY DEF MoveFrom
<1>2. /\ arr[i] \in Elems /\ idx[arr[i]] = i /\ arr[i] # elem /\ arr[i] # victim
      /\ i \in Nat /\ i < size /\ size \in Nat /\ i \in Indices
      /\ hole \in Indices /\ hole \in Used /\ hole # -1 /\ i # -1
  BY HeapTypes DEF PlaceInv, Used
<1>3. /\ arr' \in [Indices -> Elems \cup {NoElem}]
      /\ idx' \in [Elems -> Indices \cup {-1}]
      /\ arr'[hole] = arr[i] /\ idx'[arr[i]] = hole
      /\ \A j \in Used : j # hole => arr'[j] = arr[j]
      /\ \A f \in Elems : f # arr[i] => idx'[f] = idx[f]
  <2>1. Used \subseteq Indices
    BY HeapTypes DEF Used
  <2> QED
    BY <1>1, <1>2, <2>1, HeapTypes
<1>4. HeapTypeOK'
  BY <1>1, <1>2, <1>3 DEF HeapTypeOK
<1>5. WithinCapacity'
  BY <1>1, <1>2, HeapTypes DEF WithinCapacity
<1>6. PlaceInv'
  <2>1. Used' = Used
    BY <1>1 DEF Used
  <2>2. /\ \A j \in Used : j # hole =>
             arr[j] \in Elems /\ idx[arr[j]] = j /\ arr[j] # elem /\ arr[j] # victim
        /\ \A f \in Elems : idx[f] # -1 /\ f # elem /\ f # victim =>
             idx[f] \in Used /\ arr[idx[f]] = f /\ idx[f] # hole
    BY DEF PlaceInv
  <2>3. \A j \in Used : j # i =>
          arr'[j] \in Elems /\ idx'[arr'[j]] = j /\ arr'[j] # elem /\ arr'[j] # victim
    <3>1. SUFFICES ASSUME NEW j \in Used, j # i
                   PROVE  arr'[j] \in Elems /\ idx'[arr'[j]] = j /\ arr'[j] # elem /\ arr'[j] # victim
      OBVIOUS
    <3>2. CASE j = hole
      BY <1>2, <1>3, <3>2
    <3>3. CASE j # hole
      BY <1>2, <1>3, <2>2, <3>1, <3>3
    <3> QED
      BY <3>2, <3>3
  <2>4. \A f \in Elems : idx'[f] # -1 /\ f # elem /\ f # victim =>
          idx'[f] \in Used /\ arr'[idx'[f]] = f /\ idx'[f] # i
    <3>1. SUFFICES ASSUME NEW f \in Elems, idx'[f] # -1, f # elem, f # victim
                   PROVE  idx'[f] \in Used /\ arr'[idx'[f]] = f /\ idx'[f] # i
      OBVIOUS
    <3>2. CASE f = arr[i]
      BY <1>2, <1>3, <3>2
    <3>3. CASE f # arr[i]
      <4>1. idx'[f] = idx[f]
        BY <1>3, <3>3
      <4>2. idx[f] \in Used /\ arr[idx[f]] = f /\ idx[f] # hole
        BY <2>2, <3>1, <4>1
      <4>3. arr'[idx[f]] = f
        BY <1>3, <4>2
      <4> QED
        BY <3>3, <4>1, <4>2, <4>3
    <3> QED
      BY <3>2, <3>3
  <2>5. /\ elem' \in Elems /\ elem' # victim' /\ hole' < size' /\ hole' <= size' /\ hole' # size'
        /\ popping' => victim' \in Elems
    BY <1>1, <1>2, HeapTypes DEF PlaceInv
  <2> QED
    BY <1>1, <2>1, <2>3, <2>4, <2>5 DEF PlaceInv
<1>7. PopInv'
  <2>0. /\ victim = NoElem => ~popping /\ idx'[elem] = -1
        /\ victim # NoElem => idx'[victim] # -1 /\ idx'[elem] # -1
    BY <1>2, <1>3, HeapTypes DEF PopInv, PlaceInv
  <2>1. SUFFICES ASSUME popping
                 PROVE  /\ Key[victim] <= Key[elem]
                        /\ \A j \in Used : j # i => Key[victim] <= Key[arr'[j]]
    BY <1>1, <2>0 DEF PopInv, Used
  <2>2. victim \in Elems
    BY <2>1 DEF PlaceInv
  <2>3. /\ Key[victim] <= Key[elem]
        /\ \A j \in Used : j # hole => Key[victim] <= Key[arr[j]]
    BY <2>1 DEF PopInv
  <2>4. ASSUME NEW j \in Used, j # i PROVE Key[victim] <= Key[arr'[j]]
    <3>1. CASE j = hole
      BY <1>2, <1>3, <2>3, <3>1
    <3>2. CASE j # hole
      BY <1>3, <2>3, <3>2
    <3> QED
      BY <3>1, <3>2
  <2> QED
    BY <1>2, <1>3, <2>2, <2>3, <2>4
<1> QED
  BY <1>4, <1>5, <1>6, <1>7

\* The keys that are compared are integers.
LEMMA KeyTypes ==
  ASSUME HeapInv, pc # "idle"
  PROVE  /\ Key[elem] \in Int
         /\ \A j \in Used : j # hole => arr[j] \in Elems /\ Key[arr[j]] \in Int
         /\ \A j \in 1..(size - 1) : j \in Used /\ Parent(j) \in Used /\ Parent(j) # j
         /\ size \in Nat /\ hole \in Nat /\ hole < MaxSize
         /\ \A j \in Used : j \in Nat /\ j < size /\ j \in Indices
<1>1. \A j \in 1..(size - 1) : j \in Used /\ Parent(j) \in Used /\ Parent(j) # j
  BY ParentFacts, HeapTypes DEF HeapInv, Used
<1>2. elem \in Elems /\ \A j \in Used : j # hole => arr[j] \in Elems
  BY DEF HeapInv, PlaceInv
<1>3. size \in Nat /\ hole \in Nat /\ hole < MaxSize
  BY HeapTypes DEF HeapInv
<1>4. \A j \in Used : j \in Nat /\ j < size /\ j \in Indices
  BY HeapTypes DEF HeapInv, Used
<1> QED
  BY <1>1, <1>2, <1>3, <1>4

LEMMA UpStep ==
  ASSUME HeapInv, pc = "up", GoesUp, MoveFrom(Parent(hole))
  PROVE  HeapInv'
<1> DEFINE p == Parent(hole)
<1> USE DEF HeapInv
<1>1. /\ arr' = [arr EXCEPT ![hole] = arr[p]] /\ hole' = p
      /\ UNCHANGED <<size, pc, elem>>
  BY DEF MoveFrom
<1>2. /\ hole < size /\ hole > 0 /\ hole \in 1..(size - 1)
      /\ hole \in Used /\ p \in Used /\ p # hole /\ Key[arr[p]] > Key[elem]
  BY HeapTypes, KeyTypes DEF PlaceInv, GoesUp
<1>3. HeapTypeOK' /\ WithinCapacity' /\ PlaceInv' /\ PopInv'
  BY <1>2, MoveFromInv
<1>4. /\ arr'[hole] = arr[p]
      /\ \A j \in Used : j # hole => arr'[j] = arr[j]
  BY <1>1, <1>2, KeyTypes, HeapTypes
<1>5. /\ \A j \in 1..(size - 1) : j # hole /\ Parent(j) # hole => Key[arr[Parent(j)]] <= Key[arr[j]]
      /\ \A j \in 1..(size - 1) : Parent(j) = hole => Key[arr[p]] <= Key[arr[j]]
  BY <1>2 DEF OrderInv, Ordered
<1>6. ASSUME NEW j \in 1..(size - 1), j # p, Parent(j) # p PROVE Key[arr'[Parent(j)]] <= Key[arr'[j]]
  <2>1. j # hole /\ j \in Used /\ Parent(j) \in Used
    BY <1>6, KeyTypes
  <2>2. CASE Parent(j) = hole
    BY <1>4, <1>5, <2>1, <2>2
  <2>3. CASE Parent(j) # hole
    BY <1>4, <1>5, <2>1, <2>3
  <2> QED
    BY <2>2, <2>3
<1>7. ASSUME NEW j \in 1..(size - 1), Parent(j) = p
      PROVE  /\ Key[arr[p]] <= Key[arr'[j]] /\ Key[arr'[j]] \in Int
  <2>1. j \in Used /\ j # p
    BY <1>7, KeyTypes
  <2>2. CASE j = hole
    <3>1. Key[arr[p]] \in Int
      BY <1>2, KeyTypes
    <3>2. arr'[j] = arr[p]
      BY <1>4, <2>2
    <3> QED
      BY <3>1, <3>2
  <2>3. CASE j # hole
    BY <1>2, <1>4, <1>5, <1>7, <2>1, <2>3, KeyTypes
  <2> QED
    BY <2>2, <2>3
<1>8. p > 0 => /\ p \in 1..(size - 1) /\ Parent(p) \in Used /\ Parent(p) # hole
               /\ Key[arr[Parent(p)]] <= Key[arr[p]]
               /\ arr'[Parent(p)] = arr[Parent(p)]
  <2>1. SUFFICES ASSUME p > 0
                 PROVE  p \in 1..(size - 1) /\ Parent(p) \in Used /\ Parent(p) # hole
    BY <1>2, <1>4, <1>5
  <2>2. p \in Nat /\ p < hole
    BY <1>2, ParentFacts
  <2>3. Parent(p) \in Nat /\ Parent(p) < p
    BY <2>1, <2>2, ParentFacts
  <2>4. p \in 1..(size - 1)
    BY <1>2, <2>1, <2>2, KeyTypes
  <2> HIDE DEF p
  <2> QED
    BY <2>2, <2>3, <2>4, KeyTypes
<1>9. ASSUME NEW j \in 1..(size - 1), Parent(j) = p
      PROVE  /\ p > 0 => Key[arr'[Parent(p)]] <= Key[arr'[j]]
             /\ Key[elem] <= Key[arr'[j]]
  <2>1. Key[arr[p]] \in Int /\ Key[elem] \in Int
    BY <1>2, KeyTypes
  <2>2. p > 0 => Key[arr[Parent(p)]] \in Int
    BY <1>8, KeyTypes
  <2> QED
    BY <1>2, <1>7, <1>8, <1>9, <2>1, <2>2
<1>10. OrderInv'
  BY <1>1, <1>6, <1>9 DEF OrderInv, Ordered
<1> QED
  BY <1>3, <1>10

LEMMA DownStep ==
  ASSUME HeapInv, pc = "down", GoesDown, MoveFrom(MinChild)
  PROVE  HeapInv'
<1> DEFINE m == MinChild
<1> USE DEF HeapInv
<1>1. /\ arr' = [arr EXCEPT ![hole] = arr[m]] /\ hole' = m
      /\ UNCHANGED <<size, pc, elem>>
  BY DEF MoveFrom
<1>2. hole \in Nat /\ size \in Nat /\ 2 * hole + 2 <= size
  BY KeyTypes DEF GoesDown, RightChild
<1>3. hole < size /\ hole \in Used
  BY <1>2 DEF Used
<1>4. /\ m \in 1..(size - 1) /\ Parent(m) = hole /\ m # hole /\ m > hole /\ m \in Used
      /\ \A j \in 1..(size - 1) : Parent(j) = hole => Key[arr[m]] <= Key[arr[j]]
      /\ Key[elem] >= Key[arr[m]]
  <2> DEFINE r == RightChild(hole)
  <2>1. r = 2 * hole + 2
    BY <1>2 DEF RightChild
  <2>2. /\ r - 1 \in 1..(size - 1) /\ Parent(r - 1) = hole
        /\ r < size => r \in 1..(size - 1) /\ Parent(r) = hole
    BY <1>2, <2>1 DEF Parent
  <2>3. \A j \in 1..(size - 1) : Parent(j) = hole => j = r - 1 \/ (j = r /\ r < size)
    BY <1>2, <2>1, ParentFacts
  <2>4. /\ Key[arr[r - 1]] \in Int
        /\ r < size => Key[arr[r]] \in Int
    BY <1>2, <2>1, <2>2, KeyTypes
  <2>5. m = IF r = size \/ Key[arr[r]] > Key[arr[r - 1]] THEN r - 1 ELSE r
    BY DEF MinChild
  <2>6. Key[elem] >= Key[arr[m]]
    BY DEF GoesDown
  <2> HIDE DEF m, r
  <2>7. CASE m = r - 1 /\ (r = size \/ Key[arr[r]] > Key[arr[r - 1]])
    BY <1>2, <2>1, <2>2, <2>3, <2>4, <2>6, <2>7, KeyTypes
  <2>8. CASE m = r /\ r # size /\ ~(Key[arr[r]] > Key[arr[r - 1]])
    BY <1>2, <2>1, <2>2, <2>3, <2>4, <2>6, <2>8, KeyTypes
  <2> QED
    BY <2>5, <2>7, <2>8
<1> HIDE DEF m
<1>5. MoveFrom(m)
  BY DEF m
<1>6. HeapTypeOK' /\ WithinCapacity' /\ PlaceInv' /\ PopInv'
  BY <1>3, <1>4, <1>5, MoveFromInv
<1>7. /\ arr'[hole] = arr[m]
      /\ \A j \in Used : j # hole => arr'[j] = arr[j]
  BY <1>1, <1>3, KeyTypes, HeapTypes
<1>8. /\ \A j \in 1..(size - 1) : j # hole /\ Parent(j) # hole => Key[arr[Parent(j)]] <= Key[arr[j]]
      /\ hole > 0 => Key[arr[Parent(hole)]] <= Key[arr[m]]
  BY <1>4 DEF OrderInv, Ordered
<1>9. ASSUME NEW j \in 1..(size - 1), j # m, Parent(j) # m PROVE Key[arr'[Parent(j)]] <= Key[arr'[j]]
  <2>1. j \in Used /\ Parent(j) \in Used /\ Parent(j) # j
    BY KeyTypes
  <2>2. CASE j = hole
    <3>1. hole > 0 /\ Parent(hole) \in Used /\ Parent(hole) # hole
      BY <2>1, <2>2
    <3>2. arr'[Parent(hole)] = arr[Parent(hole)] /\ arr'[hole] = arr[m]
      BY <1>7, <3>1
    <3> QED
      BY <1>8, <2>2, <3>1, <3>2
  <2>3. CASE j # hole /\ Parent(j) = hole
    BY <1>4, <1>7, <2>1, <2>3
  <2>4. CASE j # hole /\ Parent(j) # hole
    BY <1>7, <1>8, <2>1, <2>4
  <2> QED
    BY <2>2, <2>3, <2>4
<1>10. ASSUME NEW j \in 1..(size - 1), Parent(j) = m PROVE Key[arr'[Parent(m)]] <= Key[arr'[j]]
  <2>1. j \in Used /\ j # hole
    <3>1. j \in Nat /\ j > 0 /\ Parent(j) < j
      BY ParentFacts
    <3> QED
      BY <1>2, <1>4, <1>10, <3>1, KeyTypes
  <2> QED
    BY <1>4, <1>7, <1>8, <1>10, <2>1
<1>11. OrderInv'
  <2>1. Key[arr'[Parent(m)]] <= Key[elem]
    BY <1>4, <1>7, KeyTypes
  <2> QED
    BY <1>1, <1>9, <1>10, <2>1 DEF OrderInv, Ordered
<1> QED
  BY <1>6, <1>11

\* What Place does to the array and the indices, the victim having gone.
LEMMA PlaceEffect ==
  ASSUME HeapInv, pc # "idle", Place
  PROVE  /\ UNCHANGED <<size, capacity>> /\ pc' = "idle" /\ hole' = 0 /\ popping' = FALSE
         /\ arr' \in [Indices -> Elems \cup {NoElem}]
         /\ idx' \in [Elems -> Indices \cup {-1}]
         /\ \A j \in Used : j # hole => arr'[j] = arr[j]
         /\ hole < size => arr'[hole] = elem /\ idx'[elem] = hole /\ elem # victim
         /\ \A e \in Elems : e # victim /\ e # elem => idx'[e] = idx[e]
         /\ victim \in Elems => idx'[victim] = -1
         /\ popped' \in Elems \cup {NoElem}
         /\ elem \in Elems
<1> USE DEF HeapInv
<1>1. /\ arr' = [arr EXCEPT ![hole] = IF elem = victim THEN NoElem ELSE elem]
      /\ idx' = [e \in Elems |-> IF e = victim THEN -1 ELSE IF e = elem THEN hole ELSE idx[e]]
      /\ popped' = IF popping THEN victim ELSE NoElem
      /\ UNCHANGED <<size, capacity>> /\ pc' = "idle" /\ hole' = 0 /\ popping' = FALSE
  BY DEF Place
<1>2. /\ elem \in Elems /\ hole \in Indices /\ size \in Nat /\ hole \in Nat
      /\ hole < size => elem # victim
      /\ Used \subseteq Indices
  BY HeapTypes DEF PlaceInv, Used
<1>3. popped' \in Elems \cup {NoElem}
  BY <1>1, HeapTypes DEF PlaceInv
<1>4. arr' \in [Indices -> Elems \cup {NoElem}]
  BY <1>1, <1>2, HeapTypes
<1>5. idx' \in [Elems -> Indices \cup {-1}]
  BY <1>1, <1>2, HeapTypes
<1>6. \A j \in Used : j # hole => arr'[j] = arr[j]
  BY <1>1, <1>2, HeapTypes
<1>7. hole < size => arr'[hole] = elem /\ idx'[elem] = hole /\ elem # victim
  BY <1>1, <1>2, HeapTypes
<1> QED
  BY <1>1, <1>2, <1>3, <1>4, <1>5, <1>6, <1>7

LEMMA PlaceKeeps ==
  ASSUME HeapInv, pc # "idle", Place,
         hole < size /\ hole > 0 => Key[arr[Parent(hole)]] <= Key[elem],
         \A j \in 1..(size - 1) : Parent(j) = hole => Key[elem] <= Key[arr[j]]
  PROVE  HeapInv'
<1> USE DEF HeapInv
<1>1. /\ UNCHANGED <<size, capacity>> /\ pc' = "idle" /\ hole' = 0 /\ popping' = FALSE
      /\ arr' \in [Indices -> Elems \cup {NoElem}]
      /\ idx' \in [Elems -> Indices \cup {-1}]
      /\ \A j \in Used : j # hole => arr'[j] = arr[j]
      /\ hole < size => arr'[hole] = elem /\ idx'[elem] = hole /\ elem # victim
      /\ \A e \in Elems : e # victim /\ e # elem => idx'[e] = idx[e]
      /\ victim \in Elems => idx'[victim] = -1
      /\ popped' \in Elems \cup {NoElem}
      /\ elem \in Elems
  BY PlaceEffect
<1>2. /\ Used' = Used /\ size \in Nat /\ size <= MaxSize /\ hole \in Nat
      /\ \A j \in Used : j \in Nat /\ j < size
  BY <1>1, HeapTypes DEF Used
<1>3. /\ hole <= size /\ (hole = size <=> elem = victim)
      /\ \A j \in Used : j # hole =>
           arr[j] \in Elems /\ idx[arr[j]] = j /\ arr[j] # elem /\ arr[j] # victim
      /\ \A e \in Elems : idx[e] # -1 /\ e # elem /\ e # victim =>
           idx[e] \in Used /\ arr[idx[e]] = e /\ idx[e] # hole
  BY DEF PlaceInv
<1>4. HeapTypeOK'
  <2>1. size' \in 0..MaxSize /\ hole' \in Indices /\ capacity' \in 0..(InitialCapacity + 2 * MaxSize)
    BY <1>1, HeapTypes DEF HeapTypeOK, Indices
  <2>2. elem' = NoElem /\ victim' = NoElem
    BY DEF Place
  <2> QED
    BY <1>1, <2>1, <2>2, Zenon DEF HeapTypeOK
<1>5. WithinCapacity'
  BY <1>1 DEF WithinCapacity
<1>6. \A j \in Used : arr'[j] \in Elems /\ idx'[arr'[j]] = j
  <2>1. SUFFICES ASSUME NEW j \in Used PROVE arr'[j] \in Elems /\ idx'[arr'[j]] = j
    OBVIOUS
  <2>2. CASE j = hole
    BY <1>1, <1>2, <2>1, <2>2
  <2>3. CASE j # hole
    BY <1>1, <1>3, <2>1, <2>3
  <2> QED
    BY <2>2, <2>3
<1>7. \A e \in Elems : idx'[e] # -1 => idx'[e] \in Used /\ arr'[idx'[e]] = e
  <2>1. SUFFICES ASSUME NEW e \in Elems, idx'[e] # -1 PROVE idx'[e] \in Used /\ arr'[idx'[e]] = e
    OBVIOUS
  <2>2. e # victim
    BY <1>1, <2>1
  <2>3. CASE e = elem
    <3>1. hole < size /\ hole \in Used
      BY <1>2, <1>3, <2>2, <2>3 DEF Used
    <3> QED
      BY <1>1, <2>3, <3>1
  <2>4. CASE e # elem
    <3>1. idx'[e] = idx[e]
      BY <1>1, <2>2, <2>4
    <3>2. idx[e] \in Used /\ arr[idx[e]] = e /\ idx[e] # hole
      BY <1>3, <2>1, <2>2, <2>4, <3>1
    <3> QED
      BY <1>1, <3>1, <3>2
  <2> QED
    BY <2>3, <2>4
<1>8. PlaceInv'
  BY <1>1, <1>2, <1>6, <1>7 DEF PlaceInv
<1>9. \A j \in 1..(size - 1) : Key[arr'[Parent(j)]] <= Key[arr'[j]]
  <2>1. SUFFICES ASSUME NEW j \in 1..(size - 1) PROVE Key[arr'[Parent(j)]] <= Key[arr'[j]]
    OBVIOUS
  <2>2. j \in Used /\ Parent(j) \in Used /\ Parent(j) # j
    BY KeyTypes
  <2>3. CASE j = hole
    <3>1. hole < size /\ hole > 0
      BY <1>2, <2>1, <2>3
    <3>2. arr'[Parent(j)] = arr[Parent(hole)] /\ arr'[j] = elem
      BY <1>1, <2>2, <2>3, <3>1
    <3> QED
      BY <3>1, <3>2
  <2>4. CASE Parent(j) = hole
    <3>1. hole < size
      BY <1>2, <2>2, <2>4
    <3>2. arr'[Parent(j)] = elem /\ arr'[j] = arr[j]
      BY <1>1, <2>2, <2>4, <3>1
    <3> QED
      BY <2>4, <3>2
  <2>5. CASE j # hole /\ Parent(j) # hole
    BY <1>1, <2>2, <2>5 DEF OrderInv, Ordered
  <2> QED
    BY <2>3, <2>4, <2>5
<1>10. OrderInv' /\ PopInv'
  BY <1>1, <1>9 DEF OrderInv, PopInv, Ordered
<1> QED
  BY <1>4, <1>5, <1>8, <1>10

LEMMA ShiftUpInv ==
  ASSUME HeapInv, ShiftUp
  PROVE  HeapInv'
<1>1. CASE GoesUp
  BY <1>1, UpStep DEF ShiftUp
<1>2. CASE ~GoesUp
  <2>1. pc = "up" /\ Place
    BY <1>2 DEF ShiftUp
  <2>2. \A j \in 1..(size - 1) : Parent(j) = hole => Key[elem] <= Key[arr[j]]
    BY <2>1 DEF HeapInv, OrderInv
  <2>3. hole < size /\ hole > 0 => Key[arr[Parent(hole)]] <= Key[elem]
    <3>1. hole < size /\ hole > 0 => hole \in 1..(size - 1)
      BY <2>1, KeyTypes
    <3> QED
      BY <1>2, <2>1, <3>1, KeyTypes DEF GoesUp
  <2> QED
    BY <2>1, <2>2, <2>3, PlaceKeeps
<1> QED
  BY <1>1, <1>2

LEMMA ShiftDownInv ==
  ASSUME HeapInv, ShiftDown
  PROVE  HeapInv'
<1>1. CASE GoesDown
  BY <1>1, DownStep DEF ShiftDown
<1>2. CASE ~GoesDown
  <2>1. pc = "down" /\ Place
    BY <1>2 DEF ShiftDown
  <2>2. hole < size /\ hole > 0 => Key[arr[Parent(hole)]] <= Key[elem]
    BY <2>1 DEF HeapInv, OrderInv
  <2>3. \A j \in 1..(size - 1) : Parent(j) = hole => Key[elem] <= Key[arr[j]]
    <3> DEFINE r == RightChild(hole)
               m == MinChild
    <3>1. size \in Nat /\ hole \in Nat /\ r = 2 * hole + 2
      BY <2>1, KeyTypes DEF RightChild
    <3>2. SUFFICES ASSUME NEW j \in 1..(size - 1), Parent(j) = hole
                   PROVE  Key[elem] <= Key[arr[j]]
      OBVIOUS
    <3>3. j = r - 1 \/ j = r
      BY <3>1, <3>2, ParentFacts
    <3>4. r <= size /\ r - 1 \in 1..(size - 1) /\ Parent(r - 1) = hole
          /\ (r < size => r \in 1..(size - 1) /\ Parent(r) = hole)
      BY <3>1, <3>3 DEF Parent
    <3>5. /\ Key[arr[r - 1]] \in Int /\ Key[elem] \in Int
          /\ r < size => Key[arr[r]] \in Int
      BY <2>1, <3>1, <3>4, KeyTypes
    <3>6. ~(Key[elem] >= Key[arr[m]])
      BY <1>2, <3>4 DEF GoesDown
    <3>7. m = IF r = size \/ Key[arr[r]] > Key[arr[r - 1]] THEN r - 1 ELSE r
      BY DEF MinChild
    <3> HIDE DEF r, m
    <3>8. CASE m = r - 1 /\ (r = size \/ Key[arr[r]] > Key[arr[r - 1]])
      BY <3>1, <3>2, <3>3, <3>4, <3>5, <3>6, <3>8
    <3>9. CASE m = r /\ r # size /\ ~(Key[arr[r]] > Key[arr[r - 1]])
      BY <3>1, <3>2, <3>3, <3>4, <3>5, <3>6, <3>9
    <3> QED
      BY <3>7, <3>8, <3>9
  <2> QED
    BY <2>1, <2>2, <2>3, PlaceKeeps
<1> QED
  BY <1>1, <1>2

LEMMA HeapStutterInv ==
  ASSUME HeapInv, UNCHANGED heapVars
  PROVE  HeapInv'
<1> USE DEF HeapInv, heapVars
<1>1. Used' = Used
  BY DEF Used
<1>2. PlaceInv' /\ PopInv'
  BY <1>1 DEF PlaceInv, PopInv
<1> QED
  BY <1>2 DEF HeapTypeOK, WithinCapacity, OrderInv, Ordered

LEMMA HeapNextInv == ASSUME HeapInv, [HeapNext]_heapVars PROVE HeapInv'
  BY ShiftUpInv, ShiftDownInv, PopInvKept, PushInv, EraseInv, HeapStutterInv DEF HeapNext

LEMMA HeapInvariance == HeapSpec => []HeapInv
<1>1. HeapInit => HeapInv
  BY HeapInitInv
<1>2. HeapInv /\ [HeapNext]_heapVars => HeapInv'
  BY HeapNextInv
<1> QED
  BY <1>1, <1>2, PTL DEF HeapSpec

------------------------------------------------------------------------------
(* The promises of the priority queue.                                        *)

Members == {e \in Elems : idx[e] # -1}

\* What pop() returns is a least member.
LEMMA VictimLeast ==
  ASSUME HeapInv, pc # "idle", popping
  PROVE  victim \in Members /\ \A f \in Members : Key[victim] <= Key[f]
<1> USE DEF HeapInv
<1>1. victim \in Elems /\ idx[victim] # -1
  BY DEF PlaceInv, PopInv
<1>2. SUFFICES ASSUME NEW f \in Members PROVE Key[victim] <= Key[f]
  BY <1>1 DEF Members
<1>3. CASE f = victim
  BY <1>1, <1>3
<1>4. CASE f = elem
  BY <1>4 DEF PopInv
<1>5. CASE f # victim /\ f # elem
  <2>1. idx[f] \in Used /\ arr[idx[f]] = f /\ idx[f] # hole
    BY <1>5 DEF PlaceInv, Members
  <2> QED
    BY <2>1 DEF PopInv
<1> QED
  BY <1>3, <1>4, <1>5

LEMMA PlaceRefines ==
  ASSUME HeapInv, pc # "idle", Place
  PROVE  PQ!Next
<1> USE DEF HeapInv
<1> DEFINE members == {e \in Elems : idx[e] # -1}
<1>1. /\ popped' = IF popping THEN victim ELSE NoElem
      /\ idx' = [e \in Elems |-> IF e = victim THEN -1 ELSE IF e = elem THEN hole ELSE idx[e]]
  BY DEF Place
<1>2. /\ elem \in Elems /\ hole \in Nat /\ hole # -1
      /\ victim \in Elems \cup {NoElem} /\ idx[elem] \in Int
  BY HeapTypes DEF PlaceInv
<1>3. CASE victim = NoElem
  <2>1. ~popping
    BY <1>3 DEF PlaceInv
  <2>2. popped' = NoElem
    BY <1>1, <2>1
  <2>3. members' = members \cup {elem}
    BY <1>1, <1>2, <1>3
  <2>4. idx[elem] = -1
    BY <1>3 DEF PopInv
  <2> QED
    BY <1>2, <2>2, <2>3, <2>4 DEF PQ!Next, PQ!Push
<1>4. CASE victim \in Elems
  <2>1. idx[victim] # -1 /\ idx[elem] # -1
    BY <1>4 DEF PopInv
  <2>2. members' = members \ {victim} /\ victim \in members
    BY <1>1, <1>2, <1>4, <2>1
  <2>3. CASE popping
    <3>1. popped' = victim
      BY <1>1, <2>3
    <3>2. \A f \in members : Key[victim] <= Key[f]
      BY <2>3, VictimLeast DEF Members
    <3> QED
      BY <2>2, <3>1, <3>2 DEF PQ!Next, PQ!Pop
  <2>4. CASE ~popping
    <3>1. popped' = NoElem
      BY <1>1, <2>4
    <3> QED
      BY <1>4, <2>2, <3>1 DEF PQ!Next, PQ!Erase
  <2> QED
    BY <2>3, <2>4
<1> QED
  BY <1>2, <1>3, <1>4

\* Moving an element into the hole is invisible.
LEMMA MoveFromSilent ==
  ASSUME HeapInv, pc # "idle", NEW i \in Used, i # hole, MoveFrom(i)
  PROVE  UNCHANGED PQ!vars
<1>1. /\ arr[i] \in Elems /\ idx[arr[i]] = i /\ i # -1 /\ hole # -1
  BY HeapTypes DEF HeapInv, PlaceInv, Used
<1>2. idx' = [idx EXCEPT ![arr[i]] = hole] /\ popped' = popped
  BY DEF MoveFrom
<1>3. \A e \in Elems : idx'[e] # -1 <=> idx[e] # -1
  BY <1>1, <1>2, HeapTypes DEF HeapInv
<1> QED
  BY <1>2, <1>3 DEF PQ!vars

LEMMA StepRefines ==
  ASSUME HeapInv, [HeapNext]_heapVars
  PROVE  [PQ!Next]_(PQ!vars)
<1>1. CASE UNCHANGED heapVars
  BY <1>1 DEF heapVars, PQ!vars
<1>2. CASE ShiftUp
  <2>1. CASE GoesUp
    <3>1. pc = "up" /\ MoveFrom(Parent(hole))
      BY <1>2, <2>1 DEF ShiftUp
    <3>2. hole \in 1..(size - 1)
      BY <2>1, <3>1, KeyTypes DEF GoesUp, HeapInv, PlaceInv
    <3> QED
      BY <3>1, <3>2, KeyTypes, MoveFromSilent
  <2>2. CASE ~GoesUp
    BY <1>2, <2>2, PlaceRefines DEF ShiftUp
  <2> QED
    BY <2>1, <2>2
<1>3. CASE ShiftDown
  <2>1. CASE GoesDown
    <3>1. pc = "down" /\ MoveFrom(MinChild)
      BY <1>3, <2>1 DEF ShiftDown
    <3>2. hole \in Nat /\ size \in Nat /\ 2 * hole + 2 <= size
      BY <2>1, <3>1, KeyTypes DEF GoesDown, RightChild
    <3>3. MinChild \in Used /\ MinChild # hole
      BY <3>2 DEF MinChild, RightChild, Used
    <3> QED
      BY <3>1, <3>3, MoveFromSilent
  <2>2. CASE ~GoesDown
    BY <1>3, <2>2, PlaceRefines DEF ShiftDown
  <2> QED
    BY <2>1, <2>2
<1>4. CASE Pop
  BY <1>4 DEF Pop, PQ!vars
<1>5. ASSUME NEW e \in Elems, Push(e) \/ Erase(e) PROVE UNCHANGED PQ!vars
  BY <1>5 DEF Push, Erase, PQ!vars
<1> QED
  BY <1>1, <1>2, <1>3, <1>4, <1>5 DEF HeapNext

------------------------------------------------------------------------------
(* The theorems.                                                              *)

\* The types of the heap's state are kept, and its capacity stays bounded.
THEOREM HeapTypeCorrect == HeapSpec => []HeapTypeOK
<1>1. HeapInv => HeapTypeOK
  BY DEF HeapInv
<1> QED
  BY <1>1, HeapInvariance, PTL

\* Between two calls the array is a heap.
LEMMA HeapOrder == HeapSpec => []HeapOrdered
<1>1. HeapInv => HeapOrdered
  BY DEF HeapInv, OrderInv, Ordered, HeapOrdered
<1> QED
  BY <1>1, HeapInvariance, PTL

\* erase() finds its element where the element's index says.
LEMMA IndexCorrect == HeapSpec => []IndexAgrees
<1>1. ASSUME HeapInv PROVE IndexAgrees
  <2>1. SUFFICES ASSUME pc = "idle"
                 PROVE  /\ \A i \in 0..(size - 1) : arr[i] # NoElem /\ idx[arr[i]] = i
                        /\ \A e \in Elems : idx[e] # -1 => idx[e] < size /\ arr[idx[e]] = e
    BY DEF IndexAgrees
  <2> QED
    BY <1>1, <2>1, HeapTypes DEF HeapInv, PlaceInv, Used
<1> QED
  BY <1>1, HeapInvariance, PTL

\* No access goes beyond what reserve() has allocated.
LEMMA Allocated == HeapSpec => []WithinCapacity
<1>1. HeapInv => WithinCapacity
  BY DEF HeapInv
<1> QED
  BY <1>1, HeapInvariance, PTL

\* All three: between two calls the heap is as every call expects it.
THEOREM HeapWellFormed == HeapSpec => []WellFormed
<1>1. HeapOrdered /\ IndexAgrees /\ WithinCapacity => WellFormed
  BY DEF WellFormed
<1> QED
  BY <1>1, HeapOrder, IndexCorrect, Allocated, PTL

\* The heap is a priority queue: push, pop and erase, one iteration at a time,
\* add and remove exactly their element, and pop() returns a least one.
THEOREM HeapImplementsPriorityQueue == HeapSpec => ImplementsPriorityQueue
<1>1. HeapInit => PQ!Init
  BY DEF HeapInit, PQ!Init
<1>2. HeapInv /\ [HeapNext]_heapVars => [PQ!Next]_(PQ!vars)
  BY StepRefines
<1> QED
  BY <1>1, <1>2, HeapInvariance, PTL DEF HeapSpec, PQ!Spec, ImplementsPriorityQueue
=============================================================================

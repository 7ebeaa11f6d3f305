-------------------------- MODULE EventQueue_proofs --------------------------
(***************************************************************************)
(* Proofs about EventQueue, for any set of threads, any nesting depth and  *)
(* any set of events, and whether or not the copy of an event may fail.    *)
(* IntakeInv holds whether or not handlers throw; WakeupInv, and with it   *)
(* NoLostWakeup, needs handlers that do not.                               *)
(*                                                                         *)
(* The second part is about what becomes of the events: each accepted      *)
(* event is in one place, and none overtakes an event accepted before its  *)
(* call.  The invariant is OrderInv, which holds even if handlers throw.   *)
(* With WakeupInv it gives the refinement of SerialQueue, by one lemma for *)
(* each kind of step.                                                      *)
(***************************************************************************)
EXTENDS EventQueue, SequenceFacts, FiniteSetTheorems, TLAPS

LEMMA InitIntake == Init => IntakeInv
<1> SUFFICES ASSUME Init PROVE IntakeInv
  OBVIOUS
<1> USE DEF Init
<1>1. TypeOK
  <2>1. <<>> \in Seq(Events)
    OBVIOUS
  <2>2. pc \in [Actors -> PCs]
    BY DEF PCs
  <2>3. batch \in [Actors -> Seq(Events)]
    BY <2>1
  <2>4. QED
    BY <2>1, <2>2, <2>3 DEF TypeOK
<1>2. EventHeld /\ OneDispatcher /\ FlagHeld
  BY DEF EventHeld, OneDispatcher, FlagHeld, TopRegion, Dispatching
<1>3. MutexHeld
  BY NoActorAssumption DEF MutexHeld
<1>4. SizeAccounted
  BY DEF SizeAccounted, SizeAhead
<1>5. QED
  BY <1>1, <1>2, <1>3, <1>4 DEF IntakeInv

\* The two steps of lock_and_swap_queue leave no room for another call's push:
\* the counter gives up exactly what the queue has lost.
LEMMA SubtractIntake ==
  ASSUME IntakeInv, NEW a \in Actors, SubtractSize(a)
  PROVE  IntakeInv'
<1> USE DEF IntakeInv, SubtractSize, At, GoTo
<1>1. mutex = a /\ pc[a] = "subtract" /\ mutex # NoActor
  BY NoActorAssumption DEF MutexHeld
<1>2. queueSize = Len(queued) + Len(batch[a]) + failed
  BY <1>1 DEF SizeAccounted, SizeAhead
<1>3. Len(queued) \in Nat /\ Len(batch[a]) \in Nat /\ failed \in Nat
  BY DEF TypeOK
<1>4. queueSize' = Len(queued') + failed' /\ queueSize' \in Nat
  <2>1. queueSize' = queueSize - Len(batch[a]) /\ queued' = queued /\ failed' = failed
    BY DEF history
  <2>2. queueSize' = Len(queued) + failed
    <3> DEFINE L == Len(queued)
               B == Len(batch[a])
    <3>1. L \in Nat /\ B \in Nat /\ queueSize = L + B + failed /\ queueSize' = queueSize - B
      BY <1>2, <1>3, <2>1
    <3> HIDE DEF L, B, IntakeInv, SubtractSize, At, GoTo
    <3>2. queueSize' = L + failed
      BY <3>1, <1>3
    <3>3. QED
      BY <3>2 DEF L
  <2>3. Len(queued') = Len(queued)
    BY <2>1
  <2>4. QED
    BY <1>3, <2>1, <2>2, <2>3
<1>5. TypeOK'
  BY <1>3, <1>4 DEF TypeOK, PCs, TopRegion, Dispatching, history
<1>6. EventHeld' /\ OneDispatcher' /\ FlagHeld'
  BY DEF TypeOK, EventHeld, OneDispatcher, FlagHeld, TopRegion, Dispatching
<1>7. MutexHeld'
  BY <1>1, NoActorAssumption DEF TypeOK, MutexHeld
<1>8. SizeAhead' = 0
  BY DEF SizeAhead
<1>9. SizeAccounted'
  BY <1>3, <1>4, <1>8 DEF SizeAccounted
<1>10. QED
  BY <1>5, <1>6, <1>7, <1>9

LEMMA StepIntake ==
  ASSUME IntakeInv, NEW a \in Actors, Step(a)
  PROVE  IntakeInv'
<1> USE NoActorAssumption
    DEF IntakeInv, TypeOK, EventHeld, OneDispatcher, FlagHeld, MutexHeld,
        SizeAccounted, SizeAhead, TopRegion, Dispatching, PCs, At, GoTo,
        machine, history
<1>1. CASE ReadSize(a)
  BY <1>1 DEF ReadSize
<1>2. CASE TakeTop(a)
  BY <1>2 DEF TakeTop
<1>3. CASE MissTop(a)
  BY <1>3 DEF MissTop
<1>4. CASE EndDirect(a)
  BY <1>4 DEF EndDirect
<1>5. CASE ClearDirect(a)
  BY <1>5 DEF ClearDirect
<1>6. CASE CountEvent(a)
  BY <1>6 DEF CountEvent
<1>7. CASE PushEvent(a)
  BY <1>7 DEF PushEvent
<1>8. CASE CheckSize(a)
  BY <1>8 DEF CheckSize
<1>9. CASE TakeDrain(a)
  BY <1>9 DEF TakeDrain
<1>10. CASE MissDrain(a)
  BY <1>10 DEF MissDrain
<1>11. CASE DrainCheck(a)
  BY <1>11 DEF DrainCheck
<1>12. CASE SwapQueue(a)
  BY <1>12 DEF SwapQueue
<1>13. CASE SubtractSize(a)
  BY <1>13, SubtractIntake
<1>14. CASE RunNext(a)
  BY <1>14 DEF RunNext
<1>15. CASE EndQueued(a)
  BY <1>15 DEF EndQueued
<1>16. CASE BatchDone(a)
  BY <1>16 DEF BatchDone
<1>17. CASE ClearDrain(a)
  BY <1>17 DEF ClearDrain
<1>18. QED
  BY <1>1, <1>2, <1>3, <1>4, <1>5, <1>6, <1>7, <1>8, <1>9, <1>10, <1>11,
     <1>12, <1>13, <1>14, <1>15, <1>16, <1>17 DEF Step

LEMMA CallIntake ==
  ASSUME IntakeInv, NEW a \in Actors, NEW e \in Events, Call(a, e)
  PROVE  IntakeInv'
BY NoActorAssumption
   DEF Call, IntakeInv, TypeOK, EventHeld, OneDispatcher, FlagHeld, MutexHeld,
       SizeAccounted, SizeAhead, TopRegion, Dispatching, PCs, At, GoTo, machine

LEMMA ThrowIntake ==
  ASSUME IntakeInv, NEW a \in Actors, Throw(a)
  PROVE  IntakeInv'
BY NoActorAssumption
   DEF Throw, IntakeInv, TypeOK, EventHeld, OneDispatcher, FlagHeld, MutexHeld,
       SizeAccounted, SizeAhead, TopRegion, Dispatching, PCs, At, GoTo, machine,
       history

LEMMA PushThrowsIntake ==
  ASSUME IntakeInv, NEW a \in Actors, PushThrows(a)
  PROVE  IntakeInv'
BY NoActorAssumption
   DEF PushThrows, IntakeInv, TypeOK, EventHeld, OneDispatcher, FlagHeld, MutexHeld,
       SizeAccounted, SizeAhead, TopRegion, Dispatching, PCs, At, GoTo

LEMMA NextIntake == IntakeInv /\ [Next]_vars => IntakeInv'
<1> SUFFICES ASSUME IntakeInv, [Next]_vars PROVE IntakeInv'
  OBVIOUS
<1>1. CASE \E a \in Actors : Step(a)
  BY <1>1, StepIntake
<1>2. CASE \E a \in Actors, e \in Events : Call(a, e)
  BY <1>2, CallIntake
<1>3. CASE \E a \in Actors : Throw(a)
  BY <1>3, ThrowIntake
<1>4. CASE \E a \in Actors : PushThrows(a)
  BY <1>4, PushThrowsIntake
<1>5. CASE UNCHANGED vars
  BY <1>5
  DEF vars, machine, history, IntakeInv, TypeOK, EventHeld, OneDispatcher,
      FlagHeld, MutexHeld, SizeAccounted, SizeAhead
<1>6. QED
  BY <1>1, <1>2, <1>3, <1>4, <1>5 DEF Next, Terminated

\* The strengthened invariant of the intake is inductive.
THEOREM IntakeInvariant == Spec => []IntakeInv
  BY InitIntake, NextIntake, PTL DEF Spec

\* All variables keep their types; for queue_size_ this says that
\* lock_and_swap_queue never subtracts more than was counted.
THEOREM TypeCorrect == Spec => []TypeOK
<1>1. IntakeInv => TypeOK
  BY DEF IntakeInv
<1>2. QED
  BY <1>1, IntakeInvariant, PTL

\* Handlers run to completion one at a time, whatever threads and handlers call
\* process_event and even if handlers throw.
THEOREM RunToCompletion == Spec => []OneDispatcher
<1>1. IntakeInv => OneDispatcher
  BY DEF IntakeInv
<1>2. QED
  BY <1>1, IntakeInvariant, PTL

LEMMA SizeNeverBehind == IntakeInv => QueueSizeExact
<1> SUFFICES ASSUME IntakeInv PROVE QueueSizeExact
  OBVIOUS
<1>1. Len(queued) \in Nat /\ queueSize \in Nat /\ failed \in Nat
  BY DEF IntakeInv, TypeOK
<1>2. mutex # NoActor => mutex \in Actors /\ Len(batch[mutex]) \in Nat
  BY DEF IntakeInv, TypeOK
<1>3. SizeAhead \in Nat /\ (mutex = NoActor => SizeAhead = 0)
  BY <1>2 DEF SizeAhead
<1>4. QED
  BY <1>1, <1>3 DEF IntakeInv, SizeAccounted, QueueSizeExact

\* queue_size_ read without the mutex never hides a queued event.
THEOREM QueueSizeCorrect == Spec => []QueueSizeExact
  BY SizeNeverBehind, IntakeInvariant, PTL

-----------------------------------------------------------------------------
LEMMA InitWakeup == Init => WakeupInv
  BY DEF Init, WakeupInv, FlagOwned, QueueWatched

\* A step either leaves somebody in charge of the queue, or leaves it empty.
LEMMA StepWakeup ==
  ASSUME IntakeInv, WakeupInv, NEW a \in Actors, Step(a)
  PROVE  WakeupInv'
<1> USE DEF IntakeInv, TypeOK, OneDispatcher, WakeupInv, FlagOwned, QueueWatched,
        TopRegion, Dispatching, At, GoTo, machine
<1>1. CASE ReadSize(a)
  BY <1>1 DEF ReadSize
<1>2. CASE TakeTop(a)
  BY <1>2 DEF TakeTop
<1>3. CASE MissTop(a)
  BY <1>3 DEF MissTop
<1>4. CASE EndDirect(a)
  BY <1>4 DEF EndDirect
<1>5. CASE ClearDirect(a)
  BY <1>5 DEF ClearDirect
<1>6. CASE CountEvent(a)
  BY <1>6 DEF CountEvent
<1>7. CASE PushEvent(a)
  BY <1>7 DEF PushEvent
<1>8. CASE CheckSize(a)
  <2>1. queueSize >= Len(queued)
    BY SizeNeverBehind DEF QueueSizeExact
  <2>2. queueSize = 0 => queued = <<>>
    BY <2>1
  <2>3. QED
    BY <1>8, <2>2 DEF CheckSize
<1>9. CASE TakeDrain(a)
  BY <1>9 DEF TakeDrain
<1>10. CASE MissDrain(a)
  BY <1>10 DEF MissDrain
<1>11. CASE DrainCheck(a)
  BY <1>11 DEF DrainCheck
<1>12. CASE SwapQueue(a)
  BY <1>12 DEF SwapQueue
<1>13. CASE SubtractSize(a)
  BY <1>13 DEF SubtractSize
<1>14. CASE RunNext(a)
  BY <1>14 DEF RunNext
<1>15. CASE EndQueued(a)
  BY <1>15 DEF EndQueued
<1>16. CASE BatchDone(a)
  BY <1>16 DEF BatchDone
<1>17. CASE ClearDrain(a)
  BY <1>17 DEF ClearDrain
<1>18. QED
  BY <1>1, <1>2, <1>3, <1>4, <1>5, <1>6, <1>7, <1>8, <1>9, <1>10, <1>11,
     <1>12, <1>13, <1>14, <1>15, <1>16, <1>17 DEF Step

\* A counted event that is not pushed leaves the queue as it was, and the call
\* that gives up was not one of those the queue relies on.
LEMMA PushThrowsWakeup ==
  ASSUME IntakeInv, WakeupInv, NEW a \in Actors, PushThrows(a)
  PROVE  WakeupInv'
BY DEF PushThrows, IntakeInv, TypeOK, WakeupInv, FlagOwned, QueueWatched,
       TopRegion, Dispatching, At, GoTo

LEMMA NextWakeup ==
  ASSUME Throwing = {}
  PROVE  IntakeInv /\ WakeupInv /\ [Next]_vars => WakeupInv'
<1> SUFFICES ASSUME IntakeInv, WakeupInv, [Next]_vars PROVE WakeupInv'
  OBVIOUS
<1>1. CASE \E a \in Actors : Step(a)
  BY <1>1, StepWakeup
<1>2. ASSUME NEW a \in Actors, NEW e \in Events, Call(a, e)
      PROVE  WakeupInv'
  BY <1>2
  DEF Call, At, GoTo, machine, IntakeInv, TypeOK, WakeupInv, FlagOwned,
      QueueWatched, TopRegion, Dispatching
<1>3. \A a \in Actors : ~Throw(a)
  BY DEF Throw
<1>4. CASE \E a \in Actors : PushThrows(a)
  BY <1>4, PushThrowsWakeup
<1>5. CASE UNCHANGED vars
  BY <1>5 DEF vars, machine, WakeupInv, FlagOwned, QueueWatched
<1>6. QED
  BY <1>1, <1>2, <1>3, <1>4, <1>5 DEF Next, Terminated

\* If handlers do not throw, no event is ever left behind in the queue by calls
\* that are all over, and the flag is free for the next call, even if pushes threw.
THEOREM NoEventForgotten ==
  ASSUME Throwing = {}
  PROVE  Spec => []NoLostWakeup
<1>1. IntakeInv /\ WakeupInv => NoLostWakeup
  <2> SUFFICES ASSUME IntakeInv, WakeupInv, AllIdle
               PROVE  queued = <<>> /\ queueSize = failed /\ ~isTop
    BY DEF NoLostWakeup
  <2> USE DEF IntakeInv, AllIdle
  <2>1. ~isTop /\ queued = <<>>
    BY DEF WakeupInv, FlagOwned, QueueWatched, TopRegion, Dispatching
  <2>2. mutex = NoActor
    BY DEF TypeOK, MutexHeld
  <2>3. queueSize = failed
    BY <2>1, <2>2 DEF TypeOK, SizeAccounted, SizeAhead
  <2>4. QED
    BY <2>1, <2>3
<1>2. QED
  BY <1>1, InitWakeup, NextWakeup, IntakeInvariant, PTL DEF Spec

-----------------------------------------------------------------------------
(* The places and the order of the events *)


LEMMA OneBatch ==
  ASSUME NEW b \in [Actors -> Seq(Events)], NEW a \in Actors,
         \A c \in Actors \ {a} : b[c] = <<>>
  PROVE  UNION {ToSet(b[c]) : c \in Actors} = ToSet(b[a])
<1>1. ToSet(<<>>) = {}
  BY DEF ToSet
<1>2. QED
  BY <1>1

\* The only batch there can be is that of the call in charge of the flag.
LEMMA BatchAtTop ==
  ASSUME IntakeInv, BatchHeld, NEW a \in Actors, pc[a] \in TopRegion
  PROVE  (\A c \in Actors \ {a} : batch[c] = <<>>) /\ Batched = ToSet(batch[a])
<1>1. \A c \in Actors \ {a} : batch[c] = <<>>
  BY DEF IntakeInv, OneDispatcher, BatchHeld, TopRegion, Dispatching
<1>2. QED
  BY <1>1, OneBatch DEF Batched, IntakeInv, TypeOK

LEMMA NoTopNoBatch ==
  ASSUME BatchHeld, \A a \in Actors : pc[a] \notin TopRegion
  PROVE  (\A c \in Actors : batch[c] = <<>>) /\ Batched = {}
<1>1. \A c \in Actors : batch[c] = <<>>
  BY DEF BatchHeld, TopRegion, Dispatching
<1>2. QED
  BY <1>1 DEF Batched, ToSet

LEMMA InitOrder == Init => OrderInv
<1> SUFFICES ASSUME Init PROVE OrderInv
  OBVIOUS
<1> USE DEF Init
<1>1. ToSet(<<>>) = {} /\ Batched = {}
  BY DEF ToSet, Batched
<1>2. EventsOwned /\ BatchHeld /\ NothingAhead
  BY DEF EventsOwned, BatchHeld, NothingAhead, Submitting
<1>3. AcceptedPlaced
  BY <1>1 DEF AcceptedPlaced
<1>4. PlacesDisjoint
  BY <1>1 DEF PlacesDisjoint, IsInjective
<1>5. AcceptedOrder /\ BatchOrder /\ QueueOrder
  BY DEF AcceptedOrder, BatchOrder, QueueOrder
<1>6. QED
  BY <1>2, <1>3, <1>4, <1>5 DEF OrderInv

-----------------------------------------------------------------------------
\* A step that moves no event and accepts none: it keeps the order if a call that
\* gets to the flag found the queue empty.
LEMMA QuietOrder ==
  ASSUME OrderInv,
         UNCHANGED <<batch, queued, submitted, accepted, seen, dispatched>>,
         \A a \in Actors : pc'[a] \in Submitting => pc[a] \in Submitting /\ ev'[a] = ev[a],
         \A a \in Actors : batch[a] # <<>> => pc'[a] \in {"subtract", "next", "queued"},
         \A a \in Actors : pc'[a] = "tryTop" => pc[a] = "tryTop" \/ queued = <<>>,
         FlagOwned' => FlagOwned
  PROVE  OrderInv'
<1> USE DEF OrderInv
<1>1. EventsOwned' /\ BatchHeld'
  BY DEF EventsOwned, BatchHeld
<1>2. Batched' = Batched
  BY DEF Batched
<1>3. AcceptedPlaced' /\ PlacesDisjoint'
  BY <1>2 DEF AcceptedPlaced, PlacesDisjoint
<1>4. AcceptedOrder' /\ BatchOrder' /\ QueueOrder'
  BY <1>2 DEF AcceptedOrder, BatchOrder, QueueOrder
<1>5. NothingAhead'
  <2>1. queued = <<>> => ToSet(queued) = {}
    BY DEF ToSet
  <2>2. \A a \in Actors : pc'[a] = "tryTop" => ev'[a] = ev[a]
    BY DEF Submitting
  <2>3. QED
    BY <2>1, <2>2 DEF NothingAhead
<1>6. QED
  BY <1>1, <1>3, <1>4, <1>5

LEMMA QuietSteps ==
  ASSUME IntakeInv, OrderInv, NEW a \in Actors,
         \/ ReadSize(a) \/ MissTop(a) \/ EndDirect(a) \/ ClearDirect(a) \/ CountEvent(a)
         \/ CheckSize(a) \/ TakeDrain(a) \/ MissDrain(a) \/ DrainCheck(a)
         \/ SubtractSize(a) \/ EndQueued(a) \/ BatchDone(a) \/ ClearDrain(a)
         \/ PushThrows(a)
  PROVE  OrderInv'
<1> USE DEF IntakeInv, TypeOK, OrderInv, BatchHeld, OneDispatcher, FlagHeld, FlagOwned,
        Submitting, TopRegion, Dispatching, At, GoTo, machine, history
<1>1. CASE ReadSize(a)
  <2>1. queueSize = 0 => queued = <<>>
    BY SizeNeverBehind DEF QueueSizeExact
  <2>2. QED
    BY <1>1, <2>1, QuietOrder DEF ReadSize
<1>2. CASE MissTop(a)
  BY <1>2, QuietOrder DEF MissTop
<1>3. CASE EndDirect(a)
  BY <1>3, QuietOrder DEF EndDirect
<1>4. CASE ClearDirect(a)
  BY <1>4, QuietOrder DEF ClearDirect
<1>5. CASE CountEvent(a)
  BY <1>5, QuietOrder DEF CountEvent
<1>6. CASE CheckSize(a)
  BY <1>6, QuietOrder DEF CheckSize
<1>7. CASE TakeDrain(a)
  BY <1>7, QuietOrder DEF TakeDrain
<1>8. CASE MissDrain(a)
  BY <1>8, QuietOrder DEF MissDrain
<1>9. CASE DrainCheck(a)
  BY <1>9, QuietOrder DEF DrainCheck
<1>10. CASE SubtractSize(a)
  BY <1>10, QuietOrder DEF SubtractSize
<1>11. CASE EndQueued(a)
  BY <1>11, QuietOrder DEF EndQueued
<1>12. CASE BatchDone(a)
  BY <1>12, QuietOrder DEF BatchDone
<1>13. CASE ClearDrain(a)
  BY <1>13, QuietOrder DEF ClearDrain
<1>14. CASE PushThrows(a)
  BY <1>14, QuietOrder DEF PushThrows
<1>15. QED
  BY <1>1, <1>2, <1>3, <1>4, <1>5, <1>6, <1>7, <1>8, <1>9, <1>10, <1>11, <1>12,
     <1>13, <1>14

-----------------------------------------------------------------------------
\* What was accepted when a call began is fixed for an event in no place yet.
LEMMA CallOrder ==
  ASSUME IntakeInv, OrderInv, NEW a \in Actors, NEW e \in Events, Call(a, e)
  PROVE  OrderInv'
<1> USE DEF OrderInv, Call, At, GoTo
<1>1. /\ e \notin submitted /\ e \notin accepted /\ pc[a] = "idle"
      /\ UNCHANGED <<batch, queued, isTop, accepted, dispatched>>
      /\ pc' = [pc EXCEPT ![a] = "readSize"] /\ ev' = [ev EXCEPT ![a] = e]
      /\ submitted' = submitted \cup {e} /\ seen' = [seen EXCEPT ![e] = accepted]
      /\ pc \in [Actors -> PCs] /\ ev \in [Actors -> Events \cup {NoEvent}]
      /\ seen \in [Events -> SUBSET Events] /\ dispatched \in Seq(Events)
      /\ queued \in Seq(Events) /\ batch \in [Actors -> Seq(Events)]
  BY DEF machine, AcceptedPlaced, IntakeInv, TypeOK
<1>2. Batched' = Batched /\ (FlagOwned' => FlagOwned)
  BY <1>1 DEF Batched, FlagOwned, TopRegion, Dispatching
<1>3. \A x \in ToSet(dispatched) \cup Batched \cup ToSet(queued) : x # e /\ seen'[x] = seen[x]
  BY <1>1 DEF AcceptedPlaced
<1>4. EventsOwned'
  BY <1>1 DEF EventsOwned, Submitting
<1>5. BatchHeld'
  BY <1>1 DEF BatchHeld
<1>6. AcceptedPlaced' /\ PlacesDisjoint'
  BY <1>1, <1>2 DEF AcceptedPlaced, PlacesDisjoint
<1>7. AcceptedOrder'
  <2>1. \A i \in 1..Len(dispatched) : dispatched[i] \in ToSet(dispatched)
    BY <1>1 DEF ToSet
  <2>2. QED
    BY <1>1, <1>3, <2>1 DEF AcceptedOrder
<1>8. BatchOrder' /\ QueueOrder'
  <2>1. \A b \in Actors : \A i \in DOMAIN batch[b] : batch[b][i] \in Batched
    BY DEF Batched, ToSet
  <2>2. \A i \in DOMAIN queued : queued[i] \in ToSet(queued)
    BY DEF ToSet
  <2>3. QED
    BY <1>1, <1>2, <1>3, <2>1, <2>2 DEF BatchOrder, QueueOrder
<1>9. NothingAhead'
  <2> SUFFICES ASSUME NEW b \in Actors, pc'[b] = "tryTop"
               PROVE  seen'[ev'[b]] \cap ToSet(queued) = {}
    BY <1>1 DEF NothingAhead
  <2>1. b # a /\ pc[b] = "tryTop" /\ ev'[b] = ev[b] /\ ev[b] \in submitted
    BY <1>1 DEF EventsOwned, Submitting
  <2>2. ev[b] # e /\ seen'[ev[b]] = seen[ev[b]]
    BY <1>1, <2>1
  <2>3. QED
    BY <2>1, <2>2 DEF NothingAhead
<1>10. QED
  BY <1>4, <1>5, <1>6, <1>7, <1>8, <1>9

\* The flag was free, so nothing is in a batch; and nothing accepted before this
\* call is in the queue.
LEMMA TakeTopOrder ==
  ASSUME IntakeInv, OrderInv, NEW a \in Actors, TakeTop(a)
  PROVE  OrderInv'
<1> DEFINE e == ev[a]
<1> USE DEF OrderInv
<1>1. /\ pc[a] = "tryTop" /\ ~isTop /\ isTop' = TRUE
      /\ pc' = [pc EXCEPT ![a] = "direct"]
      /\ accepted' = accepted \cup {e} /\ dispatched' = Append(dispatched, e)
      /\ UNCHANGED <<ev, batch, queued, submitted, seen>>
      /\ pc \in [Actors -> PCs] /\ dispatched \in Seq(Events)
      /\ e \in submitted \ accepted /\ e \in Events
  BY DEF TakeTop, At, GoTo, IntakeInv, TypeOK, EventsOwned, Submitting
<1>2. \A b \in Actors : pc[b] \notin TopRegion
  BY <1>1 DEF IntakeInv, FlagHeld
<1>3. (\A b \in Actors : batch[b] = <<>>) /\ Batched = {} /\ Batched' = {}
  BY <1>1, <1>2, NoTopNoBatch DEF Batched
<1>4. accepted = ToSet(dispatched) \cup ToSet(queued)
  BY <1>1, <1>3 DEF AcceptedPlaced, FlagOwned
<1>5. seen[e] \subseteq ToSet(dispatched)
  BY <1>1, <1>4 DEF AcceptedPlaced, NothingAhead
<1>6. /\ Len(dispatched') = Len(dispatched) + 1 /\ Len(dispatched) \in Nat
      /\ \A i \in 1..Len(dispatched) : dispatched'[i] = dispatched[i]
      /\ dispatched'[Len(dispatched) + 1] = e
      /\ ToSet(dispatched') = ToSet(dispatched) \cup {e}
  BY <1>1, AppendFacts
<1>7. EventsOwned' /\ BatchHeld'
  BY <1>1, <1>3 DEF EventsOwned, BatchHeld, Submitting
<1>8. AcceptedPlaced'
  BY <1>1, <1>3, <1>4, <1>6 DEF AcceptedPlaced
<1>9. PlacesDisjoint'
  <2>1. IsInjective(dispatched')
    BY <1>1, <1>4, InjectiveAppend DEF PlacesDisjoint
  <2>2. \A b \in Actors : ToSet(batch[b]) = {}
    BY <1>3 DEF ToSet
  <2>3. QED
    BY <1>1, <1>4, <1>6, <2>1, <2>2 DEF PlacesDisjoint
<1>10. AcceptedOrder'
  <2> SUFFICES ASSUME NEW i \in 1..Len(dispatched')
               PROVE  seen[dispatched'[i]] \subseteq Before(dispatched', i)
    BY <1>1 DEF AcceptedOrder, Before
  <2>0. /\ \A j \in 1..Len(dispatched) : Before(dispatched', j) = Before(dispatched, j)
        /\ Before(dispatched', Len(dispatched) + 1) = ToSet(dispatched)
    BY <1>1, BeforeAppend
  <2>1. CASE i \in 1..Len(dispatched)
    <3>1. seen[dispatched[i]] \subseteq Before(dispatched, i)
      BY <2>1 DEF AcceptedOrder, Before
    <3>2. QED
      BY <1>6, <2>0, <2>1, <3>1
  <2>2. CASE i = Len(dispatched) + 1
    BY <1>5, <1>6, <2>0, <2>2
  <2>3. QED
    BY <1>6, <2>1, <2>2
<1>11. BatchOrder' /\ QueueOrder'
  <2>1. FlagOwned
    BY <1>1 DEF FlagOwned
  <2>2. QED
    BY <1>1, <1>3, <1>6, <2>1 DEF BatchOrder, QueueOrder
<1>12. NothingAhead'
  BY <1>1 DEF NothingAhead
<1>13. QED
  BY <1>7, <1>8, <1>9, <1>10, <1>11, <1>12

\* The event goes behind everything that was accepted.
LEMMA PushOrder ==
  ASSUME IntakeInv, OrderInv, NEW a \in Actors, PushEvent(a)
  PROVE  OrderInv'
<1> DEFINE e == ev[a]
<1> USE DEF OrderInv
<1>1. /\ pc[a] = "push" /\ pc' = [pc EXCEPT ![a] = "checkSize"]
      /\ ev' = [ev EXCEPT ![a] = NoEvent]
      /\ accepted' = accepted \cup {e} /\ queued' = Append(queued, e)
      /\ UNCHANGED <<batch, isTop, submitted, seen, dispatched>>
      /\ pc \in [Actors -> PCs] /\ ev \in [Actors -> Events \cup {NoEvent}]
      /\ queued \in Seq(Events) /\ dispatched \in Seq(Events)
      /\ e \in submitted \ accepted /\ e \in Events
  BY DEF PushEvent, At, GoTo, IntakeInv, TypeOK, EventsOwned, Submitting
<1>2. Batched' = Batched /\ (FlagOwned' => FlagOwned)
  BY <1>1 DEF Batched, FlagOwned, TopRegion, Dispatching
<1>3. /\ Len(queued') = Len(queued) + 1 /\ Len(queued) \in Nat
      /\ DOMAIN queued = 1..Len(queued) /\ DOMAIN queued' = 1..(Len(queued) + 1)
      /\ \A i \in 1..Len(queued) : queued'[i] = queued[i]
      /\ queued'[Len(queued) + 1] = e
      /\ ToSet(queued') = ToSet(queued) \cup {e}
  BY <1>1, AppendFacts
<1>4. EventsOwned' /\ BatchHeld'
  BY <1>1 DEF EventsOwned, BatchHeld, Submitting
<1>5. AcceptedPlaced'
  BY <1>1, <1>2, <1>3 DEF AcceptedPlaced
<1>6. e \notin ToSet(dispatched) \cup Batched \cup ToSet(queued)
  BY <1>1 DEF AcceptedPlaced
<1>7. PlacesDisjoint'
  <2>1. IsInjective(queued')
    BY <1>1, <1>6, InjectiveAppend DEF PlacesDisjoint
  <2>2. \A b \in Actors : ToSet(batch[b]) \subseteq Batched
    BY DEF Batched
  <2>3. QED
    BY <1>1, <1>3, <1>6, <2>1, <2>2 DEF PlacesDisjoint
<1>8. AcceptedOrder' /\ BatchOrder'
  <2>1. batch' = batch /\ dispatched' = dispatched /\ seen' = seen
    BY <1>1
  <2>2. AcceptedOrder'
    BY <2>1 DEF AcceptedOrder
  <2>3. BatchOrder'
    BY <2>1 DEF BatchOrder
  <2>4. QED
    BY <2>2, <2>3
<1>9. QueueOrder'
  <2> SUFFICES ASSUME FlagOwned, NEW i \in 1..(Len(queued) + 1)
               PROVE  seen[queued'[i]] \subseteq
                          ToSet(dispatched) \cup Batched \cup Before(queued', i)
    BY <1>1, <1>2, <1>3 DEF QueueOrder, Before
  <2>0. /\ \A j \in 1..Len(queued) : Before(queued', j) = Before(queued, j)
        /\ Before(queued', Len(queued) + 1) = ToSet(queued)
    BY <1>1, BeforeAppend
  <2>1. CASE i \in 1..Len(queued)
    <3>1. seen[queued[i]] \subseteq ToSet(dispatched) \cup Batched \cup Before(queued, i)
      BY <1>3, <2>1 DEF QueueOrder, Before
    <3>2. QED
      BY <1>3, <2>0, <2>1, <3>1
  <2>2. CASE i = Len(queued) + 1
    <3>1. seen[e] \subseteq ToSet(dispatched) \cup Batched \cup ToSet(queued)
      BY <1>1 DEF AcceptedPlaced
    <3>2. QED
      BY <1>3, <2>0, <2>2, <3>1
  <2>3. QED
    BY <1>3, <2>1, <2>2
<1>10. NothingAhead'
  <2> SUFFICES ASSUME NEW b \in Actors, pc'[b] = "tryTop"
               PROVE  seen[ev'[b]] \cap ToSet(queued') = {}
    BY <1>1 DEF NothingAhead
  <2>1. b # a /\ pc[b] = "tryTop" /\ ev'[b] = ev[b] /\ ev[b] \in Events
    BY <1>1 DEF EventsOwned, Submitting, IntakeInv, EventHeld
  <2>2. e \notin seen[ev[b]]
    BY <1>1, <2>1 DEF AcceptedPlaced
  <2>3. QED
    BY <1>3, <2>1, <2>2 DEF NothingAhead
<1>11. QED
  BY <1>4, <1>5, <1>7, <1>8, <1>9, <1>10

\* The queue becomes the batch: the one there was before is used up.
LEMMA SwapOrder ==
  ASSUME IntakeInv, OrderInv, NEW a \in Actors, SwapQueue(a)
  PROVE  OrderInv'
<1> USE DEF OrderInv
<1>1. /\ pc[a] = "swap" /\ pc' = [pc EXCEPT ![a] = "subtract"]
      /\ batch' = [batch EXCEPT ![a] = queued] /\ queued' = <<>>
      /\ UNCHANGED <<ev, isTop, submitted, accepted, seen, dispatched>>
      /\ pc \in [Actors -> PCs] /\ batch \in [Actors -> Seq(Events)]
      /\ queued \in Seq(Events)
  BY DEF SwapQueue, At, GoTo, history, IntakeInv, TypeOK
<1>2. pc[a] \in TopRegion /\ batch[a] = <<>>
  BY <1>1 DEF BatchHeld, TopRegion
<1>3. FlagOwned /\ \A c \in Actors : batch[c] = <<>>
  BY <1>2, BatchAtTop DEF FlagOwned
<1>4. /\ batch'[a] = queued /\ \A c \in Actors \ {a} : batch'[c] = <<>>
      /\ batch' \in [Actors -> Seq(Events)]
  BY <1>1, <1>3
<1>5. ToSet(<<>>) = {} /\ Batched = {} /\ Batched' = ToSet(queued)
  BY <1>3, <1>4, OneBatch DEF Batched, ToSet
<1>6. EventsOwned' /\ BatchHeld'
  BY <1>1, <1>4 DEF EventsOwned, BatchHeld, Submitting
<1>7. AcceptedPlaced'
  BY <1>1, <1>3, <1>5 DEF AcceptedPlaced
<1>8. PlacesDisjoint'
  <2>1. IsInjective(<<>>)
    BY DEF IsInjective
  <2>2. \A c \in Actors : batch'[c] = queued \/ batch'[c] = <<>>
    BY <1>4
  <2>3. QED
    BY <1>1, <1>5, <2>1, <2>2 DEF PlacesDisjoint
<1>9. AcceptedOrder'
  <2>1. dispatched' = dispatched /\ seen' = seen
    BY <1>1
  <2>2. QED
    BY <2>1 DEF AcceptedOrder
<1>10. BatchOrder'
  <2> SUFFICES ASSUME NEW b \in Actors, NEW i \in DOMAIN batch'[b]
               PROVE  seen[batch'[b][i]] \subseteq ToSet(dispatched) \cup Before(batch'[b], i)
    BY <1>1 DEF BatchOrder, Before
  <2>1. batch'[b] = queued
    BY <1>4
  <2>2. seen[queued[i]] \subseteq ToSet(dispatched) \cup Before(queued, i)
    BY <1>3, <1>5, <2>1 DEF QueueOrder, Before
  <2>3. QED
    BY <2>1, <2>2
<1>11. QueueOrder' /\ NothingAhead'
  BY <1>1, <1>5 DEF QueueOrder, NothingAhead
<1>12. QED
  BY <1>6, <1>7, <1>8, <1>9, <1>10, <1>11

\* The head of the batch is dispatched: what it must not overtake already is.
LEMMA RunNextOrder ==
  ASSUME IntakeInv, OrderInv, NEW a \in Actors, RunNext(a)
  PROVE  OrderInv'
<1> DEFINE b == batch[a]
           e == Head(b)
<1> USE DEF OrderInv
<1>1. /\ pc[a] = "next" /\ pc' = [pc EXCEPT ![a] = "queued"] /\ b # <<>>
      /\ ev' = [ev EXCEPT ![a] = e] /\ batch' = [batch EXCEPT ![a] = Tail(b)]
      /\ dispatched' = Append(dispatched, e)
      /\ UNCHANGED <<isTop, queued, submitted, accepted, seen>>
      /\ pc \in [Actors -> PCs] /\ ev \in [Actors -> Events \cup {NoEvent}]
      /\ batch \in [Actors -> Seq(Events)] /\ b \in Seq(Events)
      /\ dispatched \in Seq(Events)
  BY DEF RunNext, At, GoTo, machine, IntakeInv, TypeOK
<1>2. FlagOwned /\ Batched = ToSet(b) /\ \A c \in Actors \ {a} : batch[c] = <<>>
  BY <1>1, BatchAtTop DEF FlagOwned, TopRegion
<1>3. /\ e \in Events /\ e = b[1] /\ 1 \in DOMAIN b /\ Tail(b) \in Seq(Events)
      /\ \A i \in DOMAIN Tail(b) : i + 1 \in DOMAIN b /\ Tail(b)[i] = b[i + 1]
      /\ ToSet(b) = {e} \cup ToSet(Tail(b))
  BY <1>1, TailFacts
<1>4. /\ batch'[a] = Tail(b) /\ \A c \in Actors \ {a} : batch'[c] = <<>>
      /\ batch' \in [Actors -> Seq(Events)]
  BY <1>1, <1>2, <1>3
<1>5. Batched' = ToSet(Tail(b))
  BY <1>4, OneBatch DEF Batched
<1>6. /\ ToSet(dispatched') = ToSet(dispatched) \cup {e}
      /\ Len(dispatched') = Len(dispatched) + 1 /\ Len(dispatched) \in Nat
      /\ \A i \in 1..Len(dispatched) : dispatched'[i] = dispatched[i]
      /\ dispatched'[Len(dispatched) + 1] = e
  BY <1>1, <1>3, AppendFacts
<1> HIDE DEF b, e
<1>7. EventsOwned' /\ BatchHeld'
  BY <1>1, <1>4 DEF EventsOwned, BatchHeld, Submitting
<1>8. AcceptedPlaced'
  BY <1>1, <1>2, <1>3, <1>5, <1>6 DEF AcceptedPlaced
<1>9. PlacesDisjoint'
  <2>1. e \notin ToSet(dispatched) /\ e \notin ToSet(queued)
    BY <1>3 DEF PlacesDisjoint, b
  <2>2. IsInjective(dispatched')
    BY <1>1, <1>3, <2>1, InjectiveAppend DEF PlacesDisjoint
  <2>3. IsInjective(b)
    BY DEF PlacesDisjoint, b
  <2>4. IsInjective(Tail(b)) /\ e \notin ToSet(Tail(b))
    BY <1>1, <2>3, InjectiveTail DEF e
  <2>5. IsInjective(<<>>) /\ ToSet(<<>>) = {}
    BY DEF IsInjective, ToSet
  <2>6. ToSet(Tail(b)) \cap (ToSet(dispatched) \cup ToSet(queued)) = {}
    BY <1>3 DEF PlacesDisjoint, b
  <2>7. \A c \in Actors : batch'[c] = Tail(b) \/ batch'[c] = <<>>
    BY <1>4
  <2>8. IsInjective(queued) /\ ToSet(dispatched) \cap ToSet(queued) = {}
    BY DEF PlacesDisjoint
  <2>9. \A c \in Actors :
           /\ IsInjective(batch'[c])
           /\ ToSet(batch'[c]) \cap (ToSet(dispatched') \cup ToSet(queued)) = {}
    BY <1>6, <2>4, <2>5, <2>6, <2>7
  <2>10. QED
    BY <1>1, <1>6, <2>1, <2>2, <2>8, <2>9 DEF PlacesDisjoint
<1>10. seen[e] \subseteq ToSet(dispatched)
  <2>1. seen[b[1]] \subseteq ToSet(dispatched) \cup Before(b, 1)
    BY <1>3 DEF BatchOrder, Before, b
  <2>2. Before(b, 1) = {}
    BY DEF Before
  <2>3. QED
    BY <1>3, <2>1, <2>2
<1>11. AcceptedOrder'
  <2> SUFFICES ASSUME NEW i \in 1..Len(dispatched')
               PROVE  seen[dispatched'[i]] \subseteq Before(dispatched', i)
    BY <1>1 DEF AcceptedOrder, Before
  <2>0. /\ \A j \in 1..Len(dispatched) : Before(dispatched', j) = Before(dispatched, j)
        /\ Before(dispatched', Len(dispatched) + 1) = ToSet(dispatched)
    BY <1>1, <1>3, BeforeAppend
  <2>1. CASE i \in 1..Len(dispatched)
    <3>1. seen[dispatched[i]] \subseteq Before(dispatched, i)
      BY <2>1 DEF AcceptedOrder, Before
    <3>2. QED
      BY <1>6, <2>0, <2>1, <3>1
  <2>2. CASE i = Len(dispatched) + 1
    BY <1>6, <1>10, <2>0, <2>2
  <2>3. QED
    BY <1>6, <2>1, <2>2
<1>12. BatchOrder'
  <2> SUFFICES ASSUME NEW i \in DOMAIN Tail(b)
               PROVE  seen[Tail(b)[i]] \subseteq ToSet(dispatched') \cup Before(Tail(b), i)
    BY <1>1, <1>4 DEF BatchOrder, Before
  <2>1. seen[b[i + 1]] \subseteq ToSet(dispatched) \cup Before(b, i + 1)
    <3>1. i + 1 \in DOMAIN b
      BY <1>3
    <3>2. QED
      BY <3>1 DEF BatchOrder, Before, b
  <2>2. Before(b, i + 1) = {e} \cup Before(Tail(b), i)
    BY <1>1, BeforeTail DEF e
  <2>3. QED
    BY <1>3, <1>6, <2>1, <2>2
<1>13. QueueOrder'
  <2>1. ToSet(dispatched') \cup Batched' = ToSet(dispatched) \cup Batched
    BY <1>2, <1>3, <1>5, <1>6
  <2>2. QED
    BY <1>1, <1>2, <2>1 DEF QueueOrder
<1>14. NothingAhead'
  BY <1>1 DEF NothingAhead
<1>15. QED
  BY <1>7, <1>8, <1>9, <1>11, <1>12, <1>13, <1>14

\* An exception takes the rest of its call's batch with it and leaves the flag set
\* for good: what is lost is never dispatched, and so is never out of order.
LEMMA ThrowOrder ==
  ASSUME IntakeInv, OrderInv, NEW a \in Actors, Throw(a)
  PROVE  OrderInv'
<1> USE DEF OrderInv
<1>1. /\ pc[a] \in Dispatching /\ pc' = [pc EXCEPT ![a] = "idle"]
      /\ ev' = [ev EXCEPT ![a] = NoEvent] /\ batch' = [batch EXCEPT ![a] = <<>>]
      /\ UNCHANGED <<isTop, queued, submitted, accepted, seen, dispatched>>
      /\ pc \in [Actors -> PCs] /\ batch \in [Actors -> Seq(Events)]
  BY DEF Throw, At, GoTo, machine, history, IntakeInv, TypeOK, Dispatching
<1>2. pc[a] \in TopRegion
  BY <1>1 DEF TopRegion
<1>3. ~FlagOwned'
  BY <1>1, <1>2
  DEF IntakeInv, FlagHeld, OneDispatcher, FlagOwned, TopRegion, Dispatching
<1>4. \A c \in Actors : batch'[c] = <<>>
  BY <1>1, <1>2, BatchAtTop
<1>5. ToSet(<<>>) = {} /\ Batched' = {} /\ IsInjective(<<>>)
  BY <1>4 DEF Batched, ToSet, IsInjective
<1>6. EventsOwned' /\ BatchHeld'
  BY <1>1, <1>4 DEF EventsOwned, BatchHeld, Submitting
<1>7. AcceptedPlaced'
  BY <1>1, <1>3, <1>5 DEF AcceptedPlaced
<1>8. PlacesDisjoint'
  BY <1>1, <1>4, <1>5 DEF PlacesDisjoint
<1>9. AcceptedOrder'
  <2>1. dispatched' = dispatched /\ seen' = seen
    BY <1>1
  <2>2. QED
    BY <2>1 DEF AcceptedOrder
<1>10. BatchOrder' /\ QueueOrder'
  BY <1>3, <1>4 DEF BatchOrder, QueueOrder
<1>11. NothingAhead'
  BY <1>1 DEF NothingAhead
<1>12. QED
  BY <1>6, <1>7, <1>8, <1>9, <1>10, <1>11

LEMMA StepOrder ==
  ASSUME IntakeInv, OrderInv, NEW a \in Actors, Step(a)
  PROVE  OrderInv'
BY QuietSteps, TakeTopOrder, PushOrder, SwapOrder, RunNextOrder DEF Step

LEMMA NextOrder == IntakeInv /\ OrderInv /\ [Next]_vars => OrderInv'
<1> SUFFICES ASSUME IntakeInv, OrderInv, [Next]_vars PROVE OrderInv'
  OBVIOUS
<1>1. CASE \E a \in Actors : Step(a)
  BY <1>1, StepOrder
<1>2. CASE \E a \in Actors, e \in Events : Call(a, e)
  BY <1>2, CallOrder
<1>3. CASE \E a \in Actors : Throw(a)
  BY <1>3, ThrowOrder
<1>4. CASE \E a \in Actors : PushThrows(a)
  BY <1>4, QuietSteps
<1>5. CASE UNCHANGED vars
  <2>1. /\ UNCHANGED <<batch, queued, submitted, accepted, seen, dispatched>>
        /\ UNCHANGED <<pc, ev, isTop>>
    BY <1>5 DEF vars, machine, history
  <2>2. FlagOwned' => FlagOwned
    BY <2>1 DEF FlagOwned
  <2>3. QED
    BY <2>1, <2>2, QuietOrder DEF OrderInv, BatchHeld
<1>6. QED
  BY <1>1, <1>2, <1>3, <1>4, <1>5 DEF Next, Terminated

\* The invariant of the order of events is inductive, relative to IntakeInv.
THEOREM OrderInvariant == Spec => []OrderInv
  BY IntakeInvariant, InitOrder, NextOrder, PTL DEF Spec

\* No event is dispatched before one that was accepted when its process_event
\* began, although the fast path looks at queue_size_ and is_top_ in two steps,
\* and whether or not handlers and pushes throw.
THEOREM NoOvertaking == Spec => []AcceptedOrder
<1>1. OrderInv => AcceptedOrder
  BY DEF OrderInv
<1>2. QED
  BY <1>1, OrderInvariant, PTL

-----------------------------------------------------------------------------
\* The elements of Places(e) for one list: at most one.
PlacesIn(s, e, what, who) == {<<what, who, i>> : i \in {j \in DOMAIN s : s[j] = e}}

LEMMA OnePlace ==
  ASSUME NEW S, NEW s \in Seq(S), IsInjective(s), NEW e, NEW what, NEW who
  PROVE  IF e \in ToSet(s) THEN \E p : PlacesIn(s, e, what, who) = {p}
                            ELSE PlacesIn(s, e, what, who) = {}
<1> DEFINE P == PlacesIn(s, e, what, who)
<1>1. CASE e \in ToSet(s)
  <2>1. PICK k \in DOMAIN s : s[k] = e
    BY <1>1 DEF ToSet
  <2>2. {j \in DOMAIN s : s[j] = e} = {k}
    BY <2>1 DEF IsInjective
  <2>3. P = {<<what, who, k>>}
    BY <2>2 DEF PlacesIn
  <2>4. QED
    BY <1>1, <2>3
<1>2. CASE e \notin ToSet(s)
  BY <1>2 DEF ToSet, PlacesIn
<1>3. QED
  BY <1>1, <1>2

LEMMA PlacesCounted ==
  ASSUME IntakeInv, WakeupInv, OrderInv, NEW e \in Events
  PROVE  IF e \in accepted THEN \E p : Places(e) = {p} ELSE Places(e) = {}
<1> DEFINE D == PlacesIn(dispatched, e, "dispatched", NoActor)
           Q == PlacesIn(queued, e, "queued", NoActor)
           B(a) == PlacesIn(batch[a], e, "batch", a)
<1>1. Places(e) = D \cup Q \cup UNION {B(a) : a \in Actors}
  BY DEF Places, PlacesIn
<1>2. IF e \in ToSet(dispatched) THEN \E p : D = {p} ELSE D = {}
  BY OnePlace DEF IntakeInv, TypeOK, OrderInv, PlacesDisjoint
<1>3. IF e \in ToSet(queued) THEN \E p : Q = {p} ELSE Q = {}
  BY OnePlace DEF IntakeInv, TypeOK, OrderInv, PlacesDisjoint
<1>4. \A a \in Actors : IF e \in ToSet(batch[a]) THEN \E p : B(a) = {p} ELSE B(a) = {}
  <2> SUFFICES ASSUME NEW a \in Actors
               PROVE  IF e \in ToSet(batch[a]) THEN \E p : B(a) = {p} ELSE B(a) = {}
    OBVIOUS
  <2>1. batch[a] \in Seq(Events) /\ IsInjective(batch[a])
    BY DEF IntakeInv, TypeOK, OrderInv, PlacesDisjoint
  <2>2. QED
    BY <2>1, OnePlace
<1> HIDE DEF D, Q, B
<1>5. e \in accepted <=> e \in ToSet(dispatched) \cup ToSet(queued) \cup Batched
  BY DEF OrderInv, AcceptedPlaced, WakeupInv
<1>6. ToSet(dispatched) \cap ToSet(queued) = {}
  BY DEF OrderInv, PlacesDisjoint
<1>7. \A a \in Actors : ToSet(batch[a]) \cap (ToSet(dispatched) \cup ToSet(queued)) = {}
  BY DEF OrderInv, PlacesDisjoint
<1>8. CASE e \in Batched
  <2>1. PICK a \in Actors : e \in ToSet(batch[a])
    BY <1>8 DEF Batched
  <2>2. batch[a] # <<>>
    BY <2>1 DEF ToSet
  <2>3. pc[a] \in TopRegion
    BY <2>2 DEF OrderInv, BatchHeld, TopRegion, Dispatching
  <2>4. \A c \in Actors \ {a} : e \notin ToSet(batch[c])
    BY <2>3, BatchAtTop DEF OrderInv, ToSet
  <2>5. UNION {B(c) : c \in Actors} = B(a)
    BY <1>4, <2>4
  <2>6. D = {} /\ Q = {}
    BY <1>2, <1>3, <1>7, <2>1
  <2>7. QED
    BY <1>1, <1>4, <1>5, <1>8, <2>1, <2>5, <2>6
<1>9. CASE e \notin Batched
  <2>1. UNION {B(c) : c \in Actors} = {}
    BY <1>4, <1>9 DEF Batched
  <2>2. QED
    BY <1>1, <1>2, <1>3, <1>5, <1>6, <1>9, <2>1
<1>10. QED
  BY <1>8, <1>9

\* If handlers do not throw, every accepted event is in exactly one place: swapping
\* the queue and dispatching from the batch neither drop nor repeat one.  A push
\* that throws does not matter: its event is never accepted.
THEOREM NoEventLost ==
  ASSUME Throwing = {}
  PROVE  Spec => []NothingLost
<1>1. IntakeInv /\ WakeupInv /\ OrderInv => NothingLost
  <2> SUFFICES ASSUME IntakeInv, WakeupInv, OrderInv, NEW e \in Events
               PROVE  Cardinality(Places(e)) = IF e \in accepted THEN 1 ELSE 0
    BY DEF NothingLost
  <2>1. CASE e \in accepted
    BY <2>1, PlacesCounted, FS_Singleton
  <2>2. CASE e \notin accepted
    BY <2>2, PlacesCounted, FS_EmptySet
  <2>3. QED
    BY <2>1, <2>2
<1>2. QED
  BY <1>1, InitWakeup, NextWakeup, IntakeInvariant, OrderInvariant, PTL DEF Spec

-----------------------------------------------------------------------------
(* The intake implements SerialQueue *)

\* What the abstract variables are, by which call has the flag.
Mapped ==
    /\ \A a \in Actors : pc[a] \in TopRegion =>
          /\ PendingEvents = batch[a] \o queued
          /\ RunningEvent = IF pc[a] \in Dispatching THEN ev[a] ELSE NoEvent
    /\ (\A a \in Actors : pc[a] \notin TopRegion) =>
          PendingEvents = queued /\ RunningEvent = NoEvent

LEMMA StateMapped == TypeOK /\ OneDispatcher => Mapped
<1> SUFFICES ASSUME TypeOK, OneDispatcher PROVE Mapped
  OBVIOUS
<1>1. ASSUME NEW a \in Actors, pc[a] \in TopRegion
      PROVE  TopActors # {} /\ Top = a
  BY <1>1 DEF TopActors, Top, OneDispatcher
<1>2. CASE \A a \in Actors : pc[a] \notin TopRegion
  <2>1. TopActors = {}
    BY <1>2 DEF TopActors
  <2>2. <<>> \o queued = queued
    BY ConcatEmptySeq DEF TypeOK
  <2>3. QED
    BY <1>2, <2>1, <2>2 DEF Mapped, PendingEvents, RunningEvent
<1>3. CASE \E a \in Actors : pc[a] \in TopRegion
  BY <1>1, <1>3 DEF Mapped, PendingEvents, RunningEvent
<1>4. QED
  BY <1>2, <1>3

LEMMA AcceptedMapped ==
  ASSUME IntakeInv, WakeupInv, OrderInv
  PROVE  Abstract!Accepted = accepted
<1>1. Mapped
  BY StateMapped DEF IntakeInv
<1>2. accepted = ToSet(dispatched) \cup Batched \cup ToSet(queued)
  BY DEF OrderInv, AcceptedPlaced, WakeupInv
<1>3. ToSet(PendingEvents) = Batched \cup ToSet(queued)
  <2>1. CASE \A a \in Actors : pc[a] \notin TopRegion
    BY <1>1, <2>1, NoTopNoBatch DEF Mapped, OrderInv
  <2>2. ASSUME NEW a \in Actors, pc[a] \in TopRegion
        PROVE  ToSet(PendingEvents) = Batched \cup ToSet(queued)
    <3>1. PendingEvents = batch[a] \o queued /\ Batched = ToSet(batch[a])
      BY <1>1, <2>2, BatchAtTop DEF Mapped, OrderInv
    <3>2. batch[a] \in Seq(Events) /\ queued \in Seq(Events)
      BY DEF IntakeInv, TypeOK
    <3>3. QED
      BY <3>1, <3>2, ConcatFacts
  <2>3. QED
    BY <2>1, <2>2
<1>4. QED
  BY <1>2, <1>3 DEF Abstract!Accepted, Abstract!ToSet, ToSet

LEMMA InitRefines == Init => Abstract!Init
<1> SUFFICES ASSUME Init PROVE Abstract!Init
  OBVIOUS
<1>1. TopActors = {}
  BY DEF Init, TopActors, TopRegion, Dispatching
<1>2. PendingEvents = <<>> /\ RunningEvent = NoEvent
  <2>1. <<>> \o <<>> = <<>>
    BY ConcatEmptySeq, EmptySeq
  <2>2. QED
    BY <1>1, <2>1 DEF Init, PendingEvents, RunningEvent
<1>3. QED
  BY <1>2 DEF Init, Abstract!Init

\* A step of a call that keeps or has not got the flag, and moves no event.
LEMMA SilentRefines ==
  ASSUME Mapped, Mapped', NEW a \in Actors,
         \A b \in Actors : pc'[b] \in TopRegion <=> pc[b] \in TopRegion,
         \A b \in Actors : pc[b] \in TopRegion =>
              (IF pc'[b] \in Dispatching THEN ev'[b] ELSE NoEvent)
                = (IF pc[b] \in Dispatching THEN ev[b] ELSE NoEvent),
         UNCHANGED <<batch, queued, submitted, seen, dispatched>>
  PROVE  UNCHANGED Abstract!vars
<1>1. PendingEvents' = PendingEvents /\ RunningEvent' = RunningEvent
  <2>1. CASE \A b \in Actors : pc[b] \notin TopRegion
    BY <2>1 DEF Mapped
  <2>2. CASE \E b \in Actors : pc[b] \in TopRegion
    BY <2>2 DEF Mapped
  <2>3. QED
    BY <2>1, <2>2
<1>2. QED
  BY <1>1 DEF Abstract!vars

\* The flag changes hands, with nothing in a batch.
LEMMA FlagRefines ==
  ASSUME IntakeInv, IntakeInv', OrderInv, OrderInv', NEW a \in Actors,
         \/ TakeDrain(a) \/ ClearDirect(a) \/ ClearDrain(a)
  PROVE  UNCHANGED Abstract!vars
<1>1. Mapped /\ Mapped'
  BY StateMapped, PTL DEF IntakeInv
<1>2. /\ UNCHANGED <<batch, queued, submitted, seen, dispatched>>
      /\ pc[a] \notin Dispatching /\ pc'[a] \notin Dispatching
      /\ batch[a] = <<>> /\ pc \in [Actors -> PCs] /\ queued \in Seq(Events)
      /\ pc' = [pc EXCEPT ![a] = pc'[a]]
  BY DEF TakeDrain, ClearDirect, ClearDrain, At, GoTo, history, IntakeInv, TypeOK,
         OrderInv, BatchHeld, Dispatching
<1>3. <<>> \o queued = queued
  BY <1>2, ConcatEmptySeq
<1>4. CASE TakeDrain(a)
  <2>1. /\ \A b \in Actors : pc[b] \notin TopRegion
        /\ pc'[a] \in TopRegion
    BY <1>4 DEF TakeDrain, At, GoTo, IntakeInv, TypeOK, FlagHeld, TopRegion
  <2>2. PendingEvents = queued /\ RunningEvent = NoEvent
    BY <1>1, <2>1 DEF Mapped
  <2>3. PendingEvents' = queued /\ RunningEvent' = NoEvent
    BY <1>1, <1>2, <1>3, <2>1 DEF Mapped
  <2>4. QED
    BY <1>2, <2>2, <2>3 DEF Abstract!vars
<1>5. CASE ClearDirect(a) \/ ClearDrain(a)
  <2>1. /\ pc[a] \in TopRegion
        /\ \A b \in Actors : pc'[b] \notin TopRegion
    BY <1>2, <1>5
    DEF ClearDirect, ClearDrain, At, GoTo, IntakeInv, TypeOK, OneDispatcher, TopRegion,
        Dispatching
  <2>2. PendingEvents = queued /\ RunningEvent = NoEvent
    BY <1>1, <1>2, <1>3, <2>1 DEF Mapped
  <2>3. PendingEvents' = queued /\ RunningEvent' = NoEvent
    BY <1>1, <1>2, <2>1 DEF Mapped
  <2>4. QED
    BY <1>2, <2>2, <2>3 DEF Abstract!vars
<1>6. QED
  BY <1>4, <1>5

LEMMA CallRefines ==
  ASSUME IntakeInv, IntakeInv', WakeupInv, OrderInv,
         NEW a \in Actors, NEW e \in Events, Call(a, e)
  PROVE  Abstract!Submit(e)
<1>1. Mapped /\ Mapped' /\ Abstract!Accepted = accepted
  BY StateMapped, AcceptedMapped, PTL DEF IntakeInv
<1>2. /\ pc \in [Actors -> PCs] /\ ev \in [Actors -> Events \cup {NoEvent}]
      /\ pc[a] = "idle" /\ pc' = [pc EXCEPT ![a] = "readSize"]
      /\ ev' = [ev EXCEPT ![a] = e] /\ UNCHANGED <<batch, queued, dispatched>>
      /\ e \notin submitted /\ submitted' = submitted \cup {e}
      /\ seen' = [seen EXCEPT ![e] = accepted]
  BY DEF Call, At, GoTo, machine, IntakeInv, TypeOK
<1>3. /\ \A b \in Actors : pc'[b] \in TopRegion <=> pc[b] \in TopRegion
      /\ \A b \in Actors : pc[b] \in TopRegion => pc'[b] = pc[b] /\ ev'[b] = ev[b]
  BY <1>2 DEF TopRegion, Dispatching
<1>4. PendingEvents' = PendingEvents /\ RunningEvent' = RunningEvent
  <2>1. CASE \A b \in Actors : pc[b] \notin TopRegion
    BY <1>1, <1>2, <1>3, <2>1 DEF Mapped
  <2>2. CASE \E b \in Actors : pc[b] \in TopRegion
    BY <1>1, <1>2, <1>3, <2>2 DEF Mapped
  <2>3. QED
    BY <2>1, <2>2
<1>5. QED
  BY <1>1, <1>2, <1>4 DEF Abstract!Submit

LEMMA TakeTopRefines ==
  ASSUME IntakeInv, IntakeInv', WakeupInv, OrderInv, NEW a \in Actors, TakeTop(a)
  PROVE  Abstract!RunDirect(ev[a])
<1>1. Mapped /\ Mapped' /\ Abstract!Accepted = accepted
  BY StateMapped, AcceptedMapped, PTL DEF IntakeInv
<1>2. /\ pc \in [Actors -> PCs] /\ pc[a] = "tryTop" /\ ~isTop
      /\ pc' = [pc EXCEPT ![a] = "direct"]
      /\ dispatched' = Append(dispatched, ev[a])
      /\ UNCHANGED <<ev, batch, queued, submitted, seen>>
      /\ ev[a] \in submitted \ accepted /\ ev[a] \in Events /\ queued \in Seq(Events)
  BY DEF TakeTop, At, GoTo, IntakeInv, TypeOK, OrderInv, EventsOwned, Submitting
<1>3. \A b \in Actors : pc[b] \notin TopRegion
  BY <1>2 DEF IntakeInv, FlagHeld
<1>4. batch[a] = <<>> /\ <<>> \o queued = queued /\ Batched = {}
  BY <1>2, <1>3, NoTopNoBatch, ConcatEmptySeq DEF OrderInv
<1>5. seen[ev[a]] \subseteq ToSet(dispatched)
  <2>1. seen[ev[a]] \subseteq ToSet(dispatched) \cup ToSet(queued)
    BY <1>2, <1>4 DEF OrderInv, AcceptedPlaced, WakeupInv
  <2>2. QED
    BY <1>2, <2>1 DEF OrderInv, NothingAhead
<1>6. PendingEvents = queued /\ RunningEvent = NoEvent
  BY <1>1, <1>3 DEF Mapped
<1>7. PendingEvents' = queued /\ RunningEvent' = ev[a]
  <2>1. pc'[a] \in TopRegion /\ pc'[a] \in Dispatching
    BY <1>2 DEF TopRegion, Dispatching
  <2>2. QED
    BY <1>1, <1>2, <1>4, <2>1 DEF Mapped
<1>8. QED
  BY <1>1, <1>2, <1>5, <1>6, <1>7 DEF Abstract!RunDirect, Abstract!ToSet, ToSet

\* To add to the queue is to add behind the batch and the queue.
LEMMA AppendBehind ==
  \A s, t \in Seq(Events) : \A e \in Events : Append(s \o t, e) = s \o Append(t, e)
<1> SUFFICES ASSUME NEW s \in Seq(Events), NEW t \in Seq(Events), NEW e \in Events
             PROVE  Append(s \o t, e) = s \o Append(t, e)
  OBVIOUS
<1>1. /\ s \o t \in Seq(Events) /\ Append(t, e) \in Seq(Events) /\ <<e>> \in Seq(Events)
  BY ConcatFacts, AppendFacts
<1>2. Append(t, e) = t \o <<e>> /\ Append(s \o t, e) = (s \o t) \o <<e>>
  BY <1>1
<1>3. (s \o t) \o <<e>> = s \o (t \o <<e>>)
  BY <1>1, ConcatAssociative
<1>4. QED
  BY <1>2, <1>3

LEMMA PushRefines ==
  ASSUME IntakeInv, IntakeInv', WakeupInv, OrderInv, NEW a \in Actors, PushEvent(a)
  PROVE  Abstract!Enqueue(ev[a])
<1>1. Mapped /\ Mapped' /\ Abstract!Accepted = accepted
  BY StateMapped, AcceptedMapped, PTL DEF IntakeInv
<1>2. /\ pc \in [Actors -> PCs] /\ pc[a] = "push" /\ pc' = [pc EXCEPT ![a] = "checkSize"]
      /\ ev' = [ev EXCEPT ![a] = NoEvent] /\ ev \in [Actors -> Events \cup {NoEvent}]
      /\ queued' = Append(queued, ev[a])
      /\ UNCHANGED <<batch, submitted, seen, dispatched>>
      /\ ev[a] \in submitted \ accepted /\ ev[a] \in Events /\ queued \in Seq(Events)
      /\ batch \in [Actors -> Seq(Events)]
  BY DEF PushEvent, At, GoTo, IntakeInv, TypeOK, OrderInv, EventsOwned, Submitting
<1>3. /\ \A b \in Actors : pc'[b] \in TopRegion <=> pc[b] \in TopRegion
      /\ \A b \in Actors : pc[b] \in TopRegion => pc'[b] = pc[b] /\ ev'[b] = ev[b]
  BY <1>2 DEF TopRegion, Dispatching
<1>4. PendingEvents' = Append(PendingEvents, ev[a]) /\ RunningEvent' = RunningEvent
  <2>1. CASE \A b \in Actors : pc[b] \notin TopRegion
    BY <1>1, <1>2, <1>3, <2>1 DEF Mapped
  <2>2. ASSUME NEW b \in Actors, pc[b] \in TopRegion
        PROVE  PendingEvents' = Append(PendingEvents, ev[a]) /\ RunningEvent' = RunningEvent
    <3>1. batch[b] \in Seq(Events) /\ queued \in Seq(Events) /\ ev[a] \in Events
      BY <1>2
    <3>2. Append(batch[b] \o queued, ev[a]) = batch[b] \o Append(queued, ev[a])
      BY <3>1, AppendBehind
    <3>3. QED
      BY <1>1, <1>2, <1>3, <2>2, <3>2 DEF Mapped
  <2>3. QED
    BY <2>1, <2>2
<1>5. QED
  BY <1>1, <1>2, <1>4 DEF Abstract!Enqueue

LEMMA SwapRefines ==
  ASSUME IntakeInv, IntakeInv', OrderInv, NEW a \in Actors, SwapQueue(a)
  PROVE  UNCHANGED Abstract!vars
<1>1. Mapped /\ Mapped'
  BY StateMapped, PTL DEF IntakeInv
<1>2. /\ pc \in [Actors -> PCs] /\ pc[a] = "swap" /\ pc' = [pc EXCEPT ![a] = "subtract"]
      /\ batch \in [Actors -> Seq(Events)] /\ queued \in Seq(Events)
      /\ batch' = [batch EXCEPT ![a] = queued] /\ queued' = <<>> /\ batch[a] = <<>>
      /\ UNCHANGED <<submitted, seen, dispatched>>
  BY DEF SwapQueue, At, GoTo, history, IntakeInv, TypeOK, OrderInv, BatchHeld
<1>3. /\ pc[a] \in TopRegion \ Dispatching /\ pc'[a] \in TopRegion \ Dispatching
  BY <1>2 DEF TopRegion, Dispatching
<1>4. <<>> \o queued = queued /\ queued \o <<>> = queued
  BY <1>2, ConcatEmptySeq
<1>5. PendingEvents = queued /\ RunningEvent = NoEvent
  BY <1>1, <1>2, <1>3, <1>4 DEF Mapped
<1>6. PendingEvents' = queued /\ RunningEvent' = NoEvent
  BY <1>1, <1>2, <1>3, <1>4 DEF Mapped
<1>7. QED
  BY <1>2, <1>5, <1>6 DEF Abstract!vars

LEMMA RunNextRefines ==
  ASSUME IntakeInv, IntakeInv', NEW a \in Actors, RunNext(a)
  PROVE  Abstract!RunNext
<1>1. Mapped /\ Mapped'
  BY StateMapped, PTL DEF IntakeInv
<1> DEFINE b == batch[a]
<1>2. /\ pc \in [Actors -> PCs] /\ pc[a] = "next" /\ pc' = [pc EXCEPT ![a] = "queued"]
      /\ batch \in [Actors -> Seq(Events)] /\ b \in Seq(Events) /\ b # <<>>
      /\ ev \in [Actors -> Events \cup {NoEvent}] /\ queued \in Seq(Events)
      /\ ev' = [ev EXCEPT ![a] = Head(b)] /\ batch' = [batch EXCEPT ![a] = Tail(b)]
      /\ dispatched' = Append(dispatched, Head(b))
      /\ UNCHANGED <<queued, submitted, seen>>
  BY DEF RunNext, At, GoTo, machine, IntakeInv, TypeOK
<1>3. b \o queued # <<>> /\ Head(b \o queued) = Head(b) /\ Tail(b \o queued) = Tail(b) \o queued
  BY <1>2, HeadTailConcat
<1>4. PendingEvents = b \o queued /\ RunningEvent = NoEvent
  <2>1. pc[a] \in TopRegion /\ pc[a] \notin Dispatching
    BY <1>2 DEF TopRegion, Dispatching
  <2>2. QED
    BY <1>1, <2>1 DEF Mapped
<1>5. PendingEvents' = Tail(b) \o queued /\ RunningEvent' = Head(b)
  <2>1. /\ pc'[a] \in TopRegion /\ pc'[a] \in Dispatching
        /\ batch'[a] = Tail(b) /\ ev'[a] = Head(b) /\ queued' = queued
    BY <1>2 DEF TopRegion, Dispatching
  <2>2. QED
    BY <1>1, <2>1 DEF Mapped
<1>6. QED
  BY <1>2, <1>3, <1>4, <1>5 DEF Abstract!RunNext

LEMMA EndRefines ==
  ASSUME IntakeInv, IntakeInv', NEW a \in Actors, EndDirect(a) \/ EndQueued(a)
  PROVE  Abstract!Finish
<1>1. Mapped /\ Mapped'
  BY StateMapped, PTL DEF IntakeInv
<1>2. /\ pc[a] \in Dispatching /\ pc'[a] \in TopRegion \ Dispatching
      /\ UNCHANGED <<batch, queued, submitted, seen, dispatched>>
      /\ ev[a] \in Events
  BY DEF EndDirect, EndQueued, At, GoTo, machine, history, IntakeInv, TypeOK, EventHeld,
         TopRegion, Dispatching
<1>3. pc[a] \in TopRegion
  BY <1>2 DEF TopRegion
<1>4. PendingEvents = batch[a] \o queued /\ RunningEvent = ev[a]
  BY <1>1, <1>2, <1>3 DEF Mapped
<1>5. PendingEvents' = batch[a] \o queued /\ RunningEvent' = NoEvent
  BY <1>1, <1>2 DEF Mapped
<1>6. QED
  BY <1>2, <1>4, <1>5, NoEventAssumption DEF Abstract!Finish

LEMMA SilentSteps ==
  ASSUME IntakeInv, IntakeInv', NEW a \in Actors,
         \/ ReadSize(a) \/ MissTop(a) \/ CountEvent(a) \/ CheckSize(a) \/ MissDrain(a)
         \/ DrainCheck(a) \/ SubtractSize(a) \/ BatchDone(a) \/ PushThrows(a)
  PROVE  UNCHANGED Abstract!vars
<1>1. Mapped /\ Mapped'
  BY StateMapped, PTL DEF IntakeInv
<1>2. /\ UNCHANGED <<batch, queued, submitted, seen, dispatched>>
      /\ pc[a] \notin Dispatching /\ pc'[a] \notin Dispatching
      /\ pc[a] \in TopRegion <=> pc'[a] \in TopRegion
      /\ pc' = [pc EXCEPT ![a] = pc'[a]] /\ pc \in [Actors -> PCs]
      /\ \A b \in Actors \ {a} : ev'[b] = ev[b]
  BY DEF ReadSize, MissTop, CountEvent, CheckSize, MissDrain, DrainCheck, SubtractSize,
         BatchDone, PushThrows, At, GoTo, machine, history, IntakeInv, TypeOK, TopRegion,
         Dispatching
<1>3. /\ \A b \in Actors : pc'[b] \in TopRegion <=> pc[b] \in TopRegion
      /\ \A b \in Actors : pc[b] \in TopRegion =>
              (IF pc'[b] \in Dispatching THEN ev'[b] ELSE NoEvent)
                = (IF pc[b] \in Dispatching THEN ev[b] ELSE NoEvent)
  BY <1>2
<1>4. QED
  BY <1>1, <1>2, <1>3, SilentRefines

LEMMA NextRefines ==
  ASSUME Throwing = {}
  PROVE  /\ IntakeInv /\ IntakeInv' /\ WakeupInv /\ OrderInv /\ OrderInv'
         /\ [Next]_vars
         => [Abstract!Next]_(Abstract!vars)
<1> SUFFICES ASSUME IntakeInv, IntakeInv', WakeupInv, OrderInv, OrderInv', [Next]_vars
             PROVE  Abstract!Next \/ UNCHANGED Abstract!vars
  OBVIOUS
<1>1. ASSUME NEW a \in Actors, NEW e \in Events, Call(a, e)
      PROVE  Abstract!Next
  BY <1>1, CallRefines DEF Abstract!Next
<1>2. ASSUME NEW a \in Actors, Step(a)
      PROVE  Abstract!Next \/ UNCHANGED Abstract!vars
  <2>1. TakeTop(a) \/ PushEvent(a) => ev[a] \in Events
    BY DEF TakeTop, PushEvent, At, IntakeInv, EventHeld
  <2>2. CASE TakeTop(a)
    BY <2>1, <2>2, TakeTopRefines DEF Abstract!Next
  <2>3. CASE PushEvent(a)
    BY <2>1, <2>3, PushRefines DEF Abstract!Next
  <2>4. CASE RunNext(a)
    BY <2>4, RunNextRefines DEF Abstract!Next
  <2>5. CASE EndDirect(a) \/ EndQueued(a)
    BY <2>5, EndRefines DEF Abstract!Next
  <2>6. CASE SwapQueue(a)
    BY <2>6, SwapRefines
  <2>7. CASE TakeDrain(a) \/ ClearDirect(a) \/ ClearDrain(a)
    BY <2>7, FlagRefines
  <2>8. CASE \/ ReadSize(a) \/ MissTop(a) \/ CountEvent(a) \/ CheckSize(a) \/ MissDrain(a)
             \/ DrainCheck(a) \/ SubtractSize(a) \/ BatchDone(a)
    BY <2>8, SilentSteps
  <2>9. QED
    BY <1>2, <2>2, <2>3, <2>4, <2>5, <2>6, <2>7, <2>8 DEF Step
<1>3. \A a \in Actors : ~Throw(a)
  BY DEF Throw
<1>4. ASSUME NEW a \in Actors, PushThrows(a)
      PROVE  UNCHANGED Abstract!vars
  BY <1>4, SilentSteps
<1>5. CASE UNCHANGED vars
  BY <1>5
  DEF vars, machine, history, Abstract!vars, PendingEvents, RunningEvent, TopActors, Top
<1>6. QED
  BY <1>1, <1>2, <1>3, <1>4, <1>5 DEF Next, Terminated

\* The threads, the flag, the counter, the queue and its batches implement one
\* first-in first-out queue with one server, for any number of threads and any
\* nesting, if handlers do not throw.
THEOREM Refinement ==
  ASSUME Throwing = {}
  PROVE  Spec => ImplementsSerialQueue
<1>1. Spec => [](IntakeInv /\ WakeupInv /\ OrderInv)
  BY InitWakeup, NextWakeup, IntakeInvariant, OrderInvariant, PTL DEF Spec
<1>2. QED
  BY <1>1, InitRefines, NextRefines, PTL DEF Spec, ImplementsSerialQueue, Abstract!Spec
=============================================================================

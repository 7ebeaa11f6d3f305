----------------------------- MODULE EventQueue -----------------------------
(***************************************************************************)
(* The event intake of afsm::state_machine (include/afsm/fsm.hpp):         *)
(* process_event, enqueue_event, lock_and_swap_queue, process_event_queue. *)
(*                                                                         *)
(* Any number of threads call process_event.  The atomic flag is_top_      *)
(* elects the one call that may run handlers; the others push their event  *)
(* under mutex_ and leave it to whoever holds the flag.  A handler may     *)
(* itself call process_event, so a call is an activation <<thread, depth>>:*)
(* depth 1 is made by the thread's own code, depth d + 1 by the handler    *)
(* that runs in the activation of depth d.  A thread executes only its     *)
(* deepest activation.                                                     *)
(*                                                                         *)
(* One action is one atomic access to is_top_ or queue_size_, or one       *)
(* critical section of mutex_ cut where queue_size_ is visible out of step *)
(* with the queue.  All atomics are sequentially consistent in the source. *)
(* What a handler does to the machine's states is not modelled here: it    *)
(* runs between the start and the end of a dispatch.                       *)
(***************************************************************************)
EXTENDS Integers, Sequences, SequencesExt

CONSTANTS
    Threads,    \* threads that share the machine
    MaxDepth,   \* bound on process_event calls nested in one thread
    Events,     \* events; each is passed to process_event once
    Throwing,   \* events whose handling may end in an exception
    Uncopyable, \* events whose copy for the queue may fail
    NoEvent,    \* not an event
    NoActor     \* not an activation

Actors == Threads \X (1..MaxDepth)

ASSUME DepthAssumption == MaxDepth \in Nat \ {0}
ASSUME ThrowingAssumption == Throwing \subseteq Events /\ Uncopyable \subseteq Events
ASSUME NoEventAssumption == NoEvent \notin Events
ASSUME NoActorAssumption == NoActor \notin Actors

VARIABLES
    pc,         \* where each activation is
    ev,         \* the event an activation submits or dispatches
    batch,      \* process_event_queue's local `postponed`, not yet dispatched
    isTop,      \* is_top_
    queueSize,  \* queue_size_
    queued,     \* queued_events_
    mutex,      \* holder of mutex_, or NoActor
    submitted,  \* history: events passed to process_event
    accepted,   \* history: events dispatched by their own call, or queued
    seen,       \* history: what was accepted when the event's call began
    dispatched, \* history: events whose dispatch began, in order
    failed      \* history: how many pushes have thrown

machine == <<isTop, queueSize, queued, mutex>>
history == <<submitted, accepted, seen, dispatched, failed>>
vars == <<pc, ev, batch, machine, history>>

\* Inside the region is_top_ guards, and in it while a handler runs.
Dispatching == {"direct", "queued"}
TopRegion == Dispatching \cup {"clearDirect", "drainCheck", "swap", "subtract",
                               "next", "clearDrain"}
PCs == TopRegion \cup {"idle", "readSize", "tryTop", "count", "push",
                       "checkSize", "tryDrain"}

TypeOK ==
    /\ pc \in [Actors -> PCs]
    /\ ev \in [Actors -> Events \cup {NoEvent}]
    /\ batch \in [Actors -> Seq(Events)]
    /\ isTop \in BOOLEAN
    /\ queueSize \in Nat
    /\ queued \in Seq(Events)
    /\ mutex \in Actors \cup {NoActor}
    /\ submitted \subseteq Events
    /\ accepted \subseteq Events
    /\ seen \in [Events -> SUBSET Events]
    /\ dispatched \in Seq(Events)
    /\ failed \in Nat

Init ==
    /\ pc = [a \in Actors |-> "idle"]
    /\ ev = [a \in Actors |-> NoEvent]
    /\ batch = [a \in Actors |-> <<>>]
    /\ isTop = FALSE
    /\ queueSize = 0
    /\ queued = <<>>
    /\ mutex = NoActor
    /\ submitted = {}
    /\ accepted = {}
    /\ seen = [e \in Events |-> {}]
    /\ dispatched = <<>>
    /\ failed = 0

-----------------------------------------------------------------------------
\* An activation executes only while no deeper one of its thread does.
Deepest(a) ==
    \A b \in Actors : b[1] = a[1] /\ b[2] > a[2] => pc[b] = "idle"

At(a, label) == pc[a] = label /\ Deepest(a)

GoTo(a, label) == pc' = [pc EXCEPT ![a] = label]

\* Thread code, or the handler one level up, may make a call.
MayCall(a) ==
    \/ a[2] = 1
    \/ \E b \in Actors :
          b[1] = a[1] /\ b[2] = a[2] - 1 /\ pc[b] \in Dispatching

\* process_event(e) is entered.
Call(a, e) ==
    /\ At(a, "idle")
    /\ MayCall(a)
    /\ e \notin submitted
    /\ GoTo(a, "readSize")
    /\ ev' = [ev EXCEPT ![a] = e]
    /\ submitted' = submitted \cup {e}
    /\ seen' = [seen EXCEPT ![e] = accepted]
    /\ UNCHANGED <<batch, machine, accepted, dispatched, failed>>

\* Mutant: the fast path looks at the flag only.
ReadSizeSkipped(a) ==
    /\ At(a, "readSize")
    /\ GoTo(a, "tryTop")
    /\ UNCHANGED <<ev, batch, machine, history>>

\* !queue_size_, the first operand of process_event's condition.
ReadSize(a) ==
    /\ At(a, "readSize")
    /\ GoTo(a, IF queueSize = 0 THEN "tryTop" ELSE "count")
    /\ UNCHANGED <<ev, batch, machine, history>>

\* Mutant: the flag is set without being tested.
TakeTopUntested(a) ==
    /\ At(a, "tryTop")
    /\ isTop' = TRUE
    /\ GoTo(a, "direct")
    /\ accepted' = accepted \cup {ev[a]}
    /\ dispatched' = Append(dispatched, ev[a])
    /\ UNCHANGED <<ev, batch, queueSize, queued, mutex, submitted, seen, failed>>

\* !is_top_.test_and_set(), the second: the event is dispatched on the spot.
TakeTop(a) ==
    /\ At(a, "tryTop")
    /\ ~isTop
    /\ isTop' = TRUE
    /\ GoTo(a, "direct")
    /\ accepted' = accepted \cup {ev[a]}
    /\ dispatched' = Append(dispatched, ev[a])
    /\ UNCHANGED <<ev, batch, queueSize, queued, mutex, submitted, seen, failed>>

\* The flag was set: the event has to be queued.
MissTop(a) ==
    /\ At(a, "tryTop")
    /\ isTop
    /\ GoTo(a, "count")
    /\ UNCHANGED <<ev, batch, machine, history>>

\* process_event_dispatch returns to process_event.
EndDirect(a) ==
    /\ At(a, "direct")
    /\ GoTo(a, "clearDirect")
    /\ ev' = [ev EXCEPT ![a] = NoEvent]
    /\ UNCHANGED <<batch, machine, history>>

\* Mutant: the direct path does not look at the queue afterwards.
ClearDirectAndReturn(a) ==
    /\ At(a, "clearDirect")
    /\ isTop' = FALSE
    /\ GoTo(a, "idle")
    /\ UNCHANGED <<ev, batch, queueSize, queued, mutex, history>>

\* is_top_.clear() in process_event.
ClearDirect(a) ==
    /\ At(a, "clearDirect")
    /\ isTop' = FALSE
    /\ GoTo(a, "checkSize")
    /\ UNCHANGED <<ev, batch, queueSize, queued, mutex, history>>

\* enqueue_event locks mutex_ and increments queue_size_ ...
CountEvent(a) ==
    /\ At(a, "count")
    /\ mutex = NoActor
    /\ mutex' = a
    /\ queueSize' = queueSize + 1
    /\ GoTo(a, "push")
    /\ UNCHANGED <<ev, batch, isTop, queued, history>>

\* ... then appends the event and unlocks.
PushEvent(a) ==
    /\ At(a, "push")
    /\ queued' = Append(queued, ev[a])
    /\ mutex' = NoActor
    /\ accepted' = accepted \cup {ev[a]}
    /\ ev' = [ev EXCEPT ![a] = NoEvent]
    /\ GoTo(a, "checkSize")
    /\ UNCHANGED <<batch, isTop, queueSize, submitted, seen, dispatched, failed>>

\* The copy of the event throws, or the queue cannot grow: the lock_guard unlocks,
\* and nothing takes back the increment.  In a nested call the handler that made
\* it may catch the exception; if it does not, that is its own Throw.
PushThrows(a) ==
    /\ At(a, "push")
    /\ ev[a] \in Uncopyable
    /\ mutex' = NoActor
    /\ failed' = failed + 1
    /\ ev' = [ev EXCEPT ![a] = NoEvent]
    /\ GoTo(a, "idle")
    /\ UNCHANGED <<batch, isTop, queueSize, queued, submitted, accepted, seen, dispatched>>

-----------------------------------------------------------------------------
\* process_event_queue, which ends both branches of process_event.

\* queue_size_ > 0 of the outer loop; nothing queued ends the call.
CheckSize(a) ==
    /\ At(a, "checkSize")
    /\ GoTo(a, IF queueSize > 0 THEN "tryDrain" ELSE "idle")
    /\ UNCHANGED <<ev, batch, machine, history>>

\* !is_top_.test_and_set() of the outer loop: this call drains the queue.
TakeDrain(a) ==
    /\ At(a, "tryDrain")
    /\ ~isTop
    /\ isTop' = TRUE
    /\ GoTo(a, "drainCheck")
    /\ UNCHANGED <<ev, batch, queueSize, queued, mutex, history>>

\* Mutant: the call waits for the flag instead of leaving.
MissDrainSpins(a) ==
    /\ At(a, "tryDrain")
    /\ isTop
    /\ GoTo(a, "checkSize")
    /\ UNCHANGED <<ev, batch, machine, history>>

\* Another call holds the flag: the event is left to it and the call ends.
MissDrain(a) ==
    /\ At(a, "tryDrain")
    /\ isTop
    /\ GoTo(a, "idle")
    /\ UNCHANGED <<ev, batch, machine, history>>

\* queue_size_ > 0 of the inner loop.
DrainCheck(a) ==
    /\ At(a, "drainCheck")
    /\ GoTo(a, IF queueSize > 0 THEN "swap" ELSE "clearDrain")
    /\ UNCHANGED <<ev, batch, machine, history>>

\* Mutant: the queue is copied, not swapped.
SwapQueueCopies(a) ==
    /\ At(a, "swap")
    /\ mutex = NoActor
    /\ mutex' = a
    /\ batch' = [batch EXCEPT ![a] = queued]
    /\ GoTo(a, "subtract")
    /\ UNCHANGED <<ev, isTop, queueSize, queued, history>>

\* lock_and_swap_queue locks mutex_ and takes the whole queue ...
SwapQueue(a) ==
    /\ At(a, "swap")
    /\ mutex = NoActor
    /\ mutex' = a
    /\ batch' = [batch EXCEPT ![a] = queued]
    /\ queued' = <<>>
    /\ GoTo(a, "subtract")
    /\ UNCHANGED <<ev, isTop, queueSize, history>>

\* Mutant: the counter gives up the batch here and once more per swap.
SubtractSizeTwice(a) ==
    /\ At(a, "subtract")
    /\ queueSize' = queueSize - 2 * Len(batch[a])
    /\ mutex' = NoActor
    /\ GoTo(a, "next")
    /\ UNCHANGED <<ev, batch, isTop, queued, history>>

\* Mutant: the counter is reset rather than reduced, after the unlock.
SubtractSizeUnlocked(a) ==
    /\ At(a, "subtract")
    /\ IF mutex = a
       THEN /\ mutex' = NoActor
            /\ UNCHANGED <<pc, queueSize>>
       ELSE /\ queueSize' = 0
            /\ GoTo(a, "next")
            /\ UNCHANGED mutex
    /\ UNCHANGED <<ev, batch, isTop, queued, history>>

\* ... then takes its length off queue_size_ and unlocks.
SubtractSize(a) ==
    /\ At(a, "subtract")
    /\ queueSize' = queueSize - Len(batch[a])
    /\ mutex' = NoActor
    /\ GoTo(a, "next")
    /\ UNCHANGED <<ev, batch, isTop, queued, history>>

\* Mutant: the batch is dispatched from its end.
RunNewest(a) ==
    /\ At(a, "next")
    /\ batch[a] # <<>>
    /\ ev' = [ev EXCEPT ![a] = Last(batch[a])]
    /\ batch' = [batch EXCEPT ![a] = Front(@)]
    /\ dispatched' = Append(dispatched, Last(batch[a]))
    /\ GoTo(a, "queued")
    /\ UNCHANGED <<machine, submitted, accepted, seen, failed>>

\* event.first() on the next element of the batch.
RunNext(a) ==
    /\ At(a, "next")
    /\ batch[a] # <<>>
    /\ ev' = [ev EXCEPT ![a] = Head(batch[a])]
    /\ batch' = [batch EXCEPT ![a] = Tail(@)]
    /\ dispatched' = Append(dispatched, Head(batch[a]))
    /\ GoTo(a, "queued")
    /\ UNCHANGED <<machine, submitted, accepted, seen, failed>>

EndQueued(a) ==
    /\ At(a, "queued")
    /\ GoTo(a, "next")
    /\ ev' = [ev EXCEPT ![a] = NoEvent]
    /\ UNCHANGED <<batch, machine, history>>

BatchDone(a) ==
    /\ At(a, "next")
    /\ batch[a] = <<>>
    /\ GoTo(a, "drainCheck")
    /\ UNCHANGED <<ev, batch, machine, history>>

\* Mutant: the outer loop is an if, so queue_size_ is not tested again.
ClearDrainAndReturn(a) ==
    /\ At(a, "clearDrain")
    /\ isTop' = FALSE
    /\ GoTo(a, "idle")
    /\ UNCHANGED <<ev, batch, queueSize, queued, mutex, history>>

\* is_top_.clear() of the outer loop, which then tests queue_size_ again.
ClearDrain(a) ==
    /\ At(a, "clearDrain")
    /\ isTop' = FALSE
    /\ GoTo(a, "checkSize")
    /\ UNCHANGED <<ev, batch, queueSize, queued, mutex, history>>

\* A guard, action, enter or exit handler throws.  Nothing between the handler
\* and the caller of process_event catches, clears is_top_ or gives the rest
\* of the batch back: the stack is unwound and the locals are destroyed.
Throw(a) ==
    /\ At(a, "direct") \/ At(a, "queued")
    /\ ev[a] \in Throwing
    /\ GoTo(a, "idle")
    /\ ev' = [ev EXCEPT ![a] = NoEvent]
    /\ batch' = [batch EXCEPT ![a] = <<>>]
    /\ UNCHANGED <<machine, history>>

-----------------------------------------------------------------------------
\* Steps a thread takes by itself once its call has begun.
Step(a) ==
    \/ ReadSize(a) \/ TakeTop(a) \/ MissTop(a) \/ EndDirect(a) \/ ClearDirect(a)
    \/ CountEvent(a) \/ PushEvent(a)
    \/ CheckSize(a) \/ TakeDrain(a) \/ MissDrain(a) \/ DrainCheck(a)
    \/ SwapQueue(a) \/ SubtractSize(a)
    \/ RunNext(a) \/ EndQueued(a) \/ BatchDone(a) \/ ClearDrain(a)

AllIdle == \A a \in Actors : pc[a] = "idle"

\* Every event was submitted and every call is over: nothing is left to do.
Terminated ==
    /\ submitted = Events
    /\ AllIdle
    /\ UNCHANGED vars

Next ==
    \/ \E a \in Actors :
          \/ \E e \in Events : Call(a, e)
          \/ Step(a)
          \/ Throw(a)
          \/ PushThrows(a)
    \/ Terminated

Spec == Init /\ [][Next]_vars

\* Threads that are inside a call keep running and handlers return.  Nothing
\* obliges a thread to make a call, or a handler to throw.
Fairness == \A a \in Actors : WF_vars(Step(a))

FairSpec == Spec /\ Fairness

-----------------------------------------------------------------------------
(* Properties *)

\* Run to completion: at any time at most one activation, of any thread and any
\* depth, is between a successful test_and_set of is_top_ and its clear.  So
\* handlers never overlap, a handler's own process_event never starts a second
\* dispatch inside the first, and state that only handlers touch needs no lock.
OneDispatcher ==
    \A a, b \in Actors : pc[a] \in TopRegion /\ pc[b] \in TopRegion => a = b

\* queue_size_ is read without mutex_, yet it is never below the length of the
\* queue, and whenever mutex_ is free ahead of it by exactly the pushes that have
\* thrown: a reader that sees 0 after an enqueue_event ended knows the event has
\* been taken by a drainer.
QueueSizeExact ==
    /\ queueSize >= Len(queued)
    /\ mutex = NoActor => queueSize = Len(queued) + failed

\* The places where an event is, one element for every time it is there.
Places(e) ==
    {<<"dispatched", NoActor, i>> : i \in {j \in DOMAIN dispatched : dispatched[j] = e}}
      \cup {<<"queued", NoActor, i>> : i \in {j \in DOMAIN queued : queued[j] = e}}
      \cup UNION {{<<"batch", a, i>> : i \in {j \in DOMAIN batch[a] : batch[a][j] = e}}
                     : a \in Actors}

\* Every accepted event is in exactly one place: dispatched, in the batch of
\* the call that drains, or queued.  None is dropped when the queue is swapped
\* or dispatched twice.
NothingLost ==
    \A e \in Events : Cardinality(Places(e)) = IF e \in accepted THEN 1 ELSE 0

\* No overtaking: an event accepted before another event's process_event began
\* is dispatched before it, although the fast path looks at queue_size_ and at
\* is_top_ in two separate steps and never at the queue.
AcceptedOrder ==
    \A i \in 1..Len(dispatched) :
        seen[dispatched[i]] \subseteq {dispatched[j] : j \in 1..(i - 1)}

\* No lost wakeup: when all calls are over, no event is left in the queue and
\* the flag is free, even after pushes that threw.  The drainer's test of queue_size_ and
\* its clear of is_top_ are separate, so a push may fall between them; the outer
\* loop's second test of queue_size_ has to catch it.
NoLostWakeup ==
    AllIdle => queued = <<>> /\ queueSize = failed /\ ~isTop

\* The flag is set and no call is left to clear it: an exception has got out.
Stopped == isTop /\ \A a \in Actors : pc[a] \notin TopRegion

\* Every accepted event is handled in the end, by some thread, unless an
\* exception has stopped the machine.
AcceptedRuns ==
    \A e \in Events :
        e \in accepted ~> e \in ToSet(dispatched) \/ Stopped

\* process_event returns in the end, nested calls included: no call waits for
\* a flag, and mutex_ is never held while handlers run.  After a push that threw,
\* the next drainer never leaves its inner loop; a nested call returns even then.
CallsReturn ==
    \A a \in Actors :
        pc[a] # "idle" ~> pc[a] = "idle" \/ (failed > 0 /\ a[2] = 1)

\* exception_safety_guarantees.hpp:18-19 says of a guard that throws that
\* nothing happens.  The machine was ready for an event before the call, so it
\* has to be ready again once the exception has left every call.
ThrowLeavesMachineReady == AllIdle => ~isTop

-----------------------------------------------------------------------------
(* What the invariants above rest on *)

\* A call that has yet to hand its event over, or that dispatches one, has it.
EventHeld ==
    \A a \in Actors :
        pc[a] \in Dispatching \cup {"readSize", "tryTop", "count", "push"}
            => ev[a] \in Events

\* mutex_ is held exactly by the calls that are inside its critical sections.
MutexHeld == \A a \in Actors : pc[a] \in {"push", "subtract"} <=> mutex = a

\* The critical section in progress, if any, accounts for the difference
\* between the counter and the queue, but for the pushes that have thrown.
SizeAhead ==
    IF mutex = NoActor THEN 0
    ELSE IF pc[mutex] = "push" THEN 1 ELSE Len(batch[mutex])

SizeAccounted == queueSize = Len(queued) + SizeAhead + failed

\* The flag is set while a call is in the region it guards.
FlagHeld == \A a \in Actors : pc[a] \in TopRegion => isTop

\* Without exceptions the flag is set only then ...
FlagOwned == isTop => \E a \in Actors : pc[a] \in TopRegion

\* ... and a queued event has a call that is still bound to look at the queue.
QueueWatched ==
    queued # <<>> =>
        \E a \in Actors : pc[a] \in TopRegion \cup {"checkSize", "tryDrain"}

IntakeInv ==
    /\ TypeOK
    /\ EventHeld
    /\ OneDispatcher
    /\ FlagHeld
    /\ MutexHeld
    /\ SizeAccounted

WakeupInv == FlagOwned /\ QueueWatched

\* A call whose event is not accepted yet.
Submitting == {"readSize", "tryTop", "count", "push"}

\* Its event is its own: no other call, and none of the places of an accepted
\* event, has it.
EventsOwned ==
    /\ \A a \in Actors : pc[a] \in Submitting => ev[a] \in submitted \ accepted
    /\ \A a, b \in Actors :
          pc[a] \in Submitting /\ pc[b] \in Submitting /\ ev[a] = ev[b] => a = b

\* Only the call that drains the queue has a batch, from the swap to its end.
BatchHeld == \A a \in Actors : batch[a] # <<>> => pc[a] \in {"subtract", "next", "queued"}

Batched == UNION {ToSet(batch[a]) : a \in Actors}

\* The places of events hold accepted events; all of them, unless an exception
\* that got out of a handler has taken a batch with it.
AcceptedPlaced ==
    /\ accepted \subseteq submitted
    /\ \A e \in Events : seen[e] \subseteq accepted
    /\ ToSet(dispatched) \cup Batched \cup ToSet(queued) \subseteq accepted
    /\ FlagOwned => accepted \subseteq ToSet(dispatched) \cup Batched \cup ToSet(queued)

\* No event is in two places.
PlacesDisjoint ==
    /\ IsInjective(dispatched) /\ IsInjective(queued)
    /\ \A a \in Actors : IsInjective(batch[a])
    /\ ToSet(dispatched) \cap ToSet(queued) = {}
    /\ \A a \in Actors : ToSet(batch[a]) \cap (ToSet(dispatched) \cup ToSet(queued)) = {}

\* What a waiting event must not overtake is dispatched, or waits before it.
BatchOrder ==
    \A a \in Actors : \A i \in DOMAIN batch[a] :
        seen[batch[a][i]] \subseteq ToSet(dispatched) \cup {batch[a][j] : j \in 1..(i - 1)}

QueueOrder ==
    FlagOwned => \A i \in DOMAIN queued :
        seen[queued[i]] \subseteq
            ToSet(dispatched) \cup Batched \cup {queued[j] : j \in 1..(i - 1)}

\* A call that found queue_size_ zero has nothing before it in the queue, and
\* will not have, however long it takes to get to the flag.
NothingAhead ==
    \A a \in Actors : pc[a] = "tryTop" => seen[ev[a]] \cap ToSet(queued) = {}

OrderInv ==
    /\ EventsOwned
    /\ BatchHeld
    /\ AcceptedPlaced
    /\ PlacesDisjoint
    /\ AcceptedOrder
    /\ BatchOrder
    /\ QueueOrder
    /\ NothingAhead

-----------------------------------------------------------------------------
(* Refinement of the abstract queue *)

TopActors == {a \in Actors : pc[a] \in TopRegion}
Top == CHOOSE a \in Actors : pc[a] \in TopRegion

PendingEvents == (IF TopActors = {} THEN <<>> ELSE batch[Top]) \o queued

RunningEvent ==
    IF TopActors # {} /\ pc[Top] \in Dispatching THEN ev[Top] ELSE NoEvent

Abstract == INSTANCE SerialQueue WITH
    pending <- PendingEvents,
    running <- RunningEvent

\* The threads, the flag, the counter and the batches together behave like one
\* queue served by one server.
ImplementsSerialQueue == Abstract!Spec
=============================================================================

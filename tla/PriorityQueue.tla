---------------------------- MODULE PriorityQueue ----------------------------
(***************************************************************************)
(* afsm::priority_state_machine (include/afsm/fsm.hpp:497-709): events of  *)
(* the highest priority leave a batch, and the store of deferred events,   *)
(* first.                                                                  *)
(*                                                                         *)
(* queue_size_ and is_top_ are those of state_machine, whose atomic steps  *)
(* are the subject of EventQueue; here an enqueue is one step, the look at *)
(* queue_size_ and the test of is_top_ before a direct dispatch are two,   *)
(* and the thread that holds is_top_ is the only one that dispatches.      *)
(* What is different is modelled in full: the priority queues, and the     *)
(* recursive process_deferred_queue, one frame per activation.             *)
(*                                                                         *)
(* std::priority_queue is not stable, so any element of the highest        *)
(* priority may be at its top, and a queue is a set of numbered events.    *)
(***************************************************************************)
EXTENDS Integers, Sequences, FiniteSets

CONSTANTS
    States,     \* configurations of the state hierarchy
    InitStates, \* configurations after construction, of one machine each
    Types,      \* event types
    Known,      \* per state: types its machine has in some table at all
    Priorities, \* values of event_priority_type that callers pass
    Targets,    \* per state and type: where its transitions lead
    InState,    \* per state: types handled by internal transitions
    Guarded,    \* per state: types whose guards may all refuse
    Deferrable, \* per state: types it defers
    MaxEvents   \* bound on the events received

ASSUME TablesAssumption ==
    /\ InitStates \subseteq States
    /\ Known \in [States -> SUBSET Types]
    /\ Targets \in [States -> [Types -> SUBSET States]]
    /\ InState \in [States -> SUBSET Types]
    /\ Guarded \in [States -> SUBSET Types]
    /\ Deferrable \in [States -> SUBSET Types]
ASSUME BoundsAssumption == Priorities \subseteq Int /\ MaxEvents \in Nat

\* n numbers the events as they are accepted.  after is history: how many had
\* been accepted when the place of this one was settled, that is when its call
\* read queue_size_ as 0, at the latest, or put it into the queue.
Event == [type : Types, priority : Priorities, n : 1..MaxEvents, after : 0..MaxEvents]
Nothing == [type |-> "", priority |-> 0, n |-> 0, after |-> 0]

\* An activation of process_deferred_queue: its local queue `deferred`, the
\* event at its top while it is dispatched, and whether res is `process`.
Frame == [deferred : SUBSET Event, running : Event \cup {Nothing}, res : BOOLEAN]

VARIABLES
    state,      \* the current configuration
    top,        \* is_top_: "free", or what the thread that has set it does
    queued,     \* queued_events_
    batch,      \* process_event_queue's local queue `postponed`
    lastEmpty,  \* history: the value of `received` when queue_size_ was last 0
    deferred,   \* deferred_events_
    frames,     \* activations of process_deferred_queue, the innermost last
    received,   \* history: number of events received
    dispatched, \* history: events dispatched for the first time, in order
    executed,   \* history: events handled
    removed     \* history: events refused

intake == <<top, queued, batch, lastEmpty>>
scans == <<deferred, frames>>
history == <<received, dispatched, executed, removed>>
vars == <<state, intake, scans, history>>

TypeOK ==
    /\ state \in States
    /\ top \in {"free", "direct", "drain", "leave"}
    /\ queued \subseteq Event
    /\ batch \subseteq Event
    /\ deferred \subseteq Event
    /\ frames \in Seq(Frame)
    /\ received \in 0..MaxEvents
    /\ lastEmpty \in 0..received
    /\ dispatched \in Seq(Event)
    /\ executed \subseteq Event
    /\ removed \subseteq Event
    /\ top = "free" => frames = <<>> /\ batch = {}

Init ==
    /\ state \in InitStates
    /\ top = "free"
    /\ queued = {}
    /\ batch = {}
    /\ lastEmpty = 0
    /\ deferred = {}
    /\ frames = <<>>
    /\ received = 0
    /\ dispatched = <<>>
    /\ executed = {}
    /\ removed = {}

-----------------------------------------------------------------------------
\* Mutant: the comparison is the wrong way round.
LowestTops(events) == {e \in events : \A f \in events : e.priority <= f.priority}

\* The elements that may be at the top of a queue.
Tops(events) == {e \in events : \A f \in events : f.priority <= e.priority}

Current == frames[Len(frames)]
SetCurrent(fs, frame) == [fs EXCEPT ![Len(fs)] = frame]

\* Mutant: only a dispatch from the intake has the deferred events processed.
ProcessesFromIntake(e, fs) ==
    /\ \E s \in Targets[state][e.type] : state' = s
    /\ executed' = executed \cup {e}
    /\ IF fs = <<>>
       THEN /\ frames' = <<[deferred |-> deferred, running |-> Nothing, res |-> FALSE]>>
            /\ deferred' = {}
       ELSE /\ frames' = SetCurrent(fs, [deferred |-> Current.deferred \ {e},
                                         running |-> Nothing, res |-> FALSE])
            /\ UNCHANGED deferred
    /\ UNCHANGED removed

\* The dispatch of an event by process_event_impl, on the stack fs of
\* activations.  A transition is followed by process_deferred_queue, whatever
\* called: it takes out everything that is deferred and looks at it anew.
Processes(e, fs) ==
    /\ \E s \in Targets[state][e.type] : state' = s
    /\ executed' = executed \cup {e}
    /\ frames' = Append(fs, [deferred |-> deferred, running |-> Nothing, res |-> FALSE])
    /\ deferred' = {}
    /\ UNCHANGED removed

\* process_in_state.
HandlesInState(e) ==
    /\ e.type \in InState[state]
    /\ executed' = executed \cup {e}
    /\ UNCHANGED <<state, deferred, removed>>

\* defer_event keeps the event, with its priority.
Defers(e) ==
    /\ e.type \in Deferrable[state]
    /\ deferred' = deferred \cup {e}
    /\ UNCHANGED <<state, executed, removed>>

\* The current state knows no such event, or its guards all refuse it: it is
\* rejected, also if it was deferred by an earlier state.
Refuses(e) ==
    /\ \/ e.type \in Guarded[state]
       \/ /\ Targets[state][e.type] = {}
          /\ e.type \notin InState[state] \cup Deferrable[state]
    /\ removed' = removed \cup {e}
    /\ UNCHANGED <<state, deferred, executed>>

Stays(e) == HandlesInState(e) \/ Defers(e) \/ Refuses(e)

\* The first dispatch of an event.
Dispatch(e) ==
    /\ dispatched' = Append(dispatched, e)
    /\ \/ Processes(e, frames)
       \/ Stays(e) /\ UNCHANGED frames

-----------------------------------------------------------------------------
\* Mutant: process_event does not look at the queue before it takes the flag.
DirectWhenFree(e) ==
    /\ top = "free"
    /\ e.after = received
    /\ received' = received + 1
    /\ top' = "direct"
    /\ Dispatch(e)
    /\ lastEmpty' = IF queued = {} THEN received' ELSE lastEmpty
    /\ UNCHANGED <<queued, batch>>

\* process_event on an idle machine: a call that has found queue_size_ to be 0
\* takes the flag, and the event is dispatched at once.  The two are not one step:
\* the call may have read queue_size_ at any moment of the past when it was 0, the
\* last of which is noted, and what has been queued since then has to wait.
Direct(e) ==
    /\ top = "free"
    /\ e.after = lastEmpty
    /\ received' = received + 1
    /\ top' = "direct"
    /\ Dispatch(e)
    /\ lastEmpty' = IF queued = {} THEN received' ELSE lastEmpty
    /\ UNCHANGED <<queued, batch>>

\* process_event by a handler, or by another thread that has found an event
\* queued or the flag set (it may have been cleared since).
Enqueue(e) ==
    /\ e.after = received
    /\ received' = received + 1
    /\ queued' = queued \cup {e}
    /\ UNCHANGED <<state, top, batch, lastEmpty, scans, dispatched, executed, removed>>

\* process_event, with a priority the caller chooses.  An event that no table of
\* the machine names at all is rejected by the compiler.
Receive(t, p) ==
    /\ t \in Known[state]
    /\ received < MaxEvents
    /\ \E k \in 0..received :
          LET e == [type |-> t, priority |-> p, n |-> received + 1, after |-> k]
          IN  Direct(e) \/ Enqueue(e)

\* process_event_queue: who finds events and a free flag drains.
TakeTop ==
    /\ top = "free"
    /\ queued # {}
    /\ top' = "drain"
    /\ UNCHANGED <<state, queued, batch, lastEmpty, scans, history>>

\* lock_and_swap_queue.
SwapQueue ==
    /\ top = "drain"
    /\ frames = <<>>
    /\ batch = {}
    /\ queued # {}
    /\ batch' = queued
    /\ queued' = {}
    /\ lastEmpty' = received
    /\ UNCHANGED <<state, top, scans, history>>

\* One event of the batch is dispatched; it is popped when that is over, but
\* nothing else looks at the batch.
RunQueued ==
    /\ frames = <<>>
    /\ \E e \in Tops(batch) :
          /\ batch' = batch \ {e}
          /\ Dispatch(e)
    /\ UNCHANGED <<top, queued, lastEmpty, received>>

\* The inner loop finds queue_size_ to be 0.
LastLook ==
    /\ top = "drain"
    /\ frames = <<>>
    /\ batch = {}
    /\ queued = {}
    /\ top' = "leave"
    /\ UNCHANGED <<state, queued, batch, lastEmpty, scans, history>>

\* Mutant: the flag is cleared before the deferred events are processed.
ClearTopEarly ==
    /\ top \in {"direct", "leave"}
    /\ top' = "free"
    /\ UNCHANGED <<state, queued, batch, lastEmpty, scans, history>>

\* is_top_.clear(), after a direct dispatch or a drain.  What has been queued in
\* the meantime is left to the outer loop, that is to TakeTop.
ClearTop ==
    /\ top \in {"direct", "leave"}
    /\ frames = <<>>
    /\ top' = "free"
    /\ UNCHANGED <<state, queued, batch, lastEmpty, scans, history>>

-----------------------------------------------------------------------------
Scanning == frames # <<>> /\ Current.running = Nothing

\* The scan of the innermost activation dispatches the event at its top.  The
\* event stays there until the dispatch is over, which after a transition is
\* when the next activation has returned.
RunDeferred ==
    /\ Scanning
    /\ ~Current.res
    /\ \E e \in Tops(Current.deferred) :
          \/ Processes(e, SetCurrent(frames, [Current EXCEPT !.running = e]))
          \/ /\ Stays(e)
             /\ frames' = SetCurrent(frames,
                             [Current EXCEPT !.deferred = Current.deferred \ {e}])
    /\ UNCHANGED <<intake, received, dispatched>>

\* Mutant: what the scan did not reach is not put back.
RescanForgets ==
    /\ Scanning
    /\ Current.res
    /\ frames' = SetCurrent(frames, [deferred |-> deferred, running |-> Nothing,
                                     res |-> FALSE])
    /\ deferred' = {}
    /\ UNCHANGED <<state, intake, history>>

\* An event has changed the state: what the scan did not reach is put back, and
\* all of it taken out again.
Rescan ==
    /\ Scanning
    /\ Current.res
    /\ frames' = SetCurrent(frames, [deferred |-> deferred \cup Current.deferred,
                                     running |-> Nothing, res |-> FALSE])
    /\ deferred' = {}
    /\ UNCHANGED <<state, intake, history>>

\* Mutant: the caller's scan goes on with the event it has just run.
ReturnKeeps ==
    LET rest == SubSeq(frames, 1, Len(frames) - 1)
        caller == rest[Len(rest)]
    IN
    /\ Scanning
    /\ Current.deferred = {}
    /\ ~Current.res
    /\ frames' = IF rest = <<>> THEN rest
                 ELSE SetCurrent(rest, [caller EXCEPT !.running = Nothing, !.res = TRUE])
    /\ UNCHANGED <<state, intake, deferred, history>>

\* process_deferred_queue returns, into the dispatch that called it.  If that
\* was of a deferred event, the event is popped and ends its scan.
Return ==
    LET rest == SubSeq(frames, 1, Len(frames) - 1)
        caller == rest[Len(rest)]
    IN
    /\ Scanning
    /\ Current.deferred = {}
    /\ ~Current.res
    /\ frames' = IF rest = <<>> THEN rest
                 ELSE SetCurrent(rest, [deferred |-> caller.deferred \ {caller.running},
                                        running |-> Nothing, res |-> TRUE])
    /\ UNCHANGED <<state, intake, deferred, history>>

Scan == RunDeferred \/ Rescan \/ Return
Work == TakeTop \/ SwapQueue \/ RunQueued \/ LastLook \/ ClearTop \/ Scan

\* The bound is reached and the machine waits for an event.
Exhausted ==
    /\ top = "free"
    /\ queued = {}
    /\ received = MaxEvents
    /\ UNCHANGED vars

Next ==
    \/ \E t \in Types, p \in Priorities : Receive(t, p)
    \/ Work
    \/ Exhausted

Spec == Init /\ [][Next]_vars

\* Handlers return and the loops run on.
FairSpec == Spec /\ WF_vars(Work)

-----------------------------------------------------------------------------
(* Properties *)

Waiting == deferred \cup UNION {frames[i].deferred \ {frames[i].running} : i \in DOMAIN frames}

Seen == {dispatched[i] : i \in DOMAIN dispatched}

\* However deep the activations are nested, an event received is in exactly one
\* place: queued, in the batch, deferred, under one of the scans, handled or
\* refused; and nothing is dispatched for the first time twice.
EventsConserved ==
    LET local(i) == frames[i].deferred \ {frames[i].running}
        places == <<queued, batch, deferred, executed, removed>>
                    \o [i \in DOMAIN frames |-> local(i)]
        everywhere == UNION {places[i] : i \in DOMAIN places}
    IN
    /\ {e.n : e \in everywhere} = 1..received
    /\ Cardinality(everywhere) = received
    /\ \A i, j \in DOMAIN places : i # j => places[i] \cap places[j] = {}
    /\ Seen = everywhere \ (queued \cup batch)
    /\ Len(dispatched) = Cardinality(Seen)

\* The current state s handles type t.
Runs(s, t) == Targets[s][t] # {} \/ t \in InState[s]

\* When no scan is under way, no deferred event is left that the current state
\* would handle, unless it also defers it.
NoRunnableEventLeft ==
    frames = <<>> =>
        \A e \in deferred : Runs(state, e.type) => e.type \in Deferrable[state]

NoMoreUrgent(low, high) == \A e \in high, f \in low : f.priority <= e.priority

Nested(store, fs) ==
    /\ \A i, j \in DOMAIN fs : i < j => NoMoreUrgent(fs[i].deferred, fs[j].deferred)
    /\ \A i \in DOMAIN fs : NoMoreUrgent(fs[i].deferred, store)

\* An activation only sees what the scans around it have tried and deferred
\* again, so what it runs is at least as urgent as all that they still hold.
ScansNest == Nested(deferred, frames)

\* Whatever is in the store was deferred since the last transition: the scan that
\* follows every transition, at any depth, takes out all that was there before.
DeferredNow == \A e \in deferred : e.type \in Deferrable[state]

BatchDrains == batch # {} => top = "drain"

\* The invariant of the scans, which is inductive.
ScanInv == TypeOK /\ BatchDrains /\ ScansNest /\ DeferredNow

\* A deferred event is handled only when no more urgent deferred event can be,
\* although the store is spread over the local queues of all activations.
UrgentFirst ==
    [][\A e \in (executed' \ executed) \cap Waiting, f \in Waiting :
          Runs(state, f.type) /\ f.type \notin Deferrable[state]
              => f.priority <= e.priority]_vars

\* A first dispatch is not made before that of a more urgent event which had been
\* accepted when the call of the first one looked at the queue, or put it there.
\* (One that is accepted later may have to wait for it, and for its batch.)
NotOvertaken ==
    \A i \in DOMAIN dispatched :
        \A n \in 1..dispatched[i].after :
            LET earlier == {e \in queued \cup batch : e.n = n}
                            \cup {dispatched[j] : j \in {k \in (i + 1)..Len(dispatched) :
                                                             dispatched[k].n = n}}
            IN  \A e \in earlier : e.priority <= dispatched[i].priority

\* What an activation of a stack still has to look at, and what all of them have.
Held(fs, i) == fs[i].deferred \ {fs[i].running}
UnderScan(fs) == UNION {Held(fs, i) : i \in DOMAIN fs}

\* The store, the activations and what is done with share no event.
Apart(store, fs, done) ==
    /\ store \cap done = {}
    /\ \A i \in DOMAIN fs : Held(fs, i) \cap (store \cup done) = {}
    /\ \A i, j \in DOMAIN fs : i # j => Held(fs, i) \cap Held(fs, j) = {}

\* What has been dispatched is deferred, under one scan, handled or refused.
PlacesInv ==
    /\ executed \cap removed = {}
    /\ Apart(deferred, frames, executed \cup removed)
    /\ deferred \cup UnderScan(frames) \cup executed \cup removed = Seen

\* Events are numbered as they come, and each is dispatched for the first time once.
Numbered(events, n) ==
    /\ {e.n : e \in events} = 1..n
    /\ \A e, f \in events : e.n = f.n => e = f

Fresh == queued \cup batch
ArrivalInv ==
    /\ Numbered(Fresh \cup Seen, received)
    /\ Fresh \cap Seen = {}
    /\ \A i, j \in DOMAIN dispatched : dispatched[i] = dispatched[j] => i = j

\* e was received before the place of f was settled and is more urgent.
Preempts(e, f) == e.n <= f.after /\ f.priority < e.priority

\* The batch is older than what is queued, what is queued came after the
\* queue was last empty, and all that waits or was dispatched later had no claim
\* to be dispatched before.
UrgencyInv ==
    /\ \A e \in batch, f \in queued : e.n < f.n
    /\ \A e \in queued : lastEmpty < e.n
    /\ \A e \in Fresh \cup Seen : e.after < e.n
    /\ \A i \in DOMAIN dispatched, e \in Fresh : ~Preempts(e, dispatched[i])
    /\ \A i, j \in DOMAIN dispatched : i < j => ~Preempts(dispatched[j], dispatched[i])

\* The invariant of the events, which with ScanInv is inductive.
EventInv == PlacesInv /\ ArrivalInv /\ UrgencyInv

\* Once no more events arrive, every nested scan ends, whatever is deferred again
\* in it, the queue is drained and the machine is free.
ComesToRest == <>[](top = "free" /\ queued = {} /\ batch = {})
=============================================================================

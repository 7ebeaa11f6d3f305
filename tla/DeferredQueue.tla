--------------------------- MODULE DeferredQueue ---------------------------
(***************************************************************************)
(* Event deferral in afsm::state_machine (include/afsm/fsm.hpp):           *)
(* process_event_impl, defer_event, process_deferred_queue and             *)
(* clear_deferred_events, with the two caches handled_ and deferred_ of    *)
(* what the current state handles and defers.                              *)
(*                                                                         *)
(* All of it runs in the region that is_top_ guards (module EventQueue), so*)
(* here one thread dispatches one event at a time.  The state hierarchy is *)
(* given by what it answers: per state and type of event, the states its   *)
(* transitions lead to, the in-state actions, the events it defers and the *)
(* transitions whose guards may refuse.                                    *)
(***************************************************************************)
EXTENDS Integers, Sequences, FiniteSets, SequencesExt

CONSTANTS
    States,     \* configurations of the state hierarchy
    Types,      \* event types
    InitStates, \* configurations after construction, of one machine each
    Known,      \* per state: types its machine has in some table at all
    Targets,    \* per state and type: where its transitions lead
    InState,    \* per state: types handled by internal transitions
    Deferrable, \* per state: types it defers
    Guarded,    \* per state: types whose guards may all refuse
    MaxEvents   \* bound on the events received

ASSUME TablesAssumption ==
    /\ InitStates \subseteq States
    /\ Known \in [States -> SUBSET Types]
    /\ Targets \in [States -> [Types -> SUBSET States]]
    /\ InState \in [States -> SUBSET Types]
    /\ Deferrable \in [States -> SUBSET Types]
    /\ Guarded \in [States -> SUBSET Types]
ASSUME MaxEventsAssumption == MaxEvents \in Nat

\* Events are numbered in the order in which they are received.
Event == [type : Types, n : 1..MaxEvents]

TypesOf(events) == {e.type : e \in ToSet(events)}

VARIABLES
    state,          \* the current configuration
    handled,        \* handled_, a cache
    deferrable,     \* deferred_, a cache
    events,         \* deferred_events_
    ids,            \* deferred_event_ids_
    deferredTop,    \* deferred_top_
    local,          \* process_deferred_queue's local list `deferred`
    res,            \* its `res`: was the last event it ran a state change?
    pc,             \* where process_event_dispatch is
    received,       \* history: number of events received
    executed,       \* history: events handled, in order
    removed         \* history: events rejected, dropped or cleared

queue == <<events, ids>>
drain == <<deferredTop, local, res, pc>>
history == <<received, executed, removed>>
vars == <<state, handled, deferrable, queue, drain, history>>

TypeOK ==
    /\ state \in States
    /\ handled \subseteq Types
    /\ deferrable \subseteq Types
    /\ events \in Seq(Event)
    /\ ids \subseteq Types
    /\ deferredTop \in BOOLEAN
    /\ local \in Seq(Event)
    /\ res \in BOOLEAN
    /\ pc \in {"idle", "start", "scan"}
    /\ received \in 0..MaxEvents
    /\ executed \in Seq(Event)
    /\ removed \subseteq Event
    /\ deferredTop <=> pc = "scan"
    /\ pc # "scan" => local = <<>> /\ ~res

\* base_machine_type::current_handled_events(): transitions out of the current
\* state and internal transitions, whatever their guards say.
HandledIn(s) == {t \in Types : Targets[s][t] # {}} \cup InState[s]

Init ==
    /\ state \in InitStates
    /\ handled = HandledIn(state)
    /\ deferrable = Deferrable[state]
    /\ events = <<>>
    /\ ids = {}
    /\ deferredTop = FALSE
    /\ local = <<>>
    /\ res = FALSE
    /\ pc = "idle"
    /\ received = 0
    /\ executed = <<>>
    /\ removed = {}

-----------------------------------------------------------------------------
\* Mutant: handled_ is not recomputed after a change of state.
TransitsStale(e, s) ==
    /\ s \in Targets[state][e.type]
    /\ state' = s
    /\ deferrable' = Deferrable[s]
    /\ executed' = Append(executed, e)
    /\ UNCHANGED <<handled, queue, removed>>

\* base_machine_type::process_event_impl answered `process` ...
Transits(e, s) ==
    /\ s \in Targets[state][e.type]
    /\ state' = s
    /\ handled' = HandledIn(s)
    /\ deferrable' = Deferrable[s]
    /\ executed' = Append(executed, e)
    /\ UNCHANGED <<queue, removed>>

\* ... `process_in_state` ...
HandlesInState(e) ==
    /\ e.type \in InState[state]
    /\ executed' = Append(executed, e)
    /\ UNCHANGED <<state, handled, deferrable, queue, removed>>

\* ... `refuse`, because the state knows no such event or all guards said no:
\* the event is rejected and gone ...
Refuses(e) ==
    /\ \/ e.type \in Guarded[state]
       \/ e.type \notin HandledIn(state) \cup Deferrable[state]
    /\ removed' = removed \cup {e}
    /\ UNCHANGED <<state, handled, deferrable, queue, executed>>

\* ... or `defer`, and defer_event keeps it.
Defers(e) ==
    /\ e.type \in Deferrable[state]
    /\ events' = Append(events, e)
    /\ ids' = ids \cup {e.type}
    /\ UNCHANGED <<state, handled, deferrable, executed, removed>>

\* A dispatch that does not change the state.
Stays(e) == HandlesInState(e) \/ Refuses(e) \/ Defers(e)

\* skip_deferred_queue: nothing that is deferred is handled now.
Skips(handledTypes, deferredTypes) == handledTypes \cap deferredTypes = {}

\* A new event is dispatched.  One that no table of the machine names at all is
\* rejected by the compiler.
Receive(t) ==
    LET e == [type |-> t, n |-> received + 1] IN
    /\ pc = "idle"
    /\ t \in Known[state]
    /\ received < MaxEvents
    /\ received' = received + 1
    /\ \/ (\E s \in States : Transits(e, s)) /\ pc' = "start"
       \/ Stays(e) /\ pc' = "idle"
    /\ UNCHANGED <<deferredTop, local, res>>

\* process_deferred_queue up to its loop: everything deferred is taken out,
\* unless none of it can be handled.
StartDrain ==
    /\ pc = "start"
    /\ ~deferredTop
    /\ res' = FALSE
    /\ IF Skips(handled, ids)
       THEN /\ pc' = "idle"
            /\ UNCHANGED <<local, queue, deferredTop>>
       ELSE /\ pc' = "scan"
            /\ deferredTop' = TRUE
            /\ local' = events
            /\ events' = <<>>
            /\ ids' = {}
    /\ UNCHANGED <<state, handled, deferrable, history>>

Scanning == pc = "scan" /\ local # <<>> /\ ~res

\* Mutant: the scan stops before the event that changed the state is erased.
RunDeferredKeeps ==
    LET e == Head(local) IN
    /\ Scanning
    /\ e.type \in handled
    /\ \/ (\E s \in States : Transits(e, s)) /\ res' = TRUE /\ UNCHANGED local
       \/ Stays(e) /\ local' = Tail(local) /\ UNCHANGED res
    /\ UNCHANGED <<deferredTop, pc, received>>

\* An event of a handled type is dispatched again.  If it changes the state,
\* process_event_impl calls process_deferred_queue, which deferred_top_ turns
\* into no operation, and the scan stops.
RunDeferred ==
    LET e == Head(local) IN
    /\ Scanning
    /\ e.type \in handled
    /\ local' = Tail(local)
    /\ \/ (\E s \in States : Transits(e, s)) /\ res' = TRUE
       \/ Stays(e) /\ UNCHANGED res
    /\ UNCHANGED <<deferredTop, pc, received>>

\* How many events at the front of a list have the type of the first.
RunLength(s) ==
    CHOOSE k \in 1..Len(s) :
        /\ \A i \in 1..k : s[i].type = s[1].type
        /\ k = Len(s) \/ s[k + 1].type # s[1].type

\* Mutant: the run is spliced in at the front.
PostponeInFront ==
    LET k == RunLength(local) IN
    /\ Scanning
    /\ Head(local).type \notin handled
    /\ Head(local).type \in deferrable
    /\ events' = SubSeq(local, 1, k) \o events
    /\ ids' = ids \cup {Head(local).type}
    /\ local' = SubSeq(local, k + 1, Len(local))
    /\ UNCHANGED <<state, handled, deferrable, deferredTop, res, pc, history>>

\* Mutant: the types of events that go back are not recorded.
PostponeUnrecorded ==
    LET k == RunLength(local) IN
    /\ Scanning
    /\ Head(local).type \notin handled
    /\ Head(local).type \in deferrable
    /\ events' = events \o SubSeq(local, 1, k)
    /\ local' = SubSeq(local, k + 1, Len(local))
    /\ UNCHANGED <<state, handled, deferrable, ids, deferredTop, res, pc, history>>

\* Events of a type that is not handled but deferred go back, a run at a time.
Postpone ==
    LET k == RunLength(local) IN
    /\ Scanning
    /\ Head(local).type \notin handled
    /\ Head(local).type \in deferrable
    /\ events' = events \o SubSeq(local, 1, k)
    /\ ids' = ids \cup {Head(local).type}
    /\ local' = SubSeq(local, k + 1, Len(local))
    /\ UNCHANGED <<state, handled, deferrable, deferredTop, res, pc, history>>

\* An event that the current state neither handles nor defers is erased.
Drop ==
    /\ Scanning
    /\ Head(local).type \notin handled \cup deferrable
    /\ removed' = removed \cup {Head(local)}
    /\ local' = Tail(local)
    /\ UNCHANGED <<state, handled, deferrable, queue, deferredTop, res, pc,
                   received, executed>>

\* Mutant: the flag is cleared only by a pass that took nothing out.
PutBackFlagKept(list, types) ==
    /\ local' = <<>>
    /\ events' = list
    /\ ids' = types
    /\ pc' = "idle"
    /\ UNCHANGED deferredTop

\* The end of process_deferred_queue.
PutBack(list, types) ==
    /\ local' = <<>>
    /\ events' = list
    /\ ids' = types
    /\ pc' = "idle"
    /\ deferredTop' = FALSE

TakeOut(list) ==
    /\ local' = list
    /\ events' = <<>>
    /\ ids' = {}
    /\ UNCHANGED <<pc, deferredTop>>

\* Mutant: there is one scan, whatever the events it runs do.
EndScanOnce ==
    /\ pc = "scan"
    /\ local = <<>> \/ res
    /\ res' = FALSE
    /\ PutBack(events \o local, ids \cup TypesOf(local))
    /\ UNCHANGED <<state, handled, deferrable, history>>

\* Mutant: another scan is made as long as something deferred is handled,
\* whether or not the last one changed the state.
EndScanEager ==
    LET rest == events \o local
        restIds == ids \cup TypesOf(local)
    IN
    /\ pc = "scan"
    /\ local = <<>> \/ res
    /\ res' = FALSE
    /\ IF Skips(handled, restIds) THEN PutBack(rest, restIds) ELSE TakeOut(rest)
    /\ UNCHANGED <<state, handled, deferrable, history>>

\* The scan is over.  What it did not reach is put back, whatever its type; if
\* an event changed the state, everything is taken out for another scan.
EndScan ==
    LET rest == events \o local
        restIds == ids \cup TypesOf(local)
    IN
    /\ pc = "scan"
    /\ local = <<>> \/ res
    /\ res' = FALSE
    /\ IF ~res \/ Skips(handled, restIds)
       THEN PutBack(rest, restIds)
       ELSE TakeOut(rest)
    /\ UNCHANGED <<state, handled, deferrable, history>>

\* clear_deferred_events, called between two events, or by the handler of the
\* deferred event that is being dispatched.  It does not reach the local list.
ClearDeferred ==
    /\ pc = "idle" \/ (Scanning /\ Head(local).type \in handled)
    /\ events # <<>>
    /\ removed' = removed \cup ToSet(events)
    /\ events' = <<>>
    /\ ids' = {}
    /\ UNCHANGED <<state, handled, deferrable, drain, received, executed>>

Drain == StartDrain \/ RunDeferred \/ Postpone \/ Drop \/ EndScan

\* The bound is reached and the machine waits for an event.
Exhausted ==
    /\ pc = "idle"
    /\ received = MaxEvents
    /\ UNCHANGED vars

Next ==
    \/ \E t \in Types : Receive(t)
    \/ Drain
    \/ ClearDeferred
    \/ Exhausted

Spec == Init /\ [][Next]_vars

\* Handlers return and the loops run on.
FairSpec == Spec /\ WF_vars(Drain)

-----------------------------------------------------------------------------
(* Properties *)

\* skip_deferred_queue decides by deferred_event_ids_ alone, so the set has to
\* be, at every step, exactly the types of the events in the list, through
\* swaps, splices in runs and clears.
IdsMatchEvents == ids = TypesOf(events)

\* When a dispatch is over, no deferred event is left that the current state
\* would handle, except of a type it also defers (one orthogonal region can
\* defer what a guard of another has refused).
NoRunnableEventLeft ==
    pc = "idle" => ids \cap HandledIn(state) \subseteq Deferrable[state]

\* The caches are those of the current state whenever events are judged by them.
CachesFresh == handled = HandledIn(state) /\ deferrable = Deferrable[state]

\* Until an event changes the state, a scan puts back only what is not handled,
\* or is deferred as well.
ReturnedDeferrable == pc = "scan" /\ ~res => ids \cap handled \subseteq deferrable

\* The invariant of the deferred list, which is inductive.
ListInv ==
    /\ TypeOK
    /\ CachesFresh
    /\ IdsMatchEvents
    /\ ReturnedDeferrable
    /\ NoRunnableEventLeft

\* An event received is in exactly one place: handled, removed, deferred, or
\* in the list under scan.
Places(e) ==
    {<<"executed", i>> : i \in {j \in DOMAIN executed : executed[j] = e}}
      \cup {<<"events", i>> : i \in {j \in DOMAIN events : events[j] = e}}
      \cup {<<"local", i>> : i \in {j \in DOMAIN local : local[j] = e}}
      \cup {<<"removed", i>> : i \in {1} \cap {IF e \in removed THEN 1 ELSE 0}}

EventsConserved ==
    \A n \in 1..MaxEvents :
        LET places == UNION {Places([type |-> t, n |-> n]) : t \in Types}
        IN  Cardinality(places) = IF n <= received THEN 1 ELSE 0

\* Types that no state both handles and defers.
Steady == {t \in Types : \A s \in States : t \notin HandledIn(s) \cap Deferrable[s]}

\* Events of a steady type are handled in the order in which they were received,
\* although the list is split and re-joined at every scan.  (An event that is
\* handled and deferred at once may be tried, deferred again and overtaken.)
HandledInOrder ==
    \A i, j \in 1..Len(executed) :
        i < j /\ executed[i].type = executed[j].type /\ executed[i].type \in Steady
            => executed[i].n < executed[j].n

\* Two events that may stand in a list in this order: different ones, and of a
\* steady type the one received first.
Follows(x, y) ==
    /\ x.n # y.n
    /\ x.type = y.type /\ x.type \in Steady => x.n < y.n

Listed(s) == \A i, j \in DOMAIN s : i < j => Follows(s[i], s[j])
Precedes(S, T) == \A x \in S : \A y \in T : Follows(x, y)

\* The lists are in order, each and one after the other, with nothing twice and
\* nothing missing of what was received.
PlacesInv ==
    /\ Listed(executed) /\ Listed(events) /\ Listed(local)
    /\ Precedes(ToSet(executed), ToSet(events) \cup ToSet(local))
    /\ Precedes(ToSet(events), ToSet(local))
    /\ \A x \in removed :
          /\ \A y \in ToSet(executed) \cup ToSet(events) \cup ToSet(local) : x.n # y.n
          /\ \A y \in removed : x.n = y.n => x = y
    /\ {x.n : x \in ToSet(executed) \cup ToSet(events) \cup ToSet(local) \cup removed}
          = 1..received

\* The loop over the deferred events ends, also when an event it runs is
\* deferred again.
DrainEnds == pc = "scan" ~> pc = "idle"
=============================================================================

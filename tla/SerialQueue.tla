---------------------------- MODULE SerialQueue ----------------------------
(***************************************************************************)
(* What afsm::state_machine::process_event promises, whatever the number   *)
(* of threads: events are handled one at a time; an event that cannot be   *)
(* handled at once waits in a first-in first-out queue; and an event       *)
(* handled on the spot may only overtake events that were not yet accepted *)
(* when its call began.                                                    *)
(***************************************************************************)
EXTENDS Sequences, SequencesExt

CONSTANTS
    Events,     \* the calls of process_event that may be made, one event each
    NoEvent     \* not an event

VARIABLES
    submitted,  \* events passed to process_event
    seen,       \* per event: what was accepted before its call began
    pending,    \* accepted events waiting for their turn
    running,    \* the event being handled, or NoEvent
    dispatched  \* events whose handling began, in order

vars == <<submitted, seen, pending, running, dispatched>>

Accepted == ToSet(pending) \cup ToSet(dispatched)

TypeOK ==
    /\ submitted \subseteq Events
    /\ seen \in [Events -> SUBSET Events]
    /\ pending \in Seq(Events)
    /\ running \in Events \cup {NoEvent}
    /\ dispatched \in Seq(Events)

Init ==
    /\ submitted = {}
    /\ seen = [e \in Events |-> {}]
    /\ pending = <<>>
    /\ running = NoEvent
    /\ dispatched = <<>>

\* A thread, or the handler of the running event, calls process_event(e).
Submit(e) ==
    /\ e \notin submitted
    /\ submitted' = submitted \cup {e}
    /\ seen' = [seen EXCEPT ![e] = Accepted]
    /\ UNCHANGED <<pending, running, dispatched>>

\* The event is put off.
Enqueue(e) ==
    /\ e \in submitted \ Accepted
    /\ pending' = Append(pending, e)
    /\ UNCHANGED <<submitted, seen, running, dispatched>>

\* The event is handled by its own call, before the queue is looked at.
RunDirect(e) ==
    /\ running = NoEvent
    /\ e \in submitted \ Accepted
    /\ seen[e] \subseteq ToSet(dispatched)
    /\ running' = e
    /\ dispatched' = Append(dispatched, e)
    /\ UNCHANGED <<submitted, seen, pending>>

\* The oldest waiting event is handled, by whichever thread drains the queue.
RunNext ==
    /\ running = NoEvent
    /\ pending # <<>>
    /\ running' = Head(pending)
    /\ pending' = Tail(pending)
    /\ dispatched' = Append(dispatched, Head(pending))
    /\ UNCHANGED <<submitted, seen>>

Finish ==
    /\ running # NoEvent
    /\ running' = NoEvent
    /\ UNCHANGED <<submitted, seen, pending, dispatched>>

Next ==
    \/ \E e \in Events : Submit(e) \/ Enqueue(e) \/ RunDirect(e)
    \/ RunNext
    \/ Finish

Spec == Init /\ [][Next]_vars
=============================================================================

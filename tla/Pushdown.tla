------------------------------- MODULE Pushdown -------------------------------
(***************************************************************************)
(* Machines whose states are kept in a stack: push and pop of              *)
(* regions_stack and state_transition_stack (include/afsm/detail/          *)
(* orthogonal_regions.hpp and transitions.hpp), called from the entry of   *)
(* push and pop states (base_states.hpp).                                  *)
(*                                                                         *)
(* A pop removes the frame its own transition is running in.  The rest of  *)
(* that transition works on a destroyed object: it clears the source and   *)
(* writes current_state_.  That is undefined; in the builds of the tests   *)
(* nothing has reused the memory by then, and the writes are lost.         *)
(*                                                                         *)
(* The dispatch is that of StateTree without threads, exceptions, default  *)
(* transitions and history, so a dispatch is one step.                     *)
(***************************************************************************)
EXTENDS Definitions, SequencesExt

CONSTANTS
    Root,           \* the pushdown machine, outermost, with one region
    Region,
    Events,
    InitialOf,      \* per machine: initial_state (of Root: the region)
    Rows,           \* records [source, event, target, guard, posts], per machine
    Allows(_, _),   \* a guard, by name, on a frame
    InitData,       \* the data members of the machines in a new frame
    OnEnter(_, _, _),   \* those data after on_enter of a state for an event ...
    OnExit(_, _, _),    \* ... and after on_exit
    MaxTokens       \* bound on the events accepted

ASSUME StackAssumption ==
    /\ Regional = {Root} /\ Inner[Root] = {Region} /\ Region \in Machines
    /\ HasPushdownStack(Root)
    /\ \A s \in AllStates : s = Root \/ ContainsSubstate(Root, s)
    /\ \A m, n \in Machines : m # n => Inner[m] \cap Inner[n] = {}
    /\ InitialOf \in [Machines -> AllStates]
    /\ \A m \in Machines : InitialOf[m] \in Inner[m]
    /\ \A m \in Machines : \A row \in Rows[m] : row.source \in Inner[m] /\ row.target \in Inner[m]
    /\ MaxTokens \in Nat

VARIABLES
    stack,      \* state_stack_: frames [current, data]
    posted,     \* events that actions have posted, dispatched next
    answer,     \* of the last dispatch
    tokens,     \* history: events accepted from outside
    entered,    \* history, per state: how often it was entered ...
    exited      \* ... and exited

vars == <<stack, posted, answer, tokens, entered, exited>>

NewFrame == [current |-> InitialOf, data |-> InitData]
Top == stack[Len(stack)]

TypeOK ==
    /\ stack # <<>>
    /\ \A i \in DOMAIN stack :
          /\ \A m \in Machines : stack[i].current[m] \in Inner[m]
          /\ DOMAIN stack[i].data = DOMAIN InitData
    /\ posted \in Seq(Events)
    /\ answer \in {"process", "refuse"}
    /\ tokens \in Seq(Events)
    /\ entered \in [AllStates -> Nat]
    /\ exited \in [AllStates -> Nat]

Init ==
    /\ stack = <<NewFrame>>
    /\ posted = <<>>
    /\ answer = "process"
    /\ tokens = <<>>
    /\ entered = [s \in AllStates |-> 0]
    /\ exited = [s \in AllStates |-> 0]

-----------------------------------------------------------------------------
\* The active states of a frame from s down.
Chain(frame, s) ==
    LET below[n \in AllStates] ==
            IF n \in Machines THEN <<n>> \o below[frame.current[n]] ELSE <<n>>
    IN  below[s]

\* A call of a handler on every state of a chain.
Calls(Handler(_, _, _), data, chain, e) ==
    LET after[i \in 0..Len(chain)] ==
            IF i = 0 THEN data ELSE Handler(after[i - 1], chain[i], e)
    IN  after[Len(chain)]

Count(counts, chain) ==
    [s \in AllStates |-> counts[s] + Cardinality({i \in DOMAIN chain : chain[i] = s})]

\* emplace_back and enter: the region and its initial states are entered.
Pushed(frames, e) ==
    LET chain == Chain(NewFrame, Region)
    IN  Append(frames, [NewFrame EXCEPT !.data = Calls(OnEnter, InitData, chain, e)])

\* Mutant: the last frame can be popped, too.
PopsLast(frames) == Len(frames) >= 1

\* Mutant: the two last frames are left alone.
PopsAboveTwo(frames) == Len(frames) > 2

\* pop leaves the last frame alone.
Pops(frames) == Len(frames) > 1

\* Mutant: the frame is left without its states being exited.
ExitedByPopNone(frame) == <<>>

\* What a pop exits: all of the frame.  The transition that pops has not set
\* current_state_ yet, so its source is exited once more.
ExitedByPop(frame) == Reverse(Chain(frame, Region))

\* state_clear: a machine that is left is as new.
Cleared(frame, s) ==
    LET gone == {n \in Machines : n = s \/ ContainsSubstate(s, n)}
    IN  [current |-> [m \in Machines |-> IF m \in gone THEN InitialOf[m]
                                         ELSE frame.current[m]],
         data |-> [m \in DOMAIN InitData |-> IF m \in gone THEN InitData[m]
                                             ELSE frame.data[m]]]

\* The states that a transition has under its target, which is as new.
EnteredBy(row) == Chain(NewFrame, row.target)

\* Mutant: the new current state is written where the stack ends by then.
TransitionOnTop(m, row, e) ==
    LET depth == Len(stack)
        out == Reverse(Chain(Top, row.source))
        in == EnteredBy(row)
        leaf == in[Len(in)]
        left == Calls(OnExit, Top.data, out, e)
        before == [stack EXCEPT ![depth].data = Calls(OnEnter, left, in, e)]
        pushes == Root \in PushesTo[leaf]
        pops == Root \in PopsFrom[leaf] /\ Pops(stack)
        after == CASE pushes -> Pushed(before, e)
                   [] pops   -> SubSeq(stack, 1, depth - 1)
                   [] OTHER  -> before
    IN
    /\ stack' = [after EXCEPT ![Len(after)].current[m] = row.target]
    /\ entered' = Count(Count(entered, in), IF pushes THEN Chain(NewFrame, Region) ELSE <<>>)
    /\ exited' = Count(Count(exited, out), IF pops THEN ExitedByPop(Top) ELSE <<>>)

\* A transition in machine m of the topmost frame: exit, action, entry, which
\* for a push or a pop changes the stack, clearing and the new current state.
Transition(m, row, e) ==
    LET depth == Len(stack)
        out == Reverse(Chain(Top, row.source))
        in == EnteredBy(row)
        leaf == in[Len(in)]
        left == Calls(OnExit, Top.data, out, e)
        before == [stack EXCEPT ![depth].data = Calls(OnEnter, left, in, e)]
        pushes == Root \in PushesTo[leaf]
        pops == Root \in PopsFrom[leaf] /\ Pops(stack)
        moved == [Cleared(before[depth], row.source) EXCEPT !.current[m] = row.target]
        done == [before EXCEPT ![depth] = moved]
    IN
    /\ stack' = CASE pushes -> Pushed(done, e)
                  [] pops   -> SubSeq(stack, 1, depth - 1)
                  [] OTHER  -> done
    /\ entered' = Count(Count(entered, in), IF pushes THEN Chain(NewFrame, Region) ELSE <<>>)
    /\ exited' = Count(Count(exited, out), IF pops THEN ExitedByPop(Top) ELSE <<>>)

\* The rows of machine m that event e triggers in the topmost frame.
Triggered(m, e) ==
    {row \in Rows[m] : /\ row.source = Top.current[m]
                       /\ row.event = e
                       /\ Allows(row.guard, Top)}

ActiveMachines == ToSet(Chain(Top, Region)) \cap Machines

\* An event goes to the innermost machine of the topmost frame first.
Takes(m, e) ==
    /\ Triggered(m, e) # {}
    /\ \A n \in ActiveMachines : ContainsSubstate(m, n) => Triggered(n, e) = {}

Accepts(e) == \E m \in ActiveMachines : Triggered(m, e) # {}

\* No row takes the event: nothing happens, and frames below are not asked.
Refuse(rest) ==
    /\ answer' = "refuse"
    /\ posted' = rest
    /\ UNCHANGED <<stack, entered, exited>>

\* Mutant: the event that the action posts is lost.
DispatchUnposted(e, rest) ==
    \/ \E m \in ActiveMachines :
          /\ Takes(m, e)
          /\ \E row \in Triggered(m, e) : Transition(m, row, e)
          /\ posted' = rest
          /\ answer' = "process"
    \/ ~Accepts(e) /\ Refuse(rest)

\* The dispatch of an event, when `rest` is posted.  An action that posts the
\* event leaves it to the queue.
Dispatch(e, rest) ==
    \/ \E m \in ActiveMachines :
          /\ Takes(m, e)
          /\ \E row \in Triggered(m, e) :
                /\ Transition(m, row, e)
                /\ posted' = IF row.posts THEN Append(rest, e) ELSE rest
          /\ answer' = "process"
    \/ ~Accepts(e) /\ Refuse(rest)

\* process_event from outside; it returns when the queue is empty.
Receive(e) ==
    /\ posted = <<>>
    /\ Len(tokens) < MaxTokens
    /\ Dispatch(e, <<>>)
    /\ tokens' = IF Accepts(e) THEN Append(tokens, e) ELSE tokens

\* The queue of posted events.
RunPosted ==
    /\ posted # <<>>
    /\ Dispatch(Head(posted), Tail(posted))
    /\ UNCHANGED tokens

\* The bound is reached and the machine waits for an event.
Exhausted ==
    /\ posted = <<>>
    /\ Len(tokens) = MaxTokens
    /\ UNCHANGED vars

Next == (\E e \in Events : Receive(e)) \/ RunPosted \/ Exhausted

Spec == Init /\ [][Next]_vars

-----------------------------------------------------------------------------
(* Properties *)

\* A frame below the topmost one waits in a push state, and nowhere else: what
\* it pushed has not been popped.
LowerFramesWait ==
    \A i \in 1..(Len(stack) - 1) :
        LET chain == Chain(stack[i], Region)
        IN  Root \in PushesTo[chain[Len(chain)]]

\* An event that an action posts from inside a frame that is about to go is
\* taken by the frame below.
PostedIsTaken == [][posted # <<>> => answer' = "process"]_vars

\* The region is entered and exited once per frame.  Of the states in it one is
\* entered per exit, over all frames together; but the accounts of single
\* states differ, as a pop exits the source of its transition twice and the pop
\* state, which it has entered, never.
ExitsBalance ==
    LET open == [s \in AllStates |-> entered[s] - exited[s]]
        Final == {s \in Inner[Region] : Root \in PopsFrom[s]}
    IN
    /\ open[Region] = Len(stack) - 1
    /\ SumFunctionOnSet(open, Inner[Region]) = Len(stack) - 1
    /\ \A s \in Final : exited[s] = 0

\* is_in_state<s>() of the outermost machine, which is decided by containment,
\* tells what is active in the topmost frame along the path to s.
InStateIsActive ==
    \A s \in AllStates :
        IsInState(Top.current, Root, s)
            <=> LET path == StatePath(Root, s)
                IN  \A i \in 2..Len(path) : Top.current[path[i - 1]] = path[i]
=============================================================================

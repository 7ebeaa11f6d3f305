------------------------------ MODULE StateTree ------------------------------
(***************************************************************************)
(* How one event runs through a hierarchy of states: the dispatch          *)
(* (include/afsm/detail/base_states.hpp, actions.hpp), the transition      *)
(* table (transitions.hpp) and orthogonal regions                          *)
(* (orthogonal_regions.hpp).                                               *)
(*                                                                         *)
(* The source is a recursion of calls.  Here `todo` is its stack: what is  *)
(* left to do of the calls in progress, the next thing first, and every    *)
(* action does its head.  A guard, an action, an on_exit or an on_enter is *)
(* an opaque handler; it may write the data of states, change the facts    *)
(* that guards look at, post events to the machine, and throw.             *)
(***************************************************************************)
EXTENDS Integers, Sequences, FiniteSets, SequencesExt

CONSTANTS
    States,         \* every state and machine of the hierarchy
    Root,           \* the outermost machine
    Parent,         \* of every other state: the machine it is a state of
    Initial,        \* of a machine with a transition table: initial_state
    Regions,        \* of a machine with orthogonal regions: those, in order
    History,        \* states tagged has_history
    Events,         \* the events that are sent, with their data
    TypeOf,         \* of an event: its type, by which it is dispatched
    None,           \* afsm::none, the event of default transitions
    Table,          \* of a machine: its rows [from, event, to, guard]
    Internal,       \* of a state: its internal rows [event, guard]
    Deferred,       \* of a state: deferred_events
    Guarantee,      \* of a machine: "basic", "strong" or "nothrow"
    InitFacts,      \* what the program's data, at which guards look, may be at first
    Throwing,       \* handlers that may throw
    Verdicts(_, _, _),  \* what a guard may answer, given the event and the facts
    Effects(_, _, _),   \* what a handler may make of the facts
    Writes(_),          \* the states whose data a handler modifies
    Posts(_, _)         \* the events a handler posts, given the event it is called with

Machines == DOMAIN Initial
Orthogonal == DOMAIN Regions
Children(n) == {s \in DOMAIN Parent : Parent[s] = n}

\* A state and everything around it: what is in every set of states that the
\* state is in and that has, with a state, the machine it is a state of.
Closed == {S \in SUBSET States : \A s \in S \ {Root} : Parent[s] \in S}
Up == [n \in States |-> {a \in States : \A S \in Closed : n \in S => a \in S}]

\* A state and everything inside it.
Below(n) == {s \in States : n \in Up[s]}

\* The handlers that are called: on_enter and on_exit of states, actions of rows.
Handlers ==
    {<<kind, s, 0>> : kind \in {"enter", "exit"}, s \in States}
      \cup (UNION {{<<"action", m, i>> : i \in DOMAIN Table[m]} : m \in Machines})
      \cup (UNION {{<<"internal", s, i>> : i \in DOMAIN Internal[s]} : s \in States})

\* No state is inside itself, all are in the outermost machine, and each is named
\* by its place.
ASSUME TreeAssumption ==
    /\ Root \in States /\ \A s \in States : Root \in Up[s]
    /\ Parent \in [States \ {Root} -> Machines \cup Orthogonal]
    /\ \A s \in DOMAIN Parent : s \notin Up[Parent[s]]
    /\ Machines \cap Orthogonal = {}
    /\ Machines \cup Orthogonal \subseteq States
    /\ Initial \in [Machines -> States] /\ \A m \in Machines : Initial[m] \in Children(m)
    /\ \A o \in Orthogonal :
          /\ Regions[o] \in Seq(Machines \cup Orthogonal) /\ IsInjective(Regions[o])
          /\ ToSet(Regions[o]) = Children(o)
ASSUME TableAssumption ==
    /\ DOMAIN TypeOf = Events
    /\ None \notin Events \cup Range(TypeOf)
    /\ History \subseteq States
    /\ Deferred \in [States -> SUBSET Range(TypeOf)]
    /\ Guarantee \in [Machines -> {"basic", "strong", "nothrow"}]
    /\ DOMAIN Table = Machines /\ DOMAIN Internal = States
    /\ \A m \in Machines :
          /\ Len(Table[m]) \in Nat /\ DOMAIN Table[m] = 1..Len(Table[m])
          /\ \A i \in DOMAIN Table[m] :
                /\ {Table[m][i].from, Table[m][i].to} \subseteq Children(m)
                /\ Table[m][i].event \in Range(TypeOf) \cup {None}
    /\ \A s \in States :
          /\ Len(Internal[s]) \in Nat /\ DOMAIN Internal[s] = 1..Len(Internal[s])
          /\ \A i \in DOMAIN Internal[s] : Internal[s][i].event \in Range(TypeOf)
ASSUME HandlerAssumption ==
    \A h \in Handlers :
        /\ Writes(h) \subseteq States
        /\ \A e \in Events \cup {None} : Posts(h, e) \in Seq(Events)

VARIABLES
    current,    \* per machine with a table: current_state_
    dirty,      \* states whose data differs from a new state's
    facts,      \* the facts that hold
    queue,      \* events posted by handlers, not yet dispatched
    event,      \* the event being dispatched
    todo,       \* what is left to do
    res,        \* the event_process_result of the last call that returned
    throwing,   \* an exception is on its way
    entered,    \* history: per state, on_enter calls minus on_exit calls
    start,      \* history: the tree when the event was dispatched
    committed,  \* history: the tree after the last complete transition
    undone,     \* history: <<machine, row>> of the transitions rolled back since then
    failed      \* history: some handler or guard has thrown

tree == <<current, dirty>>
program == <<facts, queue>>
control == <<event, todo, res, throwing>>
history == <<entered, start, committed, undone, failed>>
vars == <<tree, program, control, history>>

-----------------------------------------------------------------------------
(* The hierarchy *)

InternalEvents(n) == {r.event : r \in ToSet(Internal[n])}

\* What a state can handle itself or inside: the events of its internal
\* transitions and of its table, and those of all that is in it.
RecursiveHandled[n \in States] ==
    (UNION {RecursiveHandled[s] : s \in Children(n)})
      \cup InternalEvents(n)
      \cup IF n \in Machines THEN {r.event : r \in ToSet(Table[n])} ELSE {}

\* handled_events: what the static selection dispatches at all.  For a machine
\* with regions that is what the regions can handle; its own internal
\* transitions are not among it, though they are for a machine around it.
Handled[n \in States] ==
    IF n \in Orthogonal
    THEN UNION {RecursiveHandled[s] : s \in Children(n)}
    ELSE RecursiveHandled[n]

\* The states that are active in configuration c.
Active(c) ==
    {n \in States : \A a \in Up[n] \ {Root} :
        Parent[a] \in Machines => c[Parent[a]] = a}

\* Mutant: internal transitions are not counted.
RowsAvailable(n, c) ==
    IF n \in Machines THEN {r.event : r \in {q \in ToSet(Table[n]) : q.from = c[n]}} ELSE {}

\* current_handled_events: the transitions out of the current states and the
\* internal transitions, whatever their guards say.
Available(n, c) ==
    InternalEvents(n)
      \cup IF n \in Machines
           THEN {r.event : r \in {q \in ToSet(Table[n]) : q.from = c[n]}}
           ELSE {}
CurrentHandled(c) == (UNION {Available(n, c) : n \in Active(c)}) \ {None}

\* current_deferrable_events: what any active state defers.
CurrentDeferrable(c) == UNION {Deferred[n] : n \in Active(c)}

-----------------------------------------------------------------------------
(* What can be on the stack *)

\* The type of an event; afsm::none is one of its own.
Kind(e) == IF e = None THEN None ELSE TypeOf[e]

\* The values of event_process_result.
Answers == {"refuse", "defer", "in_state", "process"}

Op(name, n, e) == [op |-> name, of |-> n, event |-> e]
Ops(name, states, e) == [i \in DOMAIN states |-> Op(name, states[i], e)]
Call(kind, n, i, e) == [op |-> "call", of |-> n, kind |-> kind, row |-> i, event |-> e]
Rows(m, e, i) == [op |-> "rows", of |-> m, event |-> e, row |-> i]
InternalRows(n, i) == [op |-> "internal", of |-> n, row |-> i]
Region(n, i, best) == [op |-> "region", of |-> n, row |-> i, best |-> best]
SetCurrent(m, s) == [op |-> "set", of |-> m, to |-> s]
Answer(r) == [op |-> "answer", of |-> r]

\* The backups of both states and the handler of exceptions around a transition.
Try(m, e, i) ==
    [op |-> "try", of |-> m, event |-> e, row |-> i,
     backup |-> dirty \cap {Table[m][i].from, Table[m][i].to}]

Frame ==
    [op : {"dispatch", "settle", "default", "exit", "enter", "clear"}, of : States,
     event : Events \cup {None}]
      \cup [op : {"call"}, of : States, kind : {"enter", "exit", "action", "internal"},
            row : Nat, event : Events \cup {None}]
      \cup [op : {"rows"}, of : Machines, event : Events \cup {None}, row : Nat]
      \cup [op : {"internal"}, of : States, row : Nat]
      \cup [op : {"region"}, of : Orthogonal, row : Nat, best : Answers]
      \cup [op : {"set"}, of : Machines, to : States]
      \cup [op : {"answer"}, of : Answers]
      \cup [op : {"try"}, of : Machines, event : Events \cup {None}, row : Nat,
            backup : SUBSET States]

\* A handler by name: on_enter and on_exit of a state, action and guard of a
\* row, action ("internal") and guard ("check") of an internal row.
Handler(f) == <<f.kind, f.of, f.row>>

Now == [current |-> current, dirty |-> dirty]

Init ==
    /\ current = Initial
    /\ dirty = {}
    /\ facts \in InitFacts
    /\ queue = <<>>
    /\ event = None
    /\ todo = <<>>
    /\ res = "refuse"
    /\ throwing = FALSE
    /\ entered = [n \in States |-> IF n \in Active(Initial) THEN 1 ELSE 0]
    /\ start = Now
    /\ committed = Now
    /\ undone = {}
    /\ failed = FALSE

Resting == todo = <<>> /\ ~throwing
Escaped == todo = <<>> /\ throwing

Doing(op) == todo # <<>> /\ ~throwing /\ Head(todo).op = op
Do(ops) == todo' = ops \o Tail(todo)
Return(r) == res' = r /\ Do(<<>>)

-----------------------------------------------------------------------------
(* Dispatch *)

\* The outermost machine takes the next posted event, or one from outside.
Receive(e) ==
    /\ Resting
    /\ IF queue = <<>> THEN UNCHANGED queue ELSE e = Head(queue) /\ queue' = Tail(queue)
    /\ event' = e
    /\ todo' = <<Op("dispatch", Root, e)>>
    /\ start' = Now
    /\ committed' = Now
    /\ undone' = {}
    /\ UNCHANGED <<tree, facts, res, throwing, entered, failed>>

\* A machine asks its current state, then its own rows, then looks for a default
\* transition, then for an internal transition.
MachineDispatch(n) ==
    <<Op("dispatch", current[n], event), Rows(n, event, 1), Op("settle", n, None),
      InternalRows(n, 1)>>

\* A machine with regions asks all of them, then its internal transitions.
RegionsDispatch(n) == <<Region(n, 1, "refuse"), InternalRows(n, 1)>>

StateDispatch(n) == <<InternalRows(n, 1)>>

\* process_event of a state or machine.  What is selected at compile time: an
\* event that nothing inside handles is deferred or refused.
DispatchTo(n) ==
    IF Kind(event) \notin Handled[n]
    THEN Return(IF Kind(event) \in Deferred[n] THEN "defer" ELSE "refuse")
    ELSE /\ res' = "refuse"
         /\ Do(CASE n \in Machines   -> MachineDispatch(n)
                 [] n \in Orthogonal -> RegionsDispatch(n)
                 [] OTHER            -> StateDispatch(n))

Dispatch ==
    /\ Doing("dispatch")
    /\ DispatchTo(Head(todo).of)
    /\ UNCHANGED <<tree, program, event, throwing, history>>

Rank == [refuse |-> 0, defer |-> 1, in_state |-> 2, process |-> 3]
Better(a, b) == IF Rank[a] < Rank[b] THEN b ELSE a

\* Mutant: the last region that was asked decides.
NextRegionLast ==
    LET f == Head(todo) IN
    /\ Doing("region")
    /\ IF f.row > Len(Regions[f.of])
       THEN Do(<<>>) /\ UNCHANGED res
       ELSE /\ Do(<<Op("dispatch", Regions[f.of][f.row], event), Region(f.of, f.row + 1, res)>>)
            /\ UNCHANGED res
    /\ UNCHANGED <<tree, program, event, throwing, history>>

\* Every region gets the event, one after the other; the best answer counts.
NextRegion ==
    LET f == Head(todo)
        best == Better(f.best, res)
    IN
    /\ Doing("region")
    /\ IF f.row > Len(Regions[f.of])
       THEN Return(best)
       ELSE /\ Do(<<Op("dispatch", Regions[f.of][f.row], event), Region(f.of, f.row + 1, best)>>)
            /\ UNCHANGED res
    /\ UNCHANGED <<tree, program, event, throwing, history>>

-----------------------------------------------------------------------------
(* Transitions *)

\* The next row to try, if there is one: rows are tried in the order of the
\* table, until one does not refuse.
Candidates(f) ==
    {i \in f.row..Len(Table[f.of]) :
        /\ res = "refuse"
        /\ Table[f.of][i].event = Kind(f.event)
        /\ Table[f.of][i].from = current[f.of]}
InternalCandidates(f) ==
    {i \in f.row..Len(Internal[f.of]) : res = "refuse" /\ Internal[f.of][i].event = Kind(event)}
First(indexes) == CHOOSE i \in indexes : \A j \in indexes : i <= j

NoMoreRows ==
    /\ \/ Doing("rows") /\ Candidates(Head(todo)) = {}
       \/ Doing("internal") /\ InternalCandidates(Head(todo)) = {}
    /\ Do(<<>>)
    /\ UNCHANGED <<tree, program, event, res, throwing, history>>

\* The two guarantees beyond the basic one put the transition into a `try`.
Tried(m, e, i) == IF Guarantee[m] = "basic" THEN <<>> ELSE <<Try(m, e, i)>>

\* Mutant: the source is not cleared.
TransitionKeepsSource(m, e, i) ==
    LET r == Table[m][i] IN
    <<Op("exit", r.from, e), Call("action", m, i, e), Op("enter", r.to, e),
      SetCurrent(m, r.to)>> \o Tried(m, e, i)

\* transit_state_impl once the guard has agreed: current_state_ changes last.
Transition(m, e, i) ==
    LET r == Table[m][i] IN
    <<Op("exit", r.from, e), Call("action", m, i, e), Op("enter", r.to, e),
      Op("clear", r.from, e), SetCurrent(m, r.to)>> \o Tried(m, e, i)

TestRow ==
    LET f == Head(todo)
        i == First(Candidates(f))
    IN
    /\ Doing("rows")
    /\ Candidates(f) # {}
    /\ \E v \in Verdicts(Table[f.of][i].guard, f.event, facts) :
          Do(IF v THEN Transition(f.of, f.event, i) ELSE <<Rows(f.of, f.event, i + 1)>>)
    /\ UNCHANGED <<tree, program, event, res, throwing, history>>

\* An internal transition: its action runs, and the answer says so.
TestInternalRow ==
    LET f == Head(todo)
        i == First(InternalCandidates(f))
    IN
    /\ Doing("internal")
    /\ InternalCandidates(f) # {}
    /\ \E v \in Verdicts(Internal[f.of][i].guard, event, facts) :
          Do(IF v THEN <<Call("internal", f.of, i, event), Answer("in_state")>>
                  ELSE <<InternalRows(f.of, i + 1)>>)
    /\ UNCHANGED <<tree, program, event, res, throwing, history>>

\* An event that was processed is followed by at most one default transition,
\* whose answer is ignored.
Settle ==
    /\ Doing("settle")
    /\ Do(IF res = "process" THEN <<Op("default", Head(todo).of, None), Answer("process")>>
                             ELSE <<>>)
    /\ UNCHANGED <<tree, program, event, res, throwing, history>>

\* check_default_transition
CheckDefault ==
    /\ Doing("default")
    /\ res' = "refuse"
    /\ Do(<<Rows(Head(todo).of, None, 1)>>)
    /\ UNCHANGED <<tree, program, event, throwing, history>>

GiveAnswer ==
    /\ Doing("answer")
    /\ Return(Head(todo).of)
    /\ UNCHANGED <<tree, program, event, throwing, history>>

-----------------------------------------------------------------------------
(* Entry and exit *)

\* Mutant: the regions are left in the order in which they were entered.
InnerExitForwards(n, e) ==
    CASE n \in Machines   -> <<Op("exit", current[n], e)>>
      [] n \in Orthogonal -> Ops("exit", Regions[n], e)
      [] OTHER            -> <<>>

\* Mutant: a machine leaves its initial state, whatever its current one.
InnerExitInitial(n, e) ==
    CASE n \in Machines   -> <<Op("exit", Initial[n], e)>>
      [] n \in Orthogonal -> Ops("exit", Reverse(Regions[n]), e)
      [] OTHER            -> <<>>

\* state_exit: the current state, or the regions in reverse order.
InnerExit(n, e) ==
    CASE n \in Machines   -> <<Op("exit", current[n], e)>>
      [] n \in Orthogonal -> Ops("exit", Reverse(Regions[n]), e)
      [] OTHER            -> <<>>

\* Mutant: entry does not look for a default transition.
InnerEnterOnly(n, e) ==
    CASE n \in Machines   -> <<Op("enter", Initial[n], e)>>
      [] n \in Orthogonal -> Ops("enter", Regions[n], e)
      [] OTHER            -> <<>>

\* state_enter: the initial state (also when has_history has kept another one),
\* followed by a default transition out of the current one; or the regions.
InnerEnter(n, e) ==
    CASE n \in Machines   -> <<Op("enter", Initial[n], e), Op("default", n, None)>>
      [] n \in Orthogonal -> Ops("enter", Regions[n], e)
      [] OTHER            -> <<>>

\* The inner states are left before on_exit, and entered after on_enter.
ExitOrEnter ==
    /\ \/ LET n == Head(todo).of  e == Head(todo).event IN
          Doing("exit") /\ Do(InnerExit(n, e) \o <<Call("exit", n, 0, e)>>)
       \/ LET n == Head(todo).of  e == Head(todo).event IN
          Doing("enter") /\ Do(<<Call("enter", n, 0, e)>> \o InnerEnter(n, e))
    /\ UNCHANGED <<tree, program, event, res, throwing, history>>

\* Mutant: clears a state whether or not it has history.
ClearSourceAlways ==
    LET inside == Below(Head(todo).of) IN
    /\ Doing("clear")
    /\ current' = [m \in Machines |-> IF m \in inside THEN Initial[m] ELSE current[m]]
    /\ dirty' = dirty \ inside
    /\ Do(<<>>)
    /\ UNCHANGED <<program, event, res, throwing, history>>

\* state_clear: unless it has history, the source is replaced by a new one,
\* with everything inside it.
ClearSource ==
    LET inside == IF Head(todo).of \in History THEN {} ELSE Below(Head(todo).of) IN
    /\ Doing("clear")
    /\ current' = [m \in Machines |-> IF m \in inside THEN Initial[m] ELSE current[m]]
    /\ dirty' = dirty \ inside
    /\ Do(<<>>)
    /\ UNCHANGED <<program, event, res, throwing, history>>

\* Mutant: the table of the wrong machine is written, as after a swap that
\* does not put the back pointers right.
CompleteTransitionAtRoot ==
    LET f == Head(todo) IN
    /\ Doing("set")
    /\ current' = [current EXCEPT ![Root] = f.to]
    /\ Return("process")
    /\ UNCHANGED <<dirty, program, event, throwing, history>>

\* The last step of a transition.
CompleteTransition ==
    LET f == Head(todo) IN
    /\ Doing("set")
    /\ current' = [current EXCEPT ![f.of] = f.to]
    /\ Return("process")
    /\ committed' = IF \E i \in 2..Len(todo) : todo[i].op = "set" THEN committed
                    ELSE [current |-> current', dirty |-> dirty]
    /\ UNCHANGED <<dirty, program, event, throwing, entered, start, undone, failed>>

LeaveTry ==
    /\ Doing("try")
    /\ Do(<<>>)
    /\ UNCHANGED <<tree, program, event, res, throwing, history>>

-----------------------------------------------------------------------------
(* Handlers and exceptions *)

\* What entering a state enters, before any default transition: in every machine
\* its initial state.
EnteredWith(n) ==
    {s \in Below(n) : \A a \in (Up[s] \cap Below(n)) \ {n} :
        Parent[a] \in Machines => Initial[Parent[a]] = a}

\* Machines that may be entered while current_state_ is not the initial state:
\* those with history, and those that a self-transition enters before it clears
\* them.  state_enter enters the initial state all the same; then, in the first
\* case, that is not the current one, and in the second a default transition
\* may leave a state that was not entered.
Stale ==
    History \cup
        {m \in Machines :
            /\ \E r \in ToSet(Table[m]) : r.event = None
            /\ \E q \in UNION {ToSet(Table[x]) : x \in Machines} :
                  q.from = q.to /\ m \in EnteredWith(q.from)}

\* States whose entry and exit are counted: not below such machines, and not
\* after an exception, when a state may be left twice.
Tracked == {n \in States : (Up[n] \ {n}) \cap Stale = {}}

Counted(f) ==
    IF failed \/ f.kind \notin {"enter", "exit"} \/ f.of \notin Tracked THEN entered
    ELSE [entered EXCEPT ![f.of] = IF f.kind = "enter" THEN @ + 1 ELSE @ - 1]

RunHandler ==
    LET f == Head(todo) IN
    /\ Doing("call")
    /\ dirty' = dirty \cup Writes(Handler(f))
    /\ facts' \in Effects(Handler(f), f.event, facts)
    /\ queue' = queue \o Posts(Handler(f), f.event)
    /\ entered' = Counted(f)
    /\ Do(<<>>)
    /\ UNCHANGED <<current, event, res, throwing, start, committed, undone, failed>>

\* An exception is on its way; entries are no longer counted.
ThrowNow ==
    /\ throwing' = TRUE
    /\ failed' = TRUE
    /\ entered' = [n \in States |-> 0]

\* A handler throws, before or after it has written its data.
HandlerThrows ==
    LET h == Handler(Head(todo)) IN
    /\ Doing("call")
    /\ h \in Throwing
    /\ dirty' \in {dirty, dirty \cup Writes(h)}
    /\ ThrowNow
    /\ todo' = Tail(todo)
    /\ UNCHANGED <<current, program, event, res, start, committed, undone>>

\* A guard throws: that of a row is called inside the `try`.
GuardThrows ==
    LET f == Head(todo) IN
    /\ \/ /\ Doing("rows")
          /\ Candidates(f) # {}
          /\ LET i == First(Candidates(f)) IN
             /\ <<"guard", f.of, i>> \in Throwing
             /\ Do(Tried(f.of, f.event, i))
       \/ /\ Doing("internal")
          /\ InternalCandidates(f) # {}
          /\ <<"check", f.of, First(InternalCandidates(f))>> \in Throwing
          /\ Do(<<>>)
    /\ ThrowNow
    /\ UNCHANGED <<tree, program, event, res, start, committed, undone>>

\* Mutant: only the source is swapped back.
RestoreSource(f) ==
    LET source == Table[f.of][f.row].from
    IN
    /\ current' = [m \in Machines |-> IF m \in Below(source) THEN Initial[m] ELSE current[m]]
    /\ dirty' = (dirty \ Below(source)) \cup (f.backup \cap {source})

\* The source and the target are swapped with their backups.  The copy of an
\* inner machine has the machine's data, but everything inside it is new:
\* overload resolution passes rhs on to a constructor that copies only that.
Restore(f) ==
    LET r == Table[f.of][f.row]
        restored == Below(r.from) \cup Below(r.to)
    IN
    /\ current' = [m \in Machines |-> IF m \in restored THEN Initial[m] ELSE current[m]]
    /\ dirty' = (dirty \ restored) \cup f.backup

\* Nobody catches the exception: it leaves the machine.
Escape ==
    /\ throwing
    /\ todo # <<>>
    /\ \A i \in DOMAIN todo : todo[i].op # "try"
    /\ todo' = <<>>
    /\ UNCHANGED <<tree, program, event, res, throwing, history>>

\* The innermost `try` catches it.  The strong guarantee throws it again; the
\* nothrow guarantee answers `refuse`, so that the next row is tried.
Catch ==
    LET at == First({i \in DOMAIN todo : todo[i].op = "try"})
        f == todo[at]
        rest == SubSeq(todo, at + 1, Len(todo))
    IN
    /\ throwing
    /\ \E i \in DOMAIN todo : todo[i].op = "try"
    /\ Restore(f)
    /\ undone' = undone \cup {<<f.of, f.row>>}
    /\ IF Guarantee[f.of] = "strong"
       THEN todo' = rest /\ UNCHANGED <<res, throwing>>
       ELSE /\ todo' = <<Rows(f.of, f.event, f.row + 1)>> \o rest
            /\ res' = "refuse"
            /\ throwing' = FALSE
    /\ UNCHANGED <<program, event, entered, start, committed, failed>>

\* After an exception has left it, the machine takes no event again (see
\* EventQueue!Throw).
Stuck == Escaped /\ UNCHANGED vars

Step ==
    \/ Dispatch \/ NextRegion
    \/ NoMoreRows \/ TestRow \/ TestInternalRow
    \/ Settle \/ CheckDefault \/ GiveAnswer
    \/ ExitOrEnter \/ ClearSource \/ CompleteTransition \/ LeaveTry
    \/ RunHandler \/ HandlerThrows \/ GuardThrows \/ Escape \/ Catch
    \/ Stuck

Next == (\E e \in Events : Receive(e)) \/ Step

Spec == Init /\ [][Next]_vars

-----------------------------------------------------------------------------
(* Properties *)

TypeOK ==
    /\ current \in [Machines -> States]
    /\ \A m \in Machines : current[m] \in Children(m)
    /\ dirty \subseteq States
    /\ queue \in Seq(Events)
    /\ event \in Events \cup {None}
    /\ todo \in Seq(Frame)
    /\ res \in Answers
    /\ {throwing, failed} \subseteq BOOLEAN
    /\ undone \subseteq Machines \X Nat
    /\ entered \in [States -> Int]
    /\ {start.current, committed.current} \subseteq [Machines -> States]
    /\ {start.dirty, committed.dirty} \subseteq SUBSET States

\* Between two events the states that were entered and not left are exactly the
\* active ones, whatever combination of transitions, inner machines, regions
\* and default transitions on the way led there.  (Below Stale machines this is
\* not so.)
EntriesMatch ==
    Resting /\ ~failed => \A n \in Tracked : entered[n] = IF n \in Active(current) THEN 1 ELSE 0

\* A state is entered after the machine around it, and after its predecessors
\* among regions, with no other state of the same table entered; it is left
\* when nothing inside it and no later region is entered any more.
EntersInOrder(n) ==
    /\ entered[n] = 0
    /\ entered[Parent[n]] = 1
    /\ \A s \in Tracked \cap Children(Parent[n]) :
          IF Parent[n] \in Machines THEN entered[s] = 0
          ELSE entered[s] = 1 <=>
               SelectInSeq(Regions[Parent[n]], LAMBDA x : x = s)
                 < SelectInSeq(Regions[Parent[n]], LAMBDA x : x = n)

LeavesInOrder(n) ==
    /\ \A d \in (Tracked \cap Below(n)) \ {n} : entered[d] = 0
    /\ Parent[n] \in Orthogonal =>
          \A s \in Tracked \cap Children(Parent[n]) :
              entered[s] = 1 <=>
              SelectInSeq(Regions[Parent[n]], LAMBDA x : x = s)
                <= SelectInSeq(Regions[Parent[n]], LAMBDA x : x = n)

EntryOrder ==
    [][failed' \/ \A n \in Tracked :
          /\ entered'[n] > entered[n] => EntersInOrder(n)
          /\ entered'[n] < entered[n] => LeavesInOrder(n)]_vars

\* What is inactive is as new, in its data and in its current state, except
\* below a state with history that is itself inactive.
Suspended(n) == \E a \in Up[n] \cap History : a \notin Active(current)

ForgottenUnlessHistory ==
    Resting => \A n \in States \ Active(current) :
        \/ Suspended(n)
        \/ n \notin dirty /\ (n \in Machines => current[n] = Initial[n])

\* A machine with history, in machines that have it too, changes its current
\* state only along its own transitions for the event, or default transitions:
\* leaving and entering it do not.
HistoryKept ==
    [][\A m \in Machines \ {Root} :
          Up[m] \ {Root} \subseteq History /\ current'[m] # current[m] =>
              \E r \in ToSet(Table[m]) :
                  r.from = current[m] /\ r.to = current'[m] /\ r.event \in {Kind(event), None}]_vars

\* Between two events no default transition of an active machine is due.  One
\* default transition per level is all the code makes, so this is a property
\* of tables whose default transitions do not form chains.
NothingPending ==
    Resting => \A m \in Machines \cap Active(current) : \A r \in ToSet(Table[m]) :
        r.from = current[m] /\ r.event = None => FALSE \in Verdicts(r.guard, None, facts)

\* What the machine says it handles and defers now, which decides what happens
\* to deferred events (DeferredQueue), agrees with what it then does: the two
\* are computed along different paths.
AnswersAsPublished ==
    Resting =>
        /\ res \in {"in_state", "process"} => Kind(event) \in CurrentHandled(start.current)
        /\ res = "defer" => Kind(event) \in CurrentDeferrable(start.current)

\* The states that rolled-back transitions left or entered, and those in them.
Undone == UNION {{Table[u[1]][u[2]].from, Table[u[1]][u[2]].to} : u \in undone}
Inside == (UNION {Below(s) : s \in Undone}) \ Undone

\* The answer tells what happened, also when several levels and regions had
\* their say: the caches handled_ and deferred_ are renewed only after
\* `process`, and a refused or deferred event must have left no trace, but for
\* what a failed transition has reset.
MovesAreTold ==
    Resting /\ res # "process" =>
        \A m \in Machines \ (Undone \cup Inside) : current[m] = start.current[m]

AnswerIsTrue ==
    /\ MovesAreTold
    /\ Resting /\ res \in {"refuse", "defer"} => dirty \ Inside = start.dirty \ Inside

\* Under the strong and the nothrow guarantee an exception, at whatever depth
\* and after whatever handlers, leaves current states and data as the last
\* complete transition has left them.  The exceptions are what the code does
\* not keep: the data of machines that are making transitions, and what is
\* inside a machine that a rolled-back transition left or entered; that starts
\* anew, and nothing of the attempt survives there either.
RolledBack ==
    Escaped \/ (Resting /\ res = "refuse") =>
        /\ \A m \in Machines : current[m] =
              IF m \in Undone \cup Inside THEN Initial[m] ELSE committed.current[m]
        /\ \A n \in States :
              (n \in dirty) # (n \in committed.dirty) =>
                  \/ n \in Machines \cap Active(current)
                  \/ n \in Inside /\ n \notin dirty

\* exception_safety_guarantees.hpp:28 says of the strong guarantee: "If an
\* exception is thrown in the course of transition, nothing will be modified."
\* Here, of all that could be: which states the machine is in.
StrongModifiesNothing == Escaped => current = committed.current

\* exception_safety_guarantees.hpp:35-36 says of the nothrow guarantee: "the
\* exception will be consumed.  The event will be rejected".
NothrowRejects ==
    Resting /\ (\E u \in undone : Table[u[1]][u[2]].event # None) => res = "refuse"

-----------------------------------------------------------------------------
(* The invariant of the stack of calls: e is the event, b the current states *)
(* when it was dispatched, c those there are now.                            *)

\* The event is among those that were handled when it was dispatched, and an
\* answer is one that was published then.
Due(e, b) == Kind(e) \in CurrentHandled(b)
Promised(r, e, b) ==
    /\ r \in {"in_state", "process"} => Due(e, b)
    /\ r = "defer" => Kind(e) \in CurrentDeferrable(b)

\* The machines whose current states a call may change ...
Scope(f) ==
    CASE f.op = "set"                           -> {f.of}
      [] f.op \in {"call", "internal", "answer"} -> {}
      [] OTHER                                  -> Below(f.of)

\* ... and those that it expects not to be changed before its turn comes.
RegionsFrom(n, i) == {Regions[n][k] : k \in i..Len(Regions[n])}
Relies(f) ==
    CASE f.op = "dispatch"         -> Below(f.of)
      [] f.op = "region"           -> UNION {Below(r) : r \in RegionsFrom(f.of, f.row)}
      [] f.op \in {"rows", "set"}  -> {f.of}
      [] OTHER                     -> {}

\* The calls in progress do not get in each other's way.
Confined(s) == \A i, j \in DOMAIN s : i < j => Scope(s[i]) \cap Relies(s[j]) = {}

Same(S, c, b) == \A m \in S \cap Machines : c[m] = b[m]

\* Dispatch goes only where the hierarchy was active, and meets it as it was then.
FitsDispatch(f, e, c, b) ==
    /\ f.op \in {"dispatch", "internal", "region"} => f.of \in Active(b)
    /\ f.op \in {"dispatch", "region"} => Same(Relies(f), c, b)
    /\ f.op = "region" => Promised(f.best, e, b)
    /\ f.op = "answer" => Promised(f.of, e, b)
    /\ f.op \in {"region", "internal", "rows"} => f.row >= 1
    /\ f.op = "settle" => f.of \in Machines

\* Transitions are made for the event, or after one has been made for it; one that
\* ends is a row out of the current state.
FitsTransition(f, e, c, b) ==
    /\ f.op \in {"rows", "try"} =>
          \/ f.event = None /\ Due(e, b)
          \/ f.event = e /\ f.of \in Active(b)
    /\ f.op = "rows" /\ f.event = e => Same({f.of}, c, b)
    /\ f.op = "try" => f.row \in DOMAIN Table[f.of]
    /\ f.op \in {"default", "enter", "set"} => Due(e, b)
    /\ f.op = "default" => f.of \in Machines
    /\ f.op = "clear" => f.of # Root
    /\ f.op = "call" => Handler(f) \in Handlers
    /\ f.op = "set" => \E r \in ToSet(Table[f.of]) :
          r.from = c[f.of] /\ r.to = f.to /\ r.event \in {Kind(e), None}

Fits(f, e, c, b) == FitsDispatch(f, e, c, b) /\ FitsTransition(f, e, c, b)

\* A `try` is left after the last step of its transition, or by an exception
\* before that; then its machine is still where it was.
Unmoved(f, e, c, b) == f.event = e => Same({f.of}, c, b)
Guarded(s, e, c, b) ==
    \A j \in DOMAIN s : s[j].op = "try" /\ j > 1 =>
        s[j - 1].op = "set" /\ s[j - 1].of = s[j].of /\ Unmoved(s[j], e, c, b)

Stacked(s, e, c, b) ==
    /\ Confined(s)
    /\ \A j \in DOMAIN s : Fits(s[j], e, c, b)
    /\ Guarded(s, e, c, b)

StackInv ==
    /\ Stacked(todo, event, current, start.current)
    /\ todo # <<>> => event \in Events
    /\ throwing /\ todo # <<>> /\ Head(todo).op = "try" =>
          Unmoved(Head(todo), event, current, start.current)
    /\ \/ Promised(res, event, start.current)
       \/ ~throwing /\ todo # <<>> /\ Head(todo).op = "dispatch"

-----------------------------------------------------------------------------
(* The invariant of answers: a machine that has moved is told of.           *)

\* The machines that have moved for the event, but for those rolled back.
Gone == UNION {Below(s) : s \in Undone}
Lost == {m \in Machines : current[m] # start.current[m]} \ Gone

\* A call that will answer `process`, and whether one comes after the k-th.
Tells(f) ==
    \/ f.op = "set"
    \/ f.op = "answer" /\ f.of = "process"
    \/ f.op = "region" /\ f.best = "process"
ToldAfter(s, k) == \E j \in DOMAIN s : j > k /\ Tells(s[j])

\* Calls that begin with another answer than the one there is.
Dispatches(f) == f.op = "dispatch"
Denies(f) == f.op = "answer" /\ f.of # "process"
Forgets(f) == f.op = "default" \/ Dispatches(f) \/ Denies(f)

\* Only the next call is a dispatch; only a handler comes before an answer
\* that is not `process`.
InTurn(s) ==
    \A j \in DOMAIN s :
        /\ Dispatches(s[j]) => j = 1
        /\ Denies(s[j]) => j = 1 \/ (j = 2 /\ s[1].op = "call")

\* Default transitions and what belongs to a transition are followed by `process`.
Followed(s) == \A j \in DOMAIN s : s[j].op \in {"default", "enter", "clear"} => ToldAfter(s, j)

\* Until its last step, a transition moves nothing but what a rollback resets.
Risked(f) == Below(Table[f.of][f.row].from) \cup Below(Table[f.of][f.row].to)
Sheltered(s) ==
    \A t \in DOMAIN s : s[t].op = "try" =>
        \A i \in DOMAIN s : i < t - 1 => Scope(s[i]) \subseteq Risked(s[t])

\* What has moved is told of by a later call, or by the answer there is; and
\* also after an exception, by a later call than the `try` that catches it.
Answered(s, lost, r) ==
    \/ lost = {}
    \/ ToldAfter(s, 0)
    \/ r = "process" /\ (s = <<>> \/ ~Forgets(s[1]))
ToldLater(s, lost) ==
    \A j \in DOMAIN s : Dispatches(s[j]) \/ Denies(s[j]) => lost = {} \/ ToldAfter(s, j)
ToldOutside(s, lost, thrown) ==
    \A t \in DOMAIN s : s[t].op = "try" /\ (t > 1 \/ thrown) =>
        ToldAfter(s, t) \/ lost \subseteq Risked(s[t])

Arranged(s) == InTurn(s) /\ Followed(s) /\ Sheltered(s)
Reported(s, lost, thrown) == ToldLater(s, lost) /\ ToldOutside(s, lost, thrown)

ToldInv ==
    /\ Arranged(todo)
    /\ Reported(todo, Lost, throwing)
    /\ throwing \/ Answered(todo, Lost, res)

-----------------------------------------------------------------------------
(* The invariant of traces: data that a handler has changed is told of.     *)

Touched == dirty # start.dirty

\* Calls that will answer that something was done, and calls in which handlers
\* may change data.
Done == {"in_state", "process"}
Says(f) == f.op \in {"set", "answer"} \/ (f.op = "region" /\ f.best \in Done)
SaysAfter(s, k) == \E j \in DOMAIN s : j > k /\ Says(s[j])
Touches(f) == f.op \in {"call", "exit", "enter", "clear", "default"}

\* Until something is rolled back, every such call has an answer after it.
Accounted(s) ==
    \A j \in DOMAIN s :
        /\ s[j].op = "answer" => s[j].of \in Done
        /\ Touches(s[j]) => SaysAfter(s, j)
Acknowledged(s, r) ==
    SaysAfter(s, 0) \/ (r \in Done /\ \A j \in DOMAIN s : ~Dispatches(s[j]))
SaidInv ==
    undone = {} /\ ~throwing =>
        Accounted(todo) /\ (Touched => Acknowledged(todo, res))
=============================================================================

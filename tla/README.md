# A verification of afsm in TLA+

afsm is a header-only C++14 library for hierarchical finite state machines
"designed for usage in multithreaded asynchronous environment". This directory
holds TLA+ models of it, the TLC configurations that check them on small
instances, and TLAPS proofs about them.

## 1. The system

All of the library is under `include/afsm`. A user writes a *definition* (states,
transition tables, deferred events); `state_machine<Def, Mutex, Observer>` turns it
into a machine whose `process_event(e)` any thread, and any handler of the machine
itself, may call.

| Part | Source | State | Operations |
|---|---|---|---|
| event intake | `fsm.hpp:233-248, 339-381` | `is_top_`, `queue_size_`, `mutex_`, `queued_events_` | `process_event`, `enqueue_event`, `lock_and_swap_queue`, `process_event_queue` |
| event deferral | `fsm.hpp:260-310, 383-472` | `deferred_events_`, `deferred_event_ids_`, `deferred_top_`, caches `handled_`, `deferred_` | `process_event_impl`, `defer_event`, `process_deferred_queue`, `clear_deferred_events` |
| priority machine | `fsm.hpp:497-709` | the same with a priority queue, `deferred_mutex_` | the same, without `deferred_top_` |
| transition table | `detail/transitions.hpp:130-300, 390-771` | `current_state_`, tuple of states | `process_event`, `transit_state`, `enter`, `exit`, default transitions, exception guarantees |
| transition stack | `detail/transitions.hpp:773-924` | deque of tables | `push`, `pop` |
| orthogonal regions | `detail/orthogonal_regions.hpp` | tuple (or stack of tuples) of machines | enter in order, exit in reverse, combine results |
| hierarchical dispatch | `detail/base_states.hpp`, `detail/actions.hpp` | none of its own | inner machine, then transitions, then internal transitions |
| observer, reject policies, root machine | `detail/observer.hpp`, `detail/reject_policies.hpp`, `fsm.hpp:711-773` | none | callbacks |
| definition language, traits | `definition.hpp`, `detail/def_traits.hpp` | compile time only | none |
| state queries | `detail/base_states.hpp:545-603, 926-937` | none of their own | `is_in_state` |
| vending machine | `examples/vending_machine.hpp` | goods, balance, credit, secret | guards and handlers |

How they interact. A call of `process_event` either wins `is_top_` and runs the
event, or copies it into `queued_events_` under `mutex_` and leaves it to the
winner, which drains the queue before and after it clears the flag. Running an
event walks down the hierarchy to the innermost current state and back up until
some level handles it; guards, actions, `on_exit` and `on_enter` run on the way and
may call `process_event` again. If a level changed its state, `handled_` and
`deferred_` are recomputed and the deferred events are scanned.

What is hard to get right, with the lines where it bites, is the list `hazards` in
`PROJECT.json`. In short:

* *interleaving*: a push between the drainer's last look at the counter and its
  clear of the flag; two separate accesses in the condition of the fast path; a
  counter read without the lock; the fast path overtaking the queue; a handler
  that calls its own machine;
* *failure*: an exception between `test_and_set` and `clear`, or in the middle of
  a swapped-out batch; a throwing copy after the counter was incremented; rollback
  of a transition, from copies that are not copies;
* *deferral*: a cached set of types that decides whether the list is looked at; a
  scan cut short, split and re-joined; events that are run and deferred again;
* *priorities*: activations of the deferred queue inside one another, each with a
  part of the deferred events in its own local queue;
* *hierarchy*: history, self-transitions, chained default transitions, regions
  that disagree, push and pop from inside a transition.

What makes each part correct: the intake handles every accepted event exactly once,
one at a time, in an order the callers can rely on, and never leaves one behind;
the deferral never leaves an event that could run, keeps the order within a type
and ends; the table enters and exits in matching pairs and keeps its guarantees
when a handler throws; the regions and the stack keep the table's properties.

## 2. The modules

| Module | What it is |
|---|---|
| `SerialQueue` | abstract specification of the intake: one queue, one server, bounded overtaking |
| `EventQueue` | the intake, one action per atomic access |
| `EventQueue_proofs` | TLAPS proofs about `EventQueue`: mutual exclusion, the counter, no lost wakeup; order, conservation, refinement of `SerialQueue` |
| `MCEventQueue` | instances of `EventQueue` for TLC |
| `DeferredQueue` | the deferral, one action per iteration of its loops |
| `DeferredQueue_proofs` | TLAPS proofs about `DeferredQueue` |
| `MCDeferredQueue` | instances of `DeferredQueue` for TLC |
| `PriorityQueue` | the priority machine: batch and store as priority queues, nested scans |
| `PriorityQueue_proofs` | TLAPS proofs about `PriorityQueue` |
| `MCPriorityQueue` | instances of `PriorityQueue` for TLC |
| `StateTree` | how one event runs through a hierarchy: dispatch, transition tables, orthogonal regions, exceptions |
| `StateTree_proofs` | TLAPS proofs about `StateTree`: the stack of calls, published answers, history; the answer tells what happened |
| `StateTree_entry_proofs` | TLAPS proofs about `StateTree`: entries and exits match the configuration and come in order; what is inactive is as new |
| `MCStateTree` | two instances of `StateTree` for TLC |
| `SequenceFacts` | lemmas on the sequence operators that the proofs share |
| `VendingMachine` | the vending machine of the examples with its data, on top of `StateTree` |
| `VendingMachine_proofs` | TLAPS proofs about `VendingMachine`: sales, coins, prices and the default transitions of the shop |
| `MCVendingMachine` | products, prices and stocks for TLC |
| `Definitions` | what the metafunctions of `definition.hpp` compute from a hierarchy, and `is_in_state` |
| `Pushdown` | push and pop of stack frames in the middle of transitions |
| `Pushdown_proofs` | TLAPS proofs about `Pushdown` and `Definitions`: waiting frames, the balance of entries and exits, `is_in_state` |
| `MCPushdown` | the JSON parser of `test/pushdown_tests.cpp` and the grammar it is compared with |

How they fit together. `EventQueue` proves that dispatches never overlap; so the others
model what happens inside one dispatch as the work of one thread, and take events one
after the other. `DeferredQueue` and `PriorityQueue` know of the hierarchy only what it
answers; `StateTree` and `Pushdown` say how it comes to its answers. `VendingMachine`
extends `StateTree` and gives its constants their values: tables, guards and handlers.
Each component's proofs are in a module of their own that extends the component's module.

### EventQueue

`pc[a]` says where activation `a = <<thread, depth>>` is. Depth 1 is a call made by
the thread's own code; depth d+1 is a call made by a handler that the activation of
depth d is running. A thread executes only its deepest activation (`Deepest`).

| Action | Code (`fsm.hpp`) |
|---|---|
| `Call` | entry of `process_event`, 235 |
| `ReadSize`; `TakeTop`, `MissTop` | the two operands of the condition, 237 |
| `EndDirect`, `ClearDirect` | return of `process_event_dispatch`, 238; `is_top_.clear()`, 239 |
| `CountEvent`, `PushEvent` | `enqueue_event`: lock and `++queue_size_`, 345-346; push and unlock, 348-352 |
| `PushThrows` | the copy (348) or the growth of the queue (349) fails: unlock, and out of the call |
| `CheckSize`; `TakeDrain`, `MissDrain` | the two operands of the outer loop, 369 |
| `DrainCheck` | the inner loop, 371 |
| `SwapQueue`, `SubtractSize` | `lock_and_swap_queue`, 361-362 and 363 |
| `RunNext`, `EndQueued`, `BatchDone` | the loop over the batch, 374-376 |
| `ClearDrain` | `is_top_.clear()`, 379 |
| `Throw` | an exception that leaves a handler; nothing in 233-381 catches it |

The source's atomics are all sequentially consistent, so an interleaving of single
accesses is what the program does. Handlers are opaque: a dispatch begins (`TakeTop`,
`RunNext`) and ends (`EndDirect`, `EndQueued`, `Throw`), and in between the thread may
make nested calls. `submitted`, `accepted`, `seen`, `dispatched` and `failed` are
history variables; no action reads them except to record.

`ImplementsSerialQueue` maps the holder's remaining batch followed by
`queued_events_` to the abstract queue.

### DeferredQueue

One thread, since everything here runs inside the region `is_top_` guards. The
hierarchy is reduced to what it answers (`Targets`, `InState`, `Deferrable`,
`Guarded`). `Receive` is `process_event_impl` for a new event, `StartDrain`,
`RunDeferred`, `Postpone`, `Drop` and `EndScan` are `process_deferred_queue`: its start
(399-408), the three branches of its scan (413-415, 416-428, 429-432), and what
follows the scan (436-460). `RunDeferred` includes the recursive call of
`process_deferred_queue`, which `deferred_top_` makes a no-op, and `ClearDeferred` is
`clear_deferred_events` called between events or from a handler.

### PriorityQueue

An element of a `std::priority_queue` of equal rank to the top may come out before it,
so a queue is a set of numbered events and `Tops` the ones that may be at its top. The
intake is reduced to one step per operation (`Direct`, `Enqueue`, `TakeTop`,
`SwapQueue`, `RunQueued`, `LastLook`, `ClearTop`, lines 541-557, 612-654); an `Enqueue` may happen
at any time. Only one pair of accesses is kept apart, because the order of events hangs on it: the fast
path reads `queue_size_` and takes `is_top_` (546) at two moments, so `Direct` needs a free flag and not an
empty queue, as the call may have read the counter at any earlier moment when it was 0. The read changes nothing,
so it is no action: `lastEmpty` notes the last such moment, and `e.after` how many events had come when
the place of `e` was settled, by that read or by its push. What a guard may refuse is refused (`Refuses`,
589-610), as in `DeferredQueue`. There are no exceptions here: they leave `is_top_` set, as those of
`EventQueue` do. `frames` holds one record per activation of `process_deferred_queue`
(667-697), which every transition calls, also one of a deferred event: `RunDeferred` is
an iteration of its inner loop, `Rescan` the swap after an event that changed the
state, `Return` the end, which goes back into the dispatch that called it.

### StateTree

The source is a recursion of template calls. The model makes it one machine with a
stack, `todo`, of what is left to do in the calls in progress. Each action does the
head of that stack, so that a handler that throws can do so between any two steps.
The hierarchy and the tables are constants, in the order in which the definition
lists them, for the rows of a state are tried in that order.

| Action | Code (`detail/`) |
|---|---|
| `Receive` | the outermost machine takes a posted or a new event |
| `Dispatch` | `process_event` and its static selection, `base_states.hpp:459-490` and `797-830`, `fsm.hpp:69-105` |
| `NextRegion` | `invoke_nth::process_event`, `orthogonal_regions.hpp:49-55` |
| `TestRow`, `NoMoreRows` | `nth_transition` and the guard in `transit_state_impl`, `transitions.hpp:242-284, 587` |
| `TestInternalRow` | `guarded_action_invocation` and `in_state_action_invocation`, `actions.hpp:255-403` |
| `Settle`, `CheckDefault`, `GiveAnswer` | what `process_event` does after `process`, `transitions.hpp:519-530` |
| `ExitOrEnter` | `state_exit_impl`, `state_enter_impl`, `enter`, `exit`, `transitions.hpp:127-180, 531-549` |
| `ClearSource`, `CompleteTransition` | `state_clear` and the end of `transit_state_impl`, `transitions.hpp:188-210, 597-601` |
| `RunHandler` | the user's code of an action, an `on_exit` or an `on_enter` |
| `HandlerThrows`, `GuardThrows`, `Catch`, `Escape`, `LeaveTry` | exceptions and the three guarantees, `transitions.hpp:605-654` |

A handler may write the data of states (`dirty`: differs from a newly made state),
change the facts guards look at, post events, and throw. Posted events run after the
current one, which is what the intake makes of nested calls (`EventQueue`). The tree
itself is `current` (every machine's `current_state_`) and `dirty`. Clearing a state
acts on everything below it. A backup (`Try`) is what the copy constructors make: of a
machine its own data and none of its inner states, so `Restore` puts back `dirty` of
source and target and makes all that is below them new. `entered`, `start`,
`committed` and `undone` are history variables.

`TreeAssumption`, `TableAssumption` and `HandlerAssumption` say what hierarchies, tables
and handlers there are: a tree of machines, regions and plain states that are all inside the outermost
machine, rows that join states of their own machine, handlers that post events. `Up` is the least
set of ancestors closed under `Parent`; `RecursiveHandled` is what `definition.hpp:331-378` collects, and `Handled`
what the static selection goes by, from which the internal transitions of a machine with regions are missing
(`base_states.hpp:669`), but not for the machines around it; `EnteredWith` is stated by what is between two
states; none of them is a recursive operator, so the module can be proved about.

The instances keep to what the library compiles: a state that is cleared or
backed up holds no machine nested deeper than one level, because the move constructor
of `inner_state_machine` that would be needed moves its base with a deleted constructor.

### VendingMachine

`facts` of `StateTree` is the data of `vending_def` and the balance of `serving::active`;
an event is a record with the data it carries. `Holds` has the guards and their
combinations, `VendHandler` and `VendPosts` the actions and the entry handlers, each
for the type of event it is declared for. The machine may be made with any goods, also such
without a price (`unpriced`), since its constructors (250-253) check nothing. `active::on_exit` is not among them, see
section 5. `add_balance` and `clear_balance` are called by nothing.

### Definitions and Pushdown

`Definitions` computes from the tree `ContainsSubstate`, `StatePath`,
`ContainsPushdowns`, `ContainsPopups`, `StatePushes`, `StatePops` and
`HasPushdownStack`, as recursive functions where the templates recurse, and `IsInState` from
the kind of containment. `Toward` is the state that `machine_state_path` finds on the way down.
`DefinitionAssumption` says what the compiler sees to: a definition is finite, and a push or a pop
is a simple state and not both. `NestingAssumption` says that no state is inside itself,
since a type is complete where it is a member. What `test/pushdown_tests.cpp:204-263` asserts of the JSON
parser at compile time is an assumption of `MCPushdown`, which TLC evaluates.

In `Pushdown` a dispatch is one step, since nothing throws there: the transition goes
exit, action, entry, clear, new current state, and the entry of a push or pop state
changes the stack in between. After a pop the rest of the transition works on a frame
that is destroyed; that is undefined, and the model loses those writes, as the builds of
the tests do. There is one region, no history and no default transition in a frame:
`StateTree` has those.

## 3. The runs

| Run | Instance | What it shows |
|---|---|---|
| `intake_safety` | 3 threads, nesting 2, 4 events, any push may fail | mutual exclusion of dispatches, the counter, nothing lost, no overtaking, no lost wakeup, refinement of `SerialQueue` |
| `intake_live` | 2 threads, nesting 2, 3 events, one throws, the push of one may fail | accepted events are handled; calls return, nested ones always |
| `intake_throw_ready` | 2 threads, 3 events, one throws | **violated**: after an exception `is_top_` stays set |
| `intake_throw_loses` | 2 threads, nesting 2, 3 events, one throws | **violated**: the rest of the batch is destroyed |
| `deferral_scans` | the connection machine of `test/transaction_fsm.cpp`, and a machine whose scans postpone, re-defer and restart; 6 events | nothing runnable is left deferred, events are conserved, the cache of types is exact, order is kept within a type, the scan ends |
| `priority_nested` | the transaction of `test/transaction_priority_fsm.cpp` without its errors and its end, and a machine whose scans nest; 4 events, 2 priorities | the deferred events are handled by urgency although they are spread over nested activations; the fast path overtakes only what was queued after its look at the queue; none is lost; the machine comes to rest |
| `pushdown_json` | the JSON parser of `test/pushdown_tests.cpp`, all texts of up to 10 tokens | it accepts exactly the beginnings of JSON values; lower frames wait unchanged; entries and exits are balanced; `is_in_state` names only active states |
| `vending_shop` | `examples/vending_machine.hpp`, 2 products, 3 units of money, 2 items | a shop that was opened has prices and goods, each item takes a coin of its own, history is kept over a power cycle |
| `vending_credit` | the same | **violated**: a sale does not subtract the price from the customer's credit |
| `tree_regions` | `test/orthogonal_states_test.cpp` extended: 2 regions, deferral, internal transitions, a self-transition, default transitions; strong inner machines in a nothrow one, everything may throw | entries and exits match the configuration and come in order; answers tell what happened; inactive states are as new; a failed transition leaves nothing half-way |
| `tree_strong_modifies` | 2 levels, both strong, every handler and guard may throw | **violated**: the machine that was to be left is back in its initial state |
| `tree_nothrow_rejects` | the same, both nothrow | **violated**: the event may be processed by another row |

Bounds. The `tree_` runs have none: the tree, the facts and the stack are finite,
and any number of events is received, one after the other. Only the instances are
small; they are chosen so that an exit, an action, an entry, a clear and a default
transition happen at two levels in one event. The vending machine adds `MaxMoney` and
`MaxCount`, without which its counters have no end; it is made empty, with goods, or with goods that have no price; three units of money pay for
either product, in one coin or several. Ten tokens of JSON (`MaxTokens`) are enough for an array
in an object in an array.

In the runs of the intake, `Events` is the number of calls: four calls by three threads
suffice for one call to drain, one to run on the fast path, one to push around the drainer's
clear and one to be nested in a handler. `MaxDepth = 2` is enough because a nested call never
dispatches (`OneDispatcher`, proved for every depth), so nothing nests inside it.
Six events (`MaxEvents`) fill the list of `deferral_scans` with two types, change the state and scan
twice; four fill that of `priority_nested` and nest three activations.

Fairness. `intake_live` assumes weak fairness for each activation's own steps: a thread
that is inside a call is scheduled and handlers return. It does not assume that
anybody calls `process_event`, nor that anything throws. Weak fairness is enough for `mutex_` only because a run
has finitely many events; for an endless supply a drainer may never return, which
`CallsReturn` does not contradict. `deferral_scans` and `priority_nested` assume that
the loops of the thread inside run on. The other runs have no liveness property and assume no fairness.

Each property of a passing run is broken by a mutant of the model (the operators
commented "Mutant"), so that none of them holds by construction.

Deadlock is checked everywhere: `Terminated`, `Exhausted` (the bound is reached) and,
after an exception has left a state tree, `Stuck` are the only ways to stop.

## 4. The proofs

`EventQueue_proofs` proves, for any sets of threads and events and any depth:

* `IntakeInvariant`: `IntakeInv` is inductive. It adds to `OneDispatcher` that the flag
  is set while somebody is in the region (`FlagHeld`: without it `TakeTop` could add a
  second one), who holds the mutex (`MutexHeld`), and by how much the counter is ahead of
  the queue in the middle of a critical section (`SizeAccounted`: without it the counter
  could go below zero at `SubtractSize`), and that calls that need an event have one
  (`EventHeld`).
* from it `TypeCorrect`, `RunToCompletion` (`OneDispatcher`) and `QueueSizeCorrect`
  (`QueueSizeExact`), all with handlers that may throw;
* `NoEventForgotten` (`NoLostWakeup`), assuming `Throwing = {}`: the invariant `WakeupInv`
  says that the flag is set only while somebody is in the region, and that as long as
  an event is queued some call is in the region or at one of the two tests of the outer
  loop. It speaks of the queue and not of the counter, which after a push that threw is
  positive with nobody about. The proof fails, as it should, if `ClearDrain` or
  `ClearDirect` does not go back to that loop.

Its second part proves, on top of `IntakeInv`:

* `OrderInvariant`: `OrderInv` is inductive. It says where each accepted event is (pushed but
  not yet swapped, in a batch, or dispatched), that these places share nothing, and that the
  batch and the queue are each in an order the callers can rely on. What makes `NoOvertaking`
  go through is `NothingAhead`: a call that found the counter zero and is about to try the flag
  has nothing in the queue that was accepted before it began, although the queue may have been
  filled in between.
* from it `NoOvertaking` (`AcceptedOrder`), also when handlers and pushes throw;
* `NoEventLost` (`NothingLost`), assuming `Throwing = {}`;
* `Refinement` (`ImplementsSerialQueue`), assuming `Throwing = {}`: initial states map to
  initial states, `NextRefines` shows for each action which step of `SerialQueue` it is, or that
  it is none. The assumption is needed: run `intake_throw_loses` shows a batch destroyed.

Assumptions on the constants of the intake: `MaxDepth` is positive, `NoEvent` and `NoActor` are not
members of the sets, `Throwing` and `Uncopyable` are subsets of `Events`.

`PriorityQueue_proofs` proves, for any states, types, tables, priorities and number of events:

* `ScanInvariant`: `ScanInv` is inductive. Beside the types it says that a batch is there
  only while the thread drains (`BatchDrains`), that nothing an outer activation
  still holds is more urgent than what an inner one or the store holds (`ScansNest`), and
  that every event in the store is one the current state defers (`DeferredNow`): it was
  deferred since the last transition, because every transition takes the store out.
  The steps that need work are a deferred event that changes the state, which opens a new
  activation over what the store holds, and `Rescan` and `Return`, which hand what an activation
  holds to its next scan or to its caller.
* from it `TypeCorrect`, `ActivationsNest` (`ScansNest`), `NothingLeftToRun`
  (`NoRunnableEventLeft`, from `DeferredNow`) and the action property `MostUrgentFirst`
  (`UrgentFirst`): a handled event is at the top of the innermost queue, so nothing
  there is more urgent, nothing in the outer ones is (`ScansNest`), and what is in the
  store is deferrable.
* `EventInvariant`: `EventInv`, relative to `ScanInv`, is inductive. `PlacesInv` says that the store,
  the frames and the two ends an event can come to share nothing and make up what was
  dispatched; `ArrivalInv` that events are numbered as they come and each is dispatched for the
  first time once; `UrgencyInv` that nothing that waits in the intake should have gone before what
  was dispatched. What waits in the queue came after the queue was last empty, and a direct dispatch
  goes by a look at the queue that was no later than that: it may overtake what was queued since,
  whatever its urgency, and nothing else. This holds of the two accesses of line 546 at any distance.
* from it `EachEventInOnePlace` (`EventsConserved`) and `EarlierAndMoreUrgentFirst` (`NotOvertaken`).

`DeferredQueue_proofs` proves, for any tables and number of events:

* `ListInvariant`: `ListInv` is inductive. Beside the types and `IdsMatchEvents` it says that
  the caches are those of the current state (`CachesFresh`), that what a scan has put back since
  the last change of state is deferrable if it is handled (`ReturnedDeferrable`), and
  `NoRunnableEventLeft`. A scan that ends without a change of state ends with what it put
  back; one that changed it ends only if `skip_deferred_queue` finds nothing to run, and
  `IdsMatchEvents` makes its answer true.
* from it `TypeCorrect`, `SkipIsSound` (`IdsMatchEvents`) and `NothingLeftToRun`
  (`NoRunnableEventLeft`).
* `PlacesInvariant`: `PlacesInv` is inductive. The executed events of a scan, the events put
  back and the rest of the local list are three lists in order of arrival, each before the next, with
  nothing in two of them and, together with what was removed, nothing missing.
  `EndScan`, which splices the lists together again, is the step that needs this.
* from it `EachEventOnce` (`EventsConserved`) and `SteadyInOrder` (`HandledInOrder`).

Assumptions of `PriorityQueue_proofs` and `DeferredQueue_proofs`: the tables are functions on
`States` and `Types`; priorities are integers.

`StateTree_proofs` proves, for any tree of machines and regions, of any depth, any tables, guards and
handlers, with exceptions at any step:

* `StackInvariant`: `TypeOK /\ StackInv` is inductive. `TypeOK` types each kind of
  entry of the stack (`Frame`), and so says that no handler is called and no row read that is not
  there. It is not inductive by itself: `LeaveTry` and `Restore` need to know what they
  find behind them, a row that was chosen must still be a row of the state the machine is in, and
  an answer is passed up through frames that have no access to what it is an answer to. So
  `StackInv` relates each entry to the event being dispatched and to the states in
  which that event found the hierarchy (`start`):
    * `Fits`: dispatch goes only where the hierarchy was active then; a transition is made for the
      event, or is a default transition, and then the event is one that was handled (`Due`);
      answers kept by regions and on the stack are ones that were published (`Promised`);
    * `Confined`: what an entry may still change (`Scope`) is disjoint from what the
      entries below it rely on being unchanged (`Relies`), so that the next region, and the row of an
      outer machine that is tried when the inner one refused, still meet the states they were
      selected from;
    * `Guarded`: the last step of a transition is directly above its `try`, and until it is made the
      machine has not moved.

  There is one lemma per action, and before them lemmas on the tree (`Up`, `Below`, `Active`), on
  frames and on what pushing and popping do to each conjunct.
* from it `TypeCorrect` (`TypeOK`) and `AnswersPublished` (`AnswersAsPublished`);
* `HistoryKeptUnlessRolledBack`: a step changes the current state of a machine all of whose ancestors
  have history only by a row out of that state, for the event or by default, unless an exception is on its
  way. `HistoryIsKept` (`HistoryKept`) follows if `Throwing = {}`. The assumption is needed: a
  rollback makes the inner states of what it restores anew, whatever has history (section 5).

Its second part proves, on top of `StackInv`:

* `ToldInvariant`: `ToldInv` is inductive. In the middle of a call a machine has moved and the answer there is
  may be anything, so the invariant is about the calls that are left. Whatever has moved (`Lost`), a
  later call says `process`, or the answer there is does and the next call does not forget it (`Answered`);
  no call that begins with another answer stands after the last one that tells (`ToldLater`). For
  exceptions it adds that a machine which has moved is reset by the `try` that catches them, or is told of by
  a call behind that `try` (`ToldOutside`), and that until its last step a transition moves nothing
  but what its rollback resets (`Sheltered`).
  All steps but `Catch` and `Receive` replace the first call by others; `Put` is that replacement, and the
  lemmas say what it keeps of each conjunct.
* from it `MovesTold`: unless the answer is `process`, no machine has moved, but for those a rollback has reset;
  this is the part of `AnswerIsTrue` about current states, also when handlers throw.
* `SaidInvariant`: `SaidInv` is inductive. It says the same of data: until something is rolled back, every
  call in which a handler may write has a call after it that answers `in_state` or `process`. The answer of a
  handler that has written, unlike a move, may not be overwritten by a refusal either, and it is not:
  an answer of those kinds is on the stack only when no dispatch is.
* from it `RefusedLeavesNoTrace`: an event that was refused or deferred, with nothing rolled back, has
  left all data as it was; and `AnswerTrue` (`AnswerIsTrue`), assuming `Throwing = {}`. With exceptions
  `AnswerIsTrue` is not so of every table: a rollback does not restore the data of a
  machine further out that was making a transition.

`StateTree_entry_proofs` proves, on top of `StackInv`:

* `EntryInvariant`: `EntryInv` is inductive. While an event is on its way through the hierarchy neither the
  entries nor the current states say where the machine is, so the invariant gives the calls that are left
  their part:
    * `Ruled`: a state that a call will leave has been entered; one that a call will only enter has not; of the
      others those have been entered that the machine around them holds, or will hold when its transition
      is complete (`Slot`), provided that machine is entered and is not about to call its `on_exit`;
    * `Fresh`: a machine that is not entered is in its initial state, or will be cleared;
    * `Accountable`: each call that is left can be made where the machine is: it is left with the machine
      around it or in a transition of that (`Left`), and is cleared afterwards; it is entered as the target
      of a transition or as the state in which a machine begins (`Joined`); its inner states follow
      (`Prepared`), and with a region the other regions (`Following`);
    * `Apart`: in which order the calls come: exits first, nothing inside a state after the call that is about
      to enter or leave it (`Nested`), regions one after the other (`InOrder`), nothing entered after the last
      step of a transition (`Ending`). `BeforeClear` is about the one case in which a state is entered and
      then cleared, a transition of a state to itself: all that was entered in it by then is in its
      initial state, for default transitions are excepted by `Stale`.

  The clauses need one another. An exit keeps `Ruled` only if the state is in its machine's slot (`Left`); that
  the slot is held by one state at most needs `Confined` of `StackInv`; that clearing a machine does not
  clear what has just been entered in it needs `BeforeClear`.
* from it `EntriesMatchStates` (`EntriesMatch`): with no calls left, `Ruled` says of every state that it is
  entered if and only if the one around it is and it is current there; the states that are wrong would be a
  set closed under `Parent`, and would include the outermost machine;
* and `EntriesInOrder` (`EntryOrder`): what `EntryInv` says just before an `on_enter` or `on_exit` is called.
* `DataInvariant`: `DataInv` is inductive, relative to `EntryInv`. Handlers write while their transition is
  under way: an action after its source was left and before its target is entered, an `on_exit` when its
  state counts as left. So of data that has been changed the invariant says (`Claimed`) that its state is
  entered, or will be, or will be cleared. For this
    * each call has the states around it entered, or to be entered before it (`Housed`);
    * an action is followed by the entry of its target and the clearing of its source (`Completed`);
    * no action or internal handler of a state is still to be called behind an entry, an exit or a dispatch that
      reaches the state (`InTurns`).

  Who calls `clear` matters as well: a transition clears its source after its target was entered, and the one
  case where these are the same state clears data that `on_enter` has just written.
* from it `InactiveIsNew`: between two events, until something throws, whatever is not active is as new, its
  data and its current state, but for what is in machines that are `Stale` (those with history, and those
  that a self-transition enters before it clears them, if they have default transitions);
* and `InactiveIsForgotten` (`ForgottenUnlessHistory`), assuming that nothing throws and that neither
  machines nor regions are `Stale`.

  Hypothesis of the three (`WritesInPlace`): a handler changes data only of its state and of the machines around
  it, an action also of the two states of its row; these are the objects that it is called with, and those
  that its machine is in. The code does not enforce it: `get_state` of a machine is public
  (`base_states.hpp:380-419`), so a handler may reach into a state that is inactive, change its data, and the
  state is then entered as it was left there.

`VendingMachine_proofs` proves, for any products, prices, stocks, coins and secrets, and without bounds
on money or goods:

* `SaleInvariant`: `SaleInv` is inductive. Between the guard of a sale and its action there are only exits
  on the stack (`Agreed`), so price and credit are still those that the guard has compared; and a price is set
  only for an event that has one (`Carried`), without which the data would not stay numbers.
* `CoinInvariant`: `CoinInv` is inductive, relative to `SaleInv`. The credit that the guard of a sale looks at
  is never reduced, so what keeps a customer from buying on one coin is where `serving` is: a way into
  `active` stands on the stack only behind the entry handler that takes a coin, or when one was taken since the last
  sale (`Funded`), and a sale only before the way out of it (`Spends`). `serving` keeps its state while the
  machine is off or in maintenance, so this has to hold of `active` there too.
* from it `CoinBeforeEachItem` (`CoinForEachItem`). The coin need not cover the price: section 5;
* `PriceInvariant`: `PriceInv` is inductive. The guard that looks at the prices is asked when maintenance is
  left; that later no product without one is on sale needs to know where the calls in progress
  can be. Loading and pricing happen only when the event met `on` in maintenance and
  `on` has still to be asked (`InPlace`); a change of `on` that is on its way has the prices it needs, or
  the machine is empty and the default transition that closes it comes next (`Allowed`); and as
  long as an empty machine stands open that transition is being made (`Tended`, `Closing`).
  Goods that the machine was made with need no price until some are loaded or priced (`Priced`).
* from it `PricesWhenServing` (`PricedWhenServing`);
* `PendInvariant`: `PendInv` is inductive, relative to `PriceInv` and `SaleInv`. Goods are sold and loaded two
  levels below `on`, whose default transition has to follow, and whether `on` looks for one is decided by an
  answer that passes up through the calls in between:
    * `Awaited`: as long as a default transition is due (`PendAt`), `on` is looking for it or making it, or a
      call that is left answers `process`, and none before `on` decides (`Settles`) replaces that answer
      (`ToldBefore`); or the machine is off, and `on` looks when it is turned on (`PowersOn`);
    * `Kept`: what `on` is about to enter has no default transition that is due, or `on` looks once more;
    * `Sold`: a sale or a delivery that is still to be made has a call after it in which `on` decides, and its
      own answer gets there.
* from it `ClosedWhenEmpty` (`NothingPending`): of a table of which only `on` has default transitions, and
  no two of them can be due one after the other;
* `PowerCycleKeepsHistory` (`HistoryKept`), an instance of `HistoryIsKept`.

`Pushdown_proofs` proves, for any definition of a machine with a stack, however deep its states nest, and
any tables, guards and handlers:

* first, that the recursions have solutions and what they are. `ContainsSubstate`, `StatePath`,
  `IsInState` and the active states of a frame (`Chain`) recurse over the definition. Their theorems are
  by `NestingAssumption`, which is stated of sets of states and so needs no induction over data: what holds of
  a machine whenever it holds of its states holds of all.
* `PushInvariant`: `PushInv` is inductive. In every frame each machine is in one of its own states
  (`FrameOK`); machines that are not active are as new (`AsNew`), without which a transition
  could enter below its target something else than the initial states that it counts as entered and whose
  push or pop it makes; and the innermost state of each frame but the topmost is a push (`Waits`).
  A transition that pushes ends in a frame that is by then not the topmost: that its new current
  state leads to the push state again, although its source has been cleared in between, is the step
  that needs `AsNew`, and that a machine lies in one place of the tree (`StackAssumption`).
* from it `TypeCorrect` (`TypeOK`) and `FramesWait` (`LowerFramesWait`);
* `InStateTellsActive` (`InStateIsActive`): `is_in_state` goes down by kinds of containment and asks each level,
  `StatePath` goes down by the first state that contains the one looked for; they agree as states of
  different machines are different;
* `EntriesBalance` (`ExitsBalance`): `BalanceInv` is inductive, relative to `PushInv`. It is a sum over the
  states of the region. A transition in the region takes one from its source and gives one to
  its target, one further down does not change the sum, a push adds the initial state of the new
  frame, and a pop takes the source of its transition a second time (`SumChanged`).

Hypotheses: handlers do not add or remove data members (`HandlersKeepMembers`), and, for `EntriesBalance` only,
no transition of the region leaves a pop state (`FinalStatesStay`): the last frame is not popped, so it can
stay in one, and would leave it by such a row.

Assumptions about `StateTree` and the vending machine: `TreeAssumption`, `TableAssumption` and `HandlerAssumption`, which describe the trees and tables
a definition can be; no region is listed twice. Nothing is assumed of guards. Those about the vending machine
also use `MachineAssumption` and `VendingAssumption` (amounts and prices are integers, coins are positive; the
goods a machine is made with may be any), and `Programmed`: guards and handlers, which are
operators in `StateTree`, are those of the vending machine.

Model-checked only, and why:

* the liveness properties: fairness and `ENABLED` are out of the prover's reach;
* of `StateTree`: `RolledBack`, which is not so for every table: after a rollback a later row with the same
  target may succeed. `ForgottenUnlessHistory` is proved for handlers that do not throw and hierarchies
  without `Stale` machines or regions; it is checked where handlers throw. With such machines it
  is not so for every table: a machine with history that is entered again starts its default transition from
  the state it was left in, so what is below may be left untidy.
  `AnswerIsTrue` is proved for handlers that do not throw, and checked with those that do;
* `MoneyAccounted` of the vending machine, which is violated;
* of `Pushdown`: `PostedIsTaken`, `AcceptsJson` and `EndsWithValue`. The first depends on the tables:
  what an action posts has to be accepted by the frame below. The others are about one table, that of
  the parser, and compare it with a grammar that is defined by recursion over texts, so they need
  induction over data.

## 5. Where the code and its texts disagree

* An exception that leaves `process_event` leaves `is_top_` set (`fsm.hpp:238-239`, and
  375-379 for queued events): from then on every call queues its event and answers
  `defer`. `exception_safety_guarantees.hpp:18-19` says that nothing happens on an
  exception caused by a guard check (run `intake_throw_ready`).
* The same exception out of a queued event destroys the events behind it in the local
  batch, whose callers were told `defer`, "either processed or deferred for later
  processing" (`actions.hpp:56`; run `intake_throw_loses`).
* The strong guarantee takes a copy of source and target (`transitions.hpp:616-617`) and
  swaps it back. The copy of an inner machine is made by the variadic constructor of
  `state_machine_base` (`base_states.hpp:980-983`), which is a better match than the copying
  one: it copies the data of the machine and makes its inner states anew. So after an
  exception a machine that was to be left is in its initial state, where
  `exception_safety_guarantees.hpp:28` says "nothing will be modified" (run
  `tree_strong_modifies`). `RolledBack` is what does hold.
* Under the nothrow guarantee a transition that threw answers `refuse`, and the next row
  or an outer machine may process the event; lines 34-37 of the same file say that it
  "will be rejected" (run `tree_nothrow_rejects`).
* `active::on_exit` of the vending machine takes an `events::select_item&&`, and
  `has_on_exit` (`transitions.hpp:62-77`) finds no handler that takes a constant reference;
  so none is called, and what `vending_machine.hpp:198` announces as "Subtract balance" never
  happens: the credit is all the money that was ever put in, and the guard of a sale compares the price
  with that. A customer who puts in 1 and buys for 1, and again puts in 1, may buy for 2 (run `vending_credit`).
  `CoinForEachItem` is what remains: each item takes a coin of some value.

Five more behaviours contradict no text, and a user would want to know them:

* A machine with history that is entered again runs the entry handler of its *initial*
  state, while `current_state_` still names the state it was left in
  (`transitions.hpp:531-541`). `EntriesMatch` and `EntryOrder` leave out what is below
  such machines (`Stale`, `Tracked`).
* A transition of a machine to itself enters it before clearing it (594-597): its default
  transition is looked up from the state it was left in, made, and then wiped out.
* If the copy of an event throws in `enqueue_event` (`fsm.hpp:346-349`), `queue_size_` stays one
  ahead of the queue: no event is lost and no two handlers overlap, but the next call
  that drains never returns. `CallsReturn` excepts this.
* The constructors of the vending machine ask no prices of the goods they are given: a machine that is made
  with goods and turned on sells them for the coin that opens `active` and adds nothing to its
  balance, until its goods are loaded or priced. `PricedWhenServing` excepts this.
* One default transition per level follows a transition; a chain of them waits for
  further events. `NothingPending` is a property of tables without such chains, like
  the vending machine's.

## 6. Plan

Done: intake, deferral, priority machine, state tree with regions and guarantees, vending
machine, definitions and stack; proofs about the intake with its refinement, the deferral, the
priority machine, the state tree, the vending machine and the stack. Next: `RolledBack` for tables in which no two
rows out of a state share a target, from an invariant that says what the backups on the stack are.

### Not modelled

* *Intake, deferral and state tree in one machine.* They meet in one call, which the
  intake runs in mutual exclusion (`OneDispatcher`, proved), so each is modelled
  with the others opaque; their product is beyond TLC at sizes where anything happens.
* *`clear_deferred_events` from a second thread*: a data race on a list and a set, with
  no set of outcomes to choose from. From inside the machine it is `ClearDeferred`.
* *An exception out of a deferred event* in the middle of a scan: it leaves `is_top_` set as
  well, after which no event is handled.
* *Exceptions in the priority machine*: as in `EventQueue`, they leave `is_top_` set.
* *The observer*: notifications, `noexcept`, without state. One that calls back into the
  machine from `enqueue_event` locks `mutex_` twice, which is undefined for a `std::mutex`.
* *Copies and moves of machines* other than the backups: a pointer to the machine that is stale
  afterwards has no outcome to enumerate. Copies of a transition stack likewise.
* *Moved-from events*: what a handler that takes its event by value leaves behind is unspecified.
* *Compile-time checks* (duplicate rows, unhandled events), the text the observers print, the
  demangling of names, `common_base` casts, lock and size type selection.

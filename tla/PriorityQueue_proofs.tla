------------------------- MODULE PriorityQueue_proofs -------------------------
(***************************************************************************)
(* Proofs about PriorityQueue, for any tables, priorities and number of    *)
(* events.  Two invariants carry them.                                     *)
(*                                                                         *)
(* ScanInv: a transition empties the store of deferred events into a new   *)
(* activation, so what is in the store later was deferred in the current   *)
(* state, and was tried by a scan before everything which that scan still  *)
(* holds.                                                                  *)
(*                                                                         *)
(* EventInv: what has been dispatched is in the store, under one           *)
(* activation, handled or refused, however the activations hand events to  *)
(* each other; and what waits for its first dispatch has no claim to be    *)
(* before what has been dispatched: the batch is older than the queue and  *)
(* gives up its most urgent event first, and whatever is queued came after *)
(* every call that may still go directly had found the queue empty.        *)
(***************************************************************************)
EXTENDS PriorityQueue, SequenceFacts, FiniteSetTheorems

\* A new activation takes what is in the store.
LEMMA PushedFrame ==
  ASSUME NEW fs \in Seq(Frame), NEW g \in Frame, Nested(g.deferred, fs)
  PROVE  Append(fs, g) \in Seq(Frame) /\ Nested({}, Append(fs, g))
<1>1. /\ Append(fs, g) \in Seq(Frame)
      /\ DOMAIN Append(fs, g) = 1..(Len(fs) + 1)
      /\ \A i \in 1..Len(fs) : Append(fs, g)[i] = fs[i]
      /\ Append(fs, g)[Len(fs) + 1] = g
  OBVIOUS
<1>2. Nested({}, Append(fs, g))
  BY <1>1 DEF Nested, NoMoreUrgent
<1>3. QED
  BY <1>1, <1>2

\* The innermost activation and the store are replaced.
LEMMA ReplacedFrame ==
  ASSUME NEW fs \in Seq(Frame), fs # <<>>, NEW f \in Frame, NEW store, NEW kept,
         Nested(store, fs), NoMoreUrgent(f.deferred, kept),
         \A i \in 1..(Len(fs) - 1) : /\ NoMoreUrgent(fs[i].deferred, f.deferred)
                                     /\ NoMoreUrgent(fs[i].deferred, kept)
  PROVE  SetCurrent(fs, f) \in Seq(Frame) /\ Nested(kept, SetCurrent(fs, f))
<1> DEFINE gs == SetCurrent(fs, f)
<1>1. /\ gs \in Seq(Frame) /\ DOMAIN gs = 1..Len(fs)
      /\ \A i \in 1..(Len(fs) - 1) : gs[i] = fs[i]
      /\ gs[Len(fs)] = f
  BY DEF SetCurrent
<1>2. Len(fs) \in Nat /\ DOMAIN fs = 1..Len(fs)
  OBVIOUS
<1> HIDE DEF gs
<1>3. Nested(kept, gs)
  BY <1>1, <1>2 DEF Nested
<1>4. QED
  BY <1>1, <1>3 DEF gs

\* The innermost activation has returned.
LEMMA PoppedFrame ==
  ASSUME NEW fs \in Seq(Frame), fs # <<>>
  PROVE  /\ SubSeq(fs, 1, Len(fs) - 1) \in Seq(Frame)
         /\ Len(SubSeq(fs, 1, Len(fs) - 1)) = Len(fs) - 1
         /\ \A i \in 1..(Len(fs) - 1) : SubSeq(fs, 1, Len(fs) - 1)[i] = fs[i]
<1> DEFINE gs == SubSeq(fs, 1, Len(fs) - 1)
<1>1. Len(fs) \in Nat /\ Len(fs) > 0
  OBVIOUS
<1>2. Len(gs) = Len(fs) - 1
  <2>1. \A i \in 1..(Len(fs) - 1) : fs[i] \in Frame
    OBVIOUS
  <2>2. CASE Len(fs) = 1
    BY <2>2, SubSeqEmpty
  <2>3. CASE Len(fs) > 1
    <3>1. Len(gs) = Len(fs) - 1 - 1 + 1
      BY <1>1, <2>1, <2>3, SubSeqProperties
    <3>2. Len(fs) - 1 - 1 + 1 = Len(fs) - 1
      BY <1>1
    <3>3. QED
      BY <3>1, <3>2, Zenon
  <2>4. Len(fs) = 1 \/ Len(fs) > 1
    BY <1>1
  <2>5. QED
    BY <2>2, <2>3, <2>4, Zenon
<1>3. \A i \in 1..(Len(fs) - 1) : gs[i] = fs[i]
  BY <1>1
<1>4. gs \in Seq(Frame)
  BY <1>1
<1>5. QED
  BY <1>2, <1>3, <1>4

\* What is at the top of a queue is no less urgent than the rest.
LEMMA TopIsUrgent ==
  ASSUME NEW events, NEW e \in Tops(events)
  PROVE  e \in events /\ NoMoreUrgent(events, {e})
  BY DEF Tops, NoMoreUrgent

\* The parts of the invariant that a dispatch and a scan change.
Scans ==
    /\ state \in States
    /\ frames \in Seq(Frame)
    /\ deferred \subseteq Event
    /\ executed \subseteq Event
    /\ removed \subseteq Event
    /\ ScansNest
    /\ DeferredNow

LEMMA InvScans == ScanInv => Scans
  BY DEF ScanInv, TypeOK, Scans

\* A transition begins an activation.
LEMMA ProcessedScans ==
  ASSUME Scans, NEW e \in Event, NEW fs \in Seq(Frame), Nested(deferred, fs),
         Processes(e, fs)
  PROVE  Scans'
<1> DEFINE g == [deferred |-> deferred, running |-> Nothing, res |-> FALSE]
<1>1. g \in Frame /\ g.deferred = deferred
  BY DEF Frame, Scans
<1>2. frames' = Append(fs, g) /\ deferred' = {}
  BY DEF Processes
<1> HIDE DEF g
<1>3. frames' \in Seq(Frame) /\ Nested({}, frames')
  BY <1>1, <1>2, PushedFrame
<1>4. state' \in States /\ executed' \subseteq Event /\ removed' \subseteq Event
  BY TablesAssumption DEF Processes, Scans, Event
<1>5. QED
  BY <1>2, <1>3, <1>4 DEF Scans, ScansNest, DeferredNow

\* An event that makes no transition may join the store.
LEMMA StayedStore ==
  ASSUME Scans, NEW e \in Event, Stays(e)
  PROVE  /\ state' = state
         /\ deferred' \subseteq deferred \cup {e}
         /\ deferred' \subseteq Event
         /\ executed' \subseteq Event
         /\ removed' \subseteq Event
         /\ DeferredNow'
  BY DEF Stays, HandlesInState, Defers, Refuses, Scans, DeferredNow

\* The first dispatch of an event finds no scan under way.
LEMMA DispatchedScans ==
  ASSUME Scans, NEW e \in Event, frames = <<>>, Dispatch(e)
  PROVE  Scans'
<1>1. CASE Processes(e, frames)
  BY <1>1, ProcessedScans DEF Scans, ScansNest
<1>2. CASE Stays(e) /\ UNCHANGED frames
  BY <1>2, StayedStore DEF Scans, ScansNest, Nested
<1>3. QED
  BY <1>1, <1>2 DEF Dispatch

LEMMA CurrentFrame ==
  ASSUME Scans, frames # <<>>
  PROVE  /\ Current \in Frame
         /\ NoMoreUrgent(Current.deferred, deferred)
         /\ \A i \in 1..(Len(frames) - 1) :
               /\ NoMoreUrgent(frames[i].deferred, Current.deferred)
               /\ NoMoreUrgent(frames[i].deferred, deferred)
<1>1. frames \in Seq(Frame) /\ Len(frames) \in Nat /\ Len(frames) > 0
  BY DEF Scans
<1>2. QED
  BY <1>1 DEF Current, Scans, ScansNest, Nested

LEMMA RunDeferredScans ==
  ASSUME Scans, RunDeferred
  PROVE  Scans'
<1>1. frames \in Seq(Frame) /\ frames # <<>> /\ Nested(deferred, frames)
  BY DEF RunDeferred, Scanning, Scans, ScansNest
<1>2. PICK e \in Tops(Current.deferred) :
         \/ Processes(e, SetCurrent(frames, [Current EXCEPT !.running = e]))
         \/ /\ Stays(e)
            /\ frames' = SetCurrent(frames, [Current EXCEPT !.deferred = Current.deferred \ {e}])
  BY DEF RunDeferred
<1>3. /\ Current \in Frame /\ e \in Current.deferred /\ e \in Event
      /\ NoMoreUrgent(Current.deferred, {e})
  BY <1>1, CurrentFrame, TopIsUrgent DEF Frame
<1>4. CASE Processes(e, SetCurrent(frames, [Current EXCEPT !.running = e]))
  <2> DEFINE f == [Current EXCEPT !.running = e]
  <2>1. f \in Frame /\ f.deferred = Current.deferred
    BY <1>3 DEF Frame
  <2> HIDE DEF f
  <2>2. SetCurrent(frames, f) \in Seq(Frame) /\ Nested(deferred, SetCurrent(frames, f))
    BY <1>1, <2>1, CurrentFrame, ReplacedFrame
  <2>3. QED
    BY <1>3, <1>4, <2>2, ProcessedScans DEF f
<1>5. CASE /\ Stays(e)
           /\ frames' = SetCurrent(frames, [Current EXCEPT !.deferred = Current.deferred \ {e}])
  <2> DEFINE f == [Current EXCEPT !.deferred = Current.deferred \ {e}]
  <2>1. f \in Frame /\ f.deferred = Current.deferred \ {e}
    BY <1>3 DEF Frame
  <2>2. frames' = SetCurrent(frames, f)
    BY <1>5
  <2> HIDE DEF f
  <2>3. /\ deferred' \subseteq deferred \cup {e}
        /\ state' \in States /\ deferred' \subseteq Event
        /\ executed' \subseteq Event /\ removed' \subseteq Event
        /\ DeferredNow'
    BY <1>3, <1>5, StayedStore DEF Scans
  <2>4. /\ NoMoreUrgent(f.deferred, deferred')
        /\ \A i \in 1..(Len(frames) - 1) : /\ NoMoreUrgent(frames[i].deferred, f.deferred)
                                           /\ NoMoreUrgent(frames[i].deferred, deferred')
    BY <1>1, <1>3, <2>1, <2>3, CurrentFrame DEF NoMoreUrgent
  <2>5. frames' \in Seq(Frame) /\ Nested(deferred', frames')
    BY <1>1, <2>1, <2>2, <2>4, ReplacedFrame
  <2>6. QED
    BY <2>3, <2>5 DEF Scans, ScansNest
<1>6. QED
  BY <1>2, <1>4, <1>5

LEMMA RescanScans ==
  ASSUME Scans, Rescan
  PROVE  Scans'
<1> DEFINE f == [deferred |-> deferred \cup Current.deferred, running |-> Nothing, res |-> FALSE]
<1>1. frames \in Seq(Frame) /\ frames # <<>> /\ Nested(deferred, frames)
  BY DEF Rescan, Scanning, Scans, ScansNest
<1>2. f \in Frame /\ f.deferred = deferred \cup Current.deferred
  BY <1>1, CurrentFrame DEF Frame, Scans
<1>3. frames' = SetCurrent(frames, f) /\ deferred' = {}
  BY DEF Rescan
<1> HIDE DEF f
<1>4. /\ NoMoreUrgent(f.deferred, {})
      /\ \A i \in 1..(Len(frames) - 1) : /\ NoMoreUrgent(frames[i].deferred, f.deferred)
                                         /\ NoMoreUrgent(frames[i].deferred, {})
  BY <1>1, <1>2, CurrentFrame DEF NoMoreUrgent
<1>5. frames' \in Seq(Frame) /\ Nested({}, frames')
  BY <1>1, <1>2, <1>3, <1>4, ReplacedFrame
<1>6. QED
  BY <1>3, <1>5 DEF Rescan, history, Scans, ScansNest, DeferredNow

LEMMA ReturnScans ==
  ASSUME Scans, Return
  PROVE  Scans'
<1> DEFINE rest == SubSeq(frames, 1, Len(frames) - 1)
           caller == rest[Len(rest)]
           f == [deferred |-> caller.deferred \ {caller.running},
                 running |-> Nothing, res |-> TRUE]
<1>1. frames \in Seq(Frame) /\ frames # <<>> /\ Nested(deferred, frames)
  BY DEF Return, Scanning, Scans, ScansNest
<1>2. /\ rest \in Seq(Frame) /\ Len(rest) = Len(frames) - 1
      /\ \A i \in 1..(Len(frames) - 1) : rest[i] = frames[i]
  BY <1>1, PoppedFrame
<1>3. frames' = IF rest = <<>> THEN rest ELSE SetCurrent(rest, f)
  BY DEF Return
<1>4. UNCHANGED <<state, deferred, history>>
  BY DEF Return
<1> HIDE DEF rest
<1>5. Nested(deferred, rest)
  <2>1. Len(frames) \in Nat /\ DOMAIN rest = 1..(Len(frames) - 1) /\ DOMAIN frames = 1..Len(frames)
    BY <1>1, <1>2
  <2>2. QED
    BY <1>1, <1>2, <2>1 DEF Nested
<1>6. frames' \in Seq(Frame) /\ Nested(deferred, frames')
  <2>1. CASE rest = <<>>
    BY <1>2, <1>3, <1>5, <2>1
  <2>2. CASE rest # <<>>
    <3>1. caller \in Frame /\ Len(rest) \in 1..Len(rest) /\ Len(rest) \in Nat
      BY <1>2, <2>2
    <3>2. f \in Frame /\ f.deferred \subseteq caller.deferred
      BY <3>1 DEF Frame
    <3> HIDE DEF f
    <3>3. /\ NoMoreUrgent(f.deferred, deferred)
          /\ \A i \in 1..(Len(rest) - 1) : /\ NoMoreUrgent(rest[i].deferred, f.deferred)
                                           /\ NoMoreUrgent(rest[i].deferred, deferred)
      BY <1>2, <1>5, <3>1, <3>2 DEF Nested, NoMoreUrgent
    <3>4. QED
      BY <1>2, <1>3, <1>5, <2>2, <3>2, <3>3, ReplacedFrame
  <2>3. QED
    BY <2>1, <2>2
<1>7. QED
  BY <1>4, <1>6 DEF Scans, ScansNest, DeferredNow, history

LEMMA ScanStep ==
  ASSUME ScanInv, Scan
  PROVE  ScanInv'
<1>1. Scans'
  BY InvScans, RunDeferredScans, RescanScans, ReturnScans DEF Scan
<1>2. /\ UNCHANGED <<intake, received, dispatched>>
      /\ frames # <<>>
  BY DEF Scan, RunDeferred, Rescan, Return, Scanning, history, intake
<1>3. QED
  BY <1>1, <1>2 DEF ScanInv, TypeOK, Scans, BatchDrains, intake

\* What process_event makes of its argument.
LEMMA ReceivedEvent ==
  ASSUME ScanInv, NEW t \in Types, NEW p \in Priorities, Receive(t, p)
  PROVE  \E e \in Event :
            /\ Direct(e) \/ Enqueue(e)
            /\ e.n = received + 1 /\ e.after <= received
            /\ received \in Nat
            /\ received + 1 \in 0..MaxEvents
            /\ 0..received \subseteq 0..(received + 1)
            /\ received \in 0..received /\ received + 1 \in 0..(received + 1)
<1>1. received \in Nat /\ MaxEvents \in Nat /\ received < MaxEvents
  BY BoundsAssumption DEF Receive, ScanInv, TypeOK
<1>2. PICK k \in 0..received :
         LET e == [type |-> t, priority |-> p, n |-> received + 1, after |-> k]
         IN  Direct(e) \/ Enqueue(e)
  BY DEF Receive
<1> DEFINE e == [type |-> t, priority |-> p, n |-> received + 1, after |-> k]
<1>3. Direct(e) \/ Enqueue(e)
  BY <1>2
<1>4. e \in Event /\ e.n = received + 1 /\ e.after = k
  BY <1>1 DEF Event
<1> HIDE DEF e
<1>5. QED
  BY <1>1, <1>3, <1>4

LEMMA ReceiveStep ==
  ASSUME ScanInv, NEW t \in Types, NEW p \in Priorities, Receive(t, p)
  PROVE  ScanInv'
<1>1. PICK e \in Event : /\ Direct(e) \/ Enqueue(e)
                         /\ received + 1 \in 0..MaxEvents
                         /\ 0..received \subseteq 0..(received + 1)
                         /\ received \in 0..received /\ received + 1 \in 0..(received + 1)
  BY ReceivedEvent
<1>2. CASE Direct(e)
  <2>1. frames = <<>> /\ batch = {}
    BY <1>2 DEF Direct, ScanInv, TypeOK
  <2>2. Scans'
    BY <1>1, <1>2, <2>1, InvScans, DispatchedScans DEF Direct
  <2>3. dispatched' \in Seq(Event)
    BY <1>1, <1>2 DEF Direct, Dispatch, ScanInv, TypeOK
  <2>4. QED
    BY <1>1, <1>2, <2>1, <2>2, <2>3 DEF Direct, ScanInv, TypeOK, Scans, BatchDrains
<1>3. CASE Enqueue(e)
  BY <1>1, <1>3
  DEF Enqueue, scans, ScanInv, TypeOK, BatchDrains, ScansNest, Nested, DeferredNow
<1>4. QED
  BY <1>1, <1>2, <1>3

LEMMA DrainStep ==
  ASSUME ScanInv, TakeTop \/ SwapQueue \/ RunQueued \/ LastLook \/ ClearTop
  PROVE  ScanInv'
<1> USE DEF ScanInv, TypeOK, BatchDrains, ScansNest, DeferredNow, scans, history
<1>1. CASE TakeTop
  BY <1>1 DEF TakeTop
<1>2. CASE SwapQueue
  BY <1>2 DEF SwapQueue
<1>3. CASE RunQueued
  <2>1. PICK e \in Tops(batch) : batch' = batch \ {e} /\ Dispatch(e)
    BY <1>3 DEF RunQueued
  <2>2. e \in Event /\ batch # {} /\ frames = <<>>
    BY <1>3, <2>1, TopIsUrgent DEF RunQueued
  <2>3. Scans'
    BY <2>1, <2>2, InvScans, DispatchedScans
  <2>4. dispatched' \in Seq(Event)
    BY <2>1, <2>2 DEF Dispatch
  <2>5. QED
    BY <1>3, <2>1, <2>2, <2>3, <2>4 DEF RunQueued, Scans
<1>4. CASE LastLook
  BY <1>4 DEF LastLook
<1>5. CASE ClearTop
  BY <1>5 DEF ClearTop
<1>6. QED
  BY <1>1, <1>2, <1>3, <1>4, <1>5

LEMMA InitScans == Init => ScanInv
  BY TablesAssumption, BoundsAssumption
  DEF Init, ScanInv, TypeOK, BatchDrains, ScansNest, Nested, DeferredNow

LEMMA NextScans == ScanInv /\ [Next]_vars => ScanInv'
<1> SUFFICES ASSUME ScanInv, [Next]_vars PROVE ScanInv'
  OBVIOUS
<1>1. CASE \E t \in Types, p \in Priorities : Receive(t, p)
  BY <1>1, ReceiveStep
<1>2. CASE Scan
  BY <1>2, ScanStep
<1>3. CASE TakeTop \/ SwapQueue \/ RunQueued \/ LastLook \/ ClearTop
  BY <1>3, DrainStep
<1>4. CASE UNCHANGED vars
  BY <1>4 DEF vars, intake, scans, history, ScanInv, TypeOK, BatchDrains, ScansNest,
              DeferredNow
<1>5. QED
  BY <1>1, <1>2, <1>3, <1>4 DEF Next, Work, Exhausted

\* ScanInv is an invariant.
THEOREM ScanInvariant == Spec => []ScanInv
  BY InitScans, NextScans, PTL DEF Spec

\* All variables keep their types; no activation of process_deferred_queue
\* outlives the call that holds is_top_.
THEOREM TypeCorrect == Spec => []TypeOK
<1>1. ScanInv => TypeOK
  BY DEF ScanInv
<1>2. QED
  BY <1>1, ScanInvariant, PTL

\* However deep process_deferred_queue recurses, what an activation holds is at
\* least as urgent as what the activations around it hold.
THEOREM ActivationsNest == Spec => []ScansNest
<1>1. ScanInv => ScansNest
  BY DEF ScanInv
<1>2. QED
  BY <1>1, ScanInvariant, PTL

\* When all scans are over, no deferred event is left that the current state
\* would handle and does not defer.
THEOREM NothingLeftToRun == Spec => []NoRunnableEventLeft
<1>1. ScanInv => NoRunnableEventLeft
  BY DEF ScanInv, DeferredNow, NoRunnableEventLeft
<1>2. QED
  BY <1>1, ScanInvariant, PTL

\* A scan runs what is most urgent of all that waits, in the store or under any
\* activation, and can be handled.
LEMMA ScanRunsUrgent ==
  ASSUME ScanInv, RunDeferred,
         NEW e \in executed' \ executed, e \in Waiting, NEW f \in Waiting,
         f.type \notin Deferrable[state]
  PROVE  f.priority <= e.priority
<1>1. frames \in Seq(Frame) /\ Len(frames) \in Nat /\ frames # <<>> /\ DOMAIN frames = 1..Len(frames)
  BY DEF RunDeferred, Scanning, ScanInv, TypeOK
<1>2. e \in Current.deferred /\ NoMoreUrgent(Current.deferred, {e})
  <2>1. PICK x \in Tops(Current.deferred) : executed' \subseteq executed \cup {x}
    BY DEF RunDeferred, Processes, Stays, HandlesInState, Defers, Refuses
  <2>2. QED
    BY <2>1, TopIsUrgent
<1>3. f \notin deferred
  BY DEF ScanInv, DeferredNow
<1>4. PICK i \in DOMAIN frames : f \in frames[i].deferred
  BY <1>3 DEF Waiting
<1>5. CASE i = Len(frames)
  BY <1>2, <1>4, <1>5 DEF Current, NoMoreUrgent
<1>6. CASE i # Len(frames)
  BY <1>1, <1>2, <1>4, <1>6 DEF Current, ScanInv, ScansNest, Nested, NoMoreUrgent
<1>7. QED
  BY <1>5, <1>6

\* A deferred event is never handled before a more urgent one that can be.
THEOREM MostUrgentFirst == Spec => UrgentFirst
<1> DEFINE Urgent ==
      \A e \in (executed' \ executed) \cap Waiting, f \in Waiting :
          Runs(state, f.type) /\ f.type \notin Deferrable[state] => f.priority <= e.priority
<1>1. ASSUME ScanInv, [Next]_vars PROVE [Urgent]_vars
  <2>1. CASE RunDeferred
    BY <1>1, <2>1, ScanRunsUrgent
  <2>2. CASE frames = <<>>
    BY <1>1, <2>2 DEF Waiting, ScanInv, DeferredNow
  <2>3. CASE frames # <<>> /\ ~RunDeferred
    <3>1. executed' = executed
      BY <1>1, <2>3
      DEF Next, Receive, Direct, Enqueue, Work, TakeTop, SwapQueue, RunQueued, LastLook,
          ClearTop, Scan, Rescan, Return, Exhausted, vars, history, ScanInv, TypeOK
    <3>2. QED
      BY <3>1
  <2>4. QED
    BY <2>1, <2>2, <2>3
<1>2. QED
  BY <1>1, ScanInvariant, PTL DEF Spec, UrgentFirst

-----------------------------------------------------------------------------
\* What the activations below the innermost one have.
Outer(fs) == UNION {Held(fs, i) : i \in 1..(Len(fs) - 1)}

LEMMA NothingIsNoEvent == Nothing \notin Event
  BY DEF Nothing, Event

\* The activations are the innermost and those below it.
LEMMA Innermost ==
  ASSUME NEW n \in Nat \ {0}
  PROVE  /\ \A i \in 1..(n - 1) : i \in 1..n /\ i # n
         /\ n \in 1..n
         /\ \A i \in 1..n : i \in 1..(n - 1) \/ i = n
  OBVIOUS

\* A new activation takes what is in the store.
LEMMA PushedApart ==
  ASSUME NEW fs \in Seq(Frame), NEW g \in Frame, g.running = Nothing, NEW done,
         Apart(g.deferred, fs, done)
  PROVE  /\ Apart({}, Append(fs, g), done)
         /\ UnderScan(Append(fs, g)) = UnderScan(fs) \cup g.deferred
<1> DEFINE gs == Append(fs, g)
<1>1. /\ DOMAIN gs = 1..(Len(fs) + 1) /\ DOMAIN fs = 1..Len(fs) /\ Len(fs) \in Nat
      /\ \A i \in 1..Len(fs) : gs[i] = fs[i]
      /\ gs[Len(fs) + 1] = g
  OBVIOUS
<1>2. g.deferred \ {g.running} = g.deferred
  BY NothingIsNoEvent DEF Frame
<1> HIDE DEF gs
<1>3. /\ \A i \in 1..Len(fs) : i \in DOMAIN gs /\ Held(gs, i) = Held(fs, i)
      /\ Len(fs) + 1 \in DOMAIN gs /\ Held(gs, Len(fs) + 1) = g.deferred
      /\ \A i \in DOMAIN gs : i \in 1..Len(fs) \/ i = Len(fs) + 1
  BY <1>1, <1>2 DEF Held
<1>4. Apart({}, gs, done)
  <2>1. \A i \in DOMAIN gs : Held(gs, i) \cap ({} \cup done) = {}
    BY <1>1, <1>3 DEF Apart
  <2>2. ASSUME NEW i \in DOMAIN gs, NEW j \in DOMAIN gs, i # j
        PROVE  Held(gs, i) \cap Held(gs, j) = {}
    BY <1>1, <1>3, <2>2 DEF Apart
  <2>3. QED
    BY <2>1, <2>2 DEF Apart
<1>5. UnderScan(gs) = UnderScan(fs) \cup g.deferred
  BY <1>1, <1>3 DEF UnderScan
<1>6. QED
  BY <1>4, <1>5 DEF gs

\* What the innermost activation has is not with the others.
LEMMA InnermostApart ==
  ASSUME NEW fs \in Seq(Frame), fs # <<>>, NEW store, NEW done, Apart(store, fs, done)
  PROVE  /\ UnderScan(fs) = Outer(fs) \cup Held(fs, Len(fs))
         /\ Outer(fs) \cap Held(fs, Len(fs)) = {}
         /\ Outer(fs) \cap (store \cup done) = {}
         /\ Held(fs, Len(fs)) \cap (store \cup done) = {}
<1>1. Len(fs) \in Nat \ {0} /\ DOMAIN fs = 1..Len(fs)
  OBVIOUS
<1>2. /\ \A i \in 1..(Len(fs) - 1) : i \in DOMAIN fs /\ i # Len(fs)
      /\ Len(fs) \in DOMAIN fs
      /\ \A i \in DOMAIN fs : i \in 1..(Len(fs) - 1) \/ i = Len(fs)
  BY ONLY <1>1, Innermost
<1>3. QED
  BY <1>2 DEF Apart, UnderScan, Outer

\* The innermost activation, the store and what is done with are replaced.
LEMMA ReplacedApart ==
  ASSUME NEW fs \in Seq(Frame), fs # <<>>, NEW f \in Frame, NEW store, NEW done,
         NEW kept, NEW ended, Apart(store, fs, done),
         LET held == f.deferred \ {f.running} IN
           /\ held \cup kept \cup ended \subseteq Held(fs, Len(fs)) \cup store \cup done
           /\ held \cap (kept \cup ended) = {}
           /\ kept \cap ended = {}
  PROVE  /\ Apart(kept, SetCurrent(fs, f), ended)
         /\ UnderScan(SetCurrent(fs, f)) = Outer(fs) \cup (f.deferred \ {f.running})
<1> DEFINE gs == SetCurrent(fs, f)
           held == f.deferred \ {f.running}
<1>1. /\ gs \in Seq(Frame) /\ DOMAIN gs = 1..Len(fs)
      /\ \A i \in 1..(Len(fs) - 1) : gs[i] = fs[i]
      /\ gs[Len(fs)] = f
      /\ Len(fs) \in Nat \ {0} /\ DOMAIN fs = 1..Len(fs)
  BY DEF SetCurrent
<1> HIDE DEF gs
<1>2. /\ \A i \in 1..(Len(fs) - 1) : Held(gs, i) = Held(fs, i)
      /\ Held(gs, Len(fs)) = held
  BY <1>1 DEF Held
<1>3. /\ \A i \in 1..(Len(fs) - 1) : i \in DOMAIN gs /\ i \in DOMAIN fs /\ i # Len(fs)
      /\ Len(fs) \in DOMAIN gs /\ Len(fs) \in DOMAIN fs
      /\ \A i \in DOMAIN gs : i \in 1..(Len(fs) - 1) \/ i = Len(fs)
  BY ONLY <1>1, Innermost
<1> HIDE DEF held
<1>4. /\ held \cup kept \cup ended \subseteq Held(fs, Len(fs)) \cup store \cup done
      /\ held \cap (kept \cup ended) = {}
      /\ kept \cap ended = {}
  BY DEF held
<1>5. \A i \in 1..(Len(fs) - 1) : Held(fs, i) \cap (held \cup kept \cup ended) = {}
  BY <1>3, <1>4 DEF Apart
<1>6. Apart(kept, gs, ended)
  <2>1. \A i \in DOMAIN gs : Held(gs, i) \cap (kept \cup ended) = {}
    BY <1>2, <1>3, <1>4, <1>5
  <2>2. ASSUME NEW i \in DOMAIN gs, NEW j \in DOMAIN gs, i # j
        PROVE  Held(gs, i) \cap Held(gs, j) = {}
    BY <1>2, <1>3, <1>5, <2>2 DEF Apart
  <2>3. QED
    BY <1>4, <2>1, <2>2 DEF Apart
<1>7. UnderScan(gs) = Outer(fs) \cup held
  BY <1>2, <1>3 DEF UnderScan, Outer
<1>8. QED
  BY <1>6, <1>7 DEF gs, held

\* The innermost activation has returned.
LEMMA PoppedApart ==
  ASSUME NEW fs \in Seq(Frame), fs # <<>>, NEW store, NEW done, Apart(store, fs, done)
  PROVE  /\ Apart(store, SubSeq(fs, 1, Len(fs) - 1), done)
         /\ UnderScan(SubSeq(fs, 1, Len(fs) - 1)) = Outer(fs)
<1> DEFINE gs == SubSeq(fs, 1, Len(fs) - 1)
<1>1. /\ gs \in Seq(Frame) /\ Len(gs) = Len(fs) - 1
      /\ \A i \in 1..(Len(fs) - 1) : gs[i] = fs[i]
  BY PoppedFrame
<1> HIDE DEF gs
<1>2. /\ Len(fs) \in Nat \ {0} /\ DOMAIN fs = 1..Len(fs) /\ DOMAIN gs = 1..(Len(fs) - 1)
  BY <1>1
<1>3. \A i \in DOMAIN gs : i \in DOMAIN fs /\ Held(gs, i) = Held(fs, i)
  BY <1>1, <1>2 DEF Held
<1>4. Apart(store, gs, done)
  BY <1>3 DEF Apart
<1>5. UnderScan(gs) = Outer(fs)
  BY <1>2, <1>3 DEF UnderScan, Outer
<1>6. QED
  BY <1>4, <1>5 DEF gs

-----------------------------------------------------------------------------
LEMMA NumberedNext ==
  ASSUME NEW events, NEW n \in Nat, Numbered(events, n), NEW e, e.n = n + 1
  PROVE  Numbered(events \cup {e}, n + 1) /\ e \notin events /\ \A f \in events : f.n < e.n
<1>1. \A f \in events : f.n \in 1..n
  BY DEF Numbered
<1>2. \A f \in events : f.n < e.n /\ f.n # e.n
  BY <1>1
<1>3. e \notin events
  BY <1>2
<1>4. {f.n : f \in events \cup {e}} = {f.n : f \in events} \cup {n + 1}
  OBVIOUS
<1>5. 1..(n + 1) = 1..n \cup {n + 1}
  OBVIOUS
<1>6. QED
  BY <1>2, <1>3, <1>4, <1>5 DEF Numbered

\* The history of first dispatches grows by an event.
LEMMA SeenNext ==
  ASSUME dispatched \in Seq(Event), NEW e \in Event, dispatched' = Append(dispatched, e)
  PROVE  /\ Seen' = Seen \cup {e}
         /\ DOMAIN dispatched = 1..Len(dispatched) /\ Len(dispatched) \in Nat
         /\ DOMAIN dispatched' = 1..(Len(dispatched) + 1)
         /\ \A i \in 1..Len(dispatched) : dispatched'[i] = dispatched[i]
         /\ dispatched'[Len(dispatched) + 1] = e
<1>1. /\ ToSet(dispatched') = ToSet(dispatched) \cup {e}
      /\ \A i \in 1..Len(dispatched) : dispatched'[i] = dispatched[i]
      /\ dispatched'[Len(dispatched) + 1] = e
      /\ Len(dispatched') = Len(dispatched) + 1
      /\ dispatched' \in Seq(Event)
  BY AppendFacts
<1>2. QED
  BY <1>1 DEF ToSet, Seen

LEMMA InjectiveNext ==
  ASSUME dispatched \in Seq(Event), NEW e \in Event \ Seen, dispatched' = Append(dispatched, e),
         \A i, j \in DOMAIN dispatched : dispatched[i] = dispatched[j] => i = j
  PROVE  \A i, j \in DOMAIN dispatched' : dispatched'[i] = dispatched'[j] => i = j
<1>1. IsInjective(dispatched) /\ e \notin ToSet(dispatched)
  BY DEF IsInjective, Seen, ToSet
<1>2. QED
  BY <1>1, InjectiveAppend DEF IsInjective

\* Whatever e might be kept waiting by has no claim to be before it.
LEMMA UrgencyNext ==
  ASSUME dispatched \in Seq(Event), NEW e \in Event, dispatched' = Append(dispatched, e),
         UrgencyInv, Fresh' \subseteq Fresh, e.after < e.n,
         batch' \subseteq batch, queued' \subseteq queued,
         queued' = {} \/ lastEmpty' = lastEmpty,
         \A f \in Fresh' : ~Preempts(f, e),
         \A i \in DOMAIN dispatched : ~Preempts(e, dispatched[i])
  PROVE  UrgencyInv'
<1>1. /\ DOMAIN dispatched = 1..Len(dispatched) /\ Len(dispatched) \in Nat
      /\ DOMAIN dispatched' = 1..(Len(dispatched) + 1)
      /\ \A i \in 1..Len(dispatched) : dispatched'[i] = dispatched[i]
      /\ dispatched'[Len(dispatched) + 1] = e
  BY SeenNext
<1>2. ASSUME NEW i \in DOMAIN dispatched', NEW f \in Fresh'
      PROVE  ~Preempts(f, dispatched'[i])
  <2>1. CASE i = Len(dispatched) + 1
    BY <1>1, <2>1
  <2>2. CASE i \in 1..Len(dispatched)
    BY <1>1, <2>2 DEF UrgencyInv
  <2>3. QED
    BY <1>1, <2>1, <2>2
<1>3. ASSUME NEW i \in DOMAIN dispatched', NEW j \in DOMAIN dispatched', i < j
      PROVE  ~Preempts(dispatched'[j], dispatched'[i])
  <2>1. i \in 1..Len(dispatched)
    BY <1>1, <1>3
  <2>2. CASE j = Len(dispatched) + 1
    BY <1>1, <2>1, <2>2
  <2>3. CASE j \in 1..Len(dispatched)
    BY <1>1, <1>3, <2>1, <2>3 DEF UrgencyInv
  <2>4. QED
    BY <1>1, <2>2, <2>3
<1>4. /\ \A x \in batch', f \in queued' : x.n < f.n
      /\ \A f \in queued' : lastEmpty' < f.n
  BY DEF UrgencyInv
<1>5. \A f \in Fresh' \cup Seen' : f.after < f.n
  <2>1. Seen' = Seen \cup {e}
    BY SeenNext
  <2>2. QED
    BY <2>1 DEF UrgencyInv
<1>6. QED
  BY <1>2, <1>3, <1>4, <1>5 DEF UrgencyInv

LEMMA ReceiveArrives ==
  ASSUME ScanInv, ArrivalInv, UrgencyInv, NEW t \in Types, NEW p \in Priorities, Receive(t, p)
  PROVE  ArrivalInv' /\ UrgencyInv'
<1>1. PICK e \in Event :
         /\ Direct(e) \/ Enqueue(e)
         /\ e.n = received + 1 /\ e.after <= received /\ received \in Nat
         /\ dispatched \in Seq(Event)
  BY ReceivedEvent DEF ScanInv, TypeOK
<1>2. /\ Numbered(Fresh \cup Seen \cup {e}, received + 1)
      /\ e \notin Fresh \cup Seen /\ \A f \in Fresh \cup Seen : f.n < e.n
  BY <1>1, NumberedNext DEF ArrivalInv
<1>3. \A i \in DOMAIN dispatched : dispatched[i] \in Seen
  BY DEF Seen
<1>4. /\ \A f \in Fresh \cup Seen : ~Preempts(e, f)
      /\ e.after < e.n /\ lastEmpty \in Int /\ lastEmpty < e.n
  <2>1. \A f \in Fresh \cup Seen : f.n \in 1..received /\ f.after < f.n
    BY DEF ArrivalInv, Numbered, UrgencyInv
  <2>2. \A f \in Fresh \cup Seen : f \in Event
    BY DEF ScanInv, TypeOK, Fresh, Seen
  <2>3. /\ \A f \in Event : f.after \in 0..MaxEvents
        /\ 0..MaxEvents \subseteq Int
    BY BoundsAssumption DEF Event
  <2>4. \A f \in Fresh \cup Seen : f.after \in Int
    BY <2>2, <2>3, Zenon
  <2>5. e.after \in Int
    BY <2>3, Zenon
  <2>6. lastEmpty \in Int /\ lastEmpty <= received
    BY <1>1 DEF ScanInv, TypeOK
  <2>7. QED
    BY <1>1, <2>1, <2>4, <2>5, <2>6 DEF Preempts
<1>5. CASE Direct(e)
  <2>1. /\ batch = {} /\ Fresh = queued /\ Fresh' = Fresh /\ received' = received + 1
        /\ dispatched' = Append(dispatched, e) /\ queued' = queued /\ batch' = batch
        /\ queued' = {} \/ lastEmpty' = lastEmpty
        /\ e.after = lastEmpty
    BY <1>5 DEF Direct, Dispatch, ScanInv, TypeOK, Fresh
  <2>2. Seen' = Seen \cup {e}
    BY <1>1, <2>1, SeenNext
  <2>3. ArrivalInv'
    <3>1. Fresh' \cup Seen' = Fresh \cup Seen \cup {e}
      BY <2>1, <2>2
    <3>2. Numbered(Fresh' \cup Seen', received')
      BY <1>2, <2>1, <3>1
    <3>3. \A i, j \in DOMAIN dispatched' : dispatched'[i] = dispatched'[j] => i = j
      BY <1>1, <1>2, <2>1, InjectiveNext DEF ArrivalInv
    <3>4. Fresh' \cap Seen' = {}
      BY <1>2, <2>1, <2>2 DEF ArrivalInv
    <3>5. QED
      BY <2>1, <3>2, <3>3, <3>4 DEF ArrivalInv, Numbered
  <2>4. UrgencyInv'
    <3>1. \A f \in Fresh' : ~Preempts(f, e)
      <4>1. \A f \in queued : f.n \in 1..received
        BY DEF ArrivalInv, Numbered, Fresh
      <4>2. \A f \in queued : ~(f.n <= lastEmpty)
        BY <1>4, <4>1 DEF UrgencyInv
      <4>3. QED
        BY <2>1, <4>2 DEF Preempts
    <3>2. \A i \in DOMAIN dispatched : ~Preempts(e, dispatched[i])
      BY <1>3, <1>4
    <3>3. QED
      BY <1>1, <1>4, <2>1, <3>1, <3>2, UrgencyNext
  <2>5. QED
    BY <2>3, <2>4
<1>6. CASE Enqueue(e)
  <2>1. /\ queued' = queued \cup {e} /\ batch' = batch /\ received' = received + 1
        /\ dispatched' = dispatched /\ Seen' = Seen /\ Fresh' = Fresh \cup {e}
        /\ lastEmpty' = lastEmpty
    BY <1>6 DEF Enqueue, Seen, Fresh
  <2>2. ArrivalInv'
    <3>1. Fresh' \cup Seen' = Fresh \cup Seen \cup {e}
      BY <2>1
    <3>2. Numbered(Fresh' \cup Seen', received')
      BY <1>2, <2>1, <3>1
    <3>3. QED
      BY <1>2, <2>1, <3>2 DEF ArrivalInv, Numbered
  <2>3. \A f \in batch, g \in queued' : f.n < g.n
    BY <1>2, <2>1 DEF UrgencyInv, Fresh
  <2>4. \A i \in DOMAIN dispatched, f \in Fresh' : ~Preempts(f, dispatched[i])
    BY <1>3, <1>4, <2>1 DEF UrgencyInv
  <2>5. /\ \A f \in queued' : lastEmpty' < f.n
        /\ \A f \in Fresh' \cup Seen' : f.after < f.n
    BY <1>4, <2>1 DEF UrgencyInv
  <2>6. QED
    BY <2>1, <2>2, <2>3, <2>4, <2>5 DEF UrgencyInv
<1>7. QED
  BY <1>1, <1>5, <1>6

LEMMA RunQueuedArrives ==
  ASSUME ScanInv, ArrivalInv, UrgencyInv, RunQueued
  PROVE  ArrivalInv' /\ UrgencyInv'
<1>1. PICK e \in Tops(batch) : batch' = batch \ {e} /\ Dispatch(e)
  BY DEF RunQueued
<1>2. /\ e \in batch /\ e \in Event /\ \A f \in batch : f.priority <= e.priority
      /\ \A f \in Event : f.priority \in Int /\ f.n \in Int /\ f.after \in Int
      /\ batch \subseteq Event /\ queued \subseteq Event
      /\ dispatched \in Seq(Event)
  <2>1. /\ batch \subseteq Event /\ queued \subseteq Event
        /\ dispatched \in Seq(Event)
    BY DEF ScanInv, TypeOK
  <2>2. e \in batch /\ \A f \in batch : f.priority <= e.priority
    BY DEF Tops
  <2>3. \A f \in Event : f.priority \in Int /\ f.n \in Int /\ f.after \in Int
    <3>1. \A f \in Event : /\ f.priority \in Priorities /\ f.n \in 1..MaxEvents
                            /\ f.after \in 0..MaxEvents
      BY DEF Event
    <3>2. Priorities \subseteq Int /\ 1..MaxEvents \subseteq Int /\ 0..MaxEvents \subseteq Int
      BY BoundsAssumption
    <3>3. QED
      BY <3>1, <3>2, Zenon
  <2>4. QED
    BY <2>1, <2>2, <2>3
<1>3. /\ dispatched' = Append(dispatched, e) /\ queued' = queued /\ received' = received
      /\ lastEmpty' = lastEmpty
  BY <1>1 DEF RunQueued, Dispatch
<1>4. e \notin queued
  BY <1>2 DEF UrgencyInv
<1>5. Fresh' = Fresh \ {e} /\ e \in Fresh /\ Seen' = Seen \cup {e}
  BY <1>1, <1>2, <1>3, <1>4, SeenNext DEF Fresh
<1>6. e \notin Seen
  BY <1>5 DEF ArrivalInv
<1>7. ArrivalInv'
  <2>1. Fresh' \cup Seen' = Fresh \cup Seen /\ Fresh' \cap Seen' = {}
    BY <1>5, <1>6 DEF ArrivalInv
  <2>2. Numbered(Fresh' \cup Seen', received')
    BY <1>3, <2>1 DEF ArrivalInv
  <2>3. \A i, j \in DOMAIN dispatched' : dispatched'[i] = dispatched'[j] => i = j
    BY <1>2, <1>3, <1>6, InjectiveNext DEF ArrivalInv
  <2>4. QED
    BY <2>1, <2>2, <2>3 DEF ArrivalInv, Numbered
<1>8. UrgencyInv'
  <2>1. \A f \in Fresh' : ~Preempts(f, e)
    <3>1. /\ \A f \in batch : ~(e.priority < f.priority)
          /\ \A f \in queued : e.n < f.n
          /\ e.after < e.n
      BY <1>2, <1>5 DEF UrgencyInv
    <3>2. \A f \in queued : ~(f.n <= e.after)
      BY <1>2, <3>1
    <3>3. QED
      BY <1>5, <3>1, <3>2 DEF Preempts, Fresh
  <2>2. \A i \in DOMAIN dispatched : ~Preempts(e, dispatched[i])
    BY <1>5 DEF UrgencyInv
  <2>3. e.after < e.n
    BY <1>5 DEF UrgencyInv
  <2>4. QED
    BY <1>1, <1>2, <1>3, <1>5, <2>1, <2>2, <2>3, UrgencyNext
<1>9. QED
  BY <1>7, <1>8

LEMMA SwapQueueArrives ==
  ASSUME ArrivalInv, UrgencyInv, SwapQueue
  PROVE  ArrivalInv' /\ UrgencyInv'
<1>1. /\ batch' = queued /\ queued' = {} /\ Fresh' = Fresh
      /\ received' = received /\ dispatched' = dispatched /\ Seen' = Seen
  BY DEF SwapQueue, history, Fresh, Seen
<1>2. QED
  BY <1>1 DEF ArrivalInv, UrgencyInv, Numbered

LEMMA OtherArrives ==
  ASSUME ArrivalInv, UrgencyInv, UNCHANGED <<queued, batch, lastEmpty, received, dispatched>>
  PROVE  ArrivalInv' /\ UrgencyInv'
<1>1. Fresh' = Fresh /\ Seen' = Seen
  BY DEF Fresh, Seen
<1>2. QED
  BY <1>1 DEF ArrivalInv, UrgencyInv, Numbered

-----------------------------------------------------------------------------
\* A transition, on a stack that no longer has the event.
LEMMA ProcessedPlaces ==
  ASSUME deferred \subseteq Event, NEW e, NEW fs \in Seq(Frame), Processes(e, fs),
         executed \cap removed = {}, e \notin removed,
         Apart(deferred, fs, executed \cup removed \cup {e})
  PROVE  /\ executed' = executed \cup {e} /\ removed' = removed /\ deferred' = {}
         /\ executed' \cap removed' = {}
         /\ Apart(deferred', frames', executed' \cup removed')
         /\ UnderScan(frames') = UnderScan(fs) \cup deferred
<1> DEFINE g == [deferred |-> deferred, running |-> Nothing, res |-> FALSE]
<1>1. g \in Frame /\ g.deferred = deferred /\ g.running = Nothing
  BY DEF Frame
<1>2. /\ frames' = Append(fs, g) /\ deferred' = {}
      /\ executed' = executed \cup {e} /\ removed' = removed
  BY DEF Processes
<1> HIDE DEF g
<1>3. executed' \cup removed' = executed \cup removed \cup {e}
  BY <1>2
<1>4. /\ Apart({}, Append(fs, g), executed \cup removed \cup {e})
      /\ UnderScan(Append(fs, g)) = UnderScan(fs) \cup deferred
  BY <1>1, PushedApart
<1>5. QED
  BY <1>2, <1>3, <1>4

\* An event that stays goes to the store, or is done with.
LEMMA StayedPlaces ==
  ASSUME NEW e, Stays(e), e \notin deferred \cup executed \cup removed,
         deferred \cap (executed \cup removed) = {}, executed \cap removed = {}
  PROVE  /\ deferred' \cup executed' \cup removed' = deferred \cup executed \cup removed \cup {e}
         /\ deferred' \cap (executed' \cup removed') = {}
         /\ executed' \cap removed' = {}
  BY DEF Stays, HandlesInState, Defers, Refuses

LEMMA DispatchPlaces ==
  ASSUME ScanInv, PlacesInv, frames = <<>>, NEW e \in Event \ Seen, Dispatch(e)
  PROVE  PlacesInv'
<1>1. deferred \subseteq Event /\ dispatched \in Seq(Event) /\ <<>> \in Seq(Frame)
  BY DEF ScanInv, TypeOK
<1>2. Seen' = Seen \cup {e}
  BY <1>1, SeenNext DEF Dispatch
<1>3. /\ UnderScan(<<>>) = {} /\ \A store, done : Apart(store, <<>>, done) <=> store \cap done = {}
  BY DEF UnderScan, Apart
<1>4. /\ e \notin deferred \cup executed \cup removed
      /\ deferred \cap (executed \cup removed) = {} /\ executed \cap removed = {}
      /\ deferred \cup executed \cup removed = Seen
  BY <1>3 DEF PlacesInv
<1>5. CASE Processes(e, <<>>)
  <2>1. Apart(deferred, <<>>, executed \cup removed \cup {e})
    BY <1>3, <1>4
  <2>2. /\ executed' = executed \cup {e} /\ removed' = removed /\ deferred' = {}
        /\ executed' \cap removed' = {}
        /\ Apart(deferred', frames', executed' \cup removed')
        /\ UnderScan(frames') = UnderScan(<<>>) \cup deferred
    BY <1>1, <1>4, <1>5, <2>1, ProcessedPlaces
  <2>3. deferred' \cup UnderScan(frames') \cup executed' \cup removed' = Seen'
    BY <1>2, <1>3, <1>4, <2>2
  <2>4. QED
    BY <2>2, <2>3 DEF PlacesInv
<1>6. CASE Stays(e) /\ UNCHANGED frames
  <2>1. /\ deferred' \cup executed' \cup removed' = deferred \cup executed \cup removed \cup {e}
        /\ deferred' \cap (executed' \cup removed') = {}
        /\ executed' \cap removed' = {}
    BY <1>4, <1>6, StayedPlaces
  <2>2. frames' = <<>>
    BY <1>6
  <2>3. QED
    BY <1>2, <1>3, <1>4, <2>1, <2>2 DEF PlacesInv
<1>7. QED
  BY <1>5, <1>6 DEF Dispatch

\* The activation that scans: it holds nothing back, and shares nothing.
LEMMA ScanningPlaces ==
  ASSUME ScanInv, PlacesInv, Scanning
  PROVE  /\ frames \in Seq(Frame) /\ frames # <<>> /\ Current \in Frame
         /\ Current.running = Nothing
         /\ Held(frames, Len(frames)) = Current.deferred
         /\ Apart(deferred, frames, executed \cup removed)
         /\ Current.deferred \subseteq Event /\ deferred \subseteq Event
         /\ UnderScan(frames) = Outer(frames) \cup Current.deferred
         /\ Outer(frames) \cap Current.deferred = {}
         /\ (Outer(frames) \cup Current.deferred) \cap (deferred \cup executed \cup removed) = {}
         /\ deferred \cap (executed \cup removed) = {} /\ executed \cap removed = {}
<1>1. /\ frames \in Seq(Frame) /\ frames # <<>> /\ Current.running = Nothing
      /\ deferred \subseteq Event
  BY DEF Scanning, ScanInv, TypeOK
<1>2. Current \in Frame
  BY <1>1 DEF Current
<1>3. Current.deferred \subseteq Event
  BY <1>2 DEF Frame
<1>4. Held(frames, Len(frames)) = Current.deferred
  BY <1>1, <1>3, NothingIsNoEvent DEF Held, Current
<1>5. Apart(deferred, frames, executed \cup removed)
  BY DEF PlacesInv
<1>6. /\ UnderScan(frames) = Outer(frames) \cup Current.deferred
      /\ Outer(frames) \cap Current.deferred = {}
      /\ Outer(frames) \cap (deferred \cup (executed \cup removed)) = {}
      /\ Current.deferred \cap (deferred \cup (executed \cup removed)) = {}
  BY <1>1, <1>4, <1>5, InnermostApart
<1>7. QED
  BY <1>1, <1>2, <1>3, <1>4, <1>5, <1>6 DEF PlacesInv, Apart

LEMMA RunDeferredPlaces ==
  ASSUME ScanInv, PlacesInv, RunDeferred
  PROVE  PlacesInv'
<1> DEFINE held == Current.deferred
<1>1. PICK e \in Tops(Current.deferred) :
         \/ Processes(e, SetCurrent(frames, [Current EXCEPT !.running = e]))
         \/ /\ Stays(e)
            /\ frames' = SetCurrent(frames, [Current EXCEPT !.deferred = Current.deferred \ {e}])
  BY DEF RunDeferred
<1>2. e \in Current.deferred
  BY DEF Tops
<1>3. /\ frames \in Seq(Frame) /\ frames # <<>> /\ Current \in Frame
      /\ Current.running = Nothing
      /\ Held(frames, Len(frames)) = Current.deferred
      /\ Apart(deferred, frames, executed \cup removed)
      /\ Current.deferred \subseteq Event /\ deferred \subseteq Event
      /\ UnderScan(frames) = Outer(frames) \cup Current.deferred
      /\ Outer(frames) \cap Current.deferred = {}
      /\ (Outer(frames) \cup Current.deferred) \cap (deferred \cup executed \cup removed) = {}
      /\ deferred \cap (executed \cup removed) = {} /\ executed \cap removed = {}
  BY ScanningPlaces DEF RunDeferred
<1>4. Seen' = Seen
  BY DEF RunDeferred, Seen
<1>5. deferred \cup (Outer(frames) \cup Current.deferred) \cup executed \cup removed = Seen
  BY <1>3 DEF PlacesInv
<1>6. CASE Processes(e, SetCurrent(frames, [Current EXCEPT !.running = e]))
  <2> DEFINE f == [Current EXCEPT !.running = e]
             fs == SetCurrent(frames, f)
  <2>1. f \in Frame /\ f.deferred \ {f.running} = held \ {e}
    BY <1>2, <1>3 DEF Frame
  <2>2. fs \in Seq(Frame)
    BY <1>3, <2>1 DEF SetCurrent
  <2>3. Processes(e, fs)
    BY <1>6
  <2> HIDE DEF f
  <2>4. /\ Apart(deferred, fs, executed \cup removed \cup {e})
        /\ UnderScan(fs) = Outer(frames) \cup (held \ {e})
    <3>1. /\ (held \ {e}) \cup deferred \cup (executed \cup removed \cup {e})
               \subseteq Held(frames, Len(frames)) \cup deferred \cup (executed \cup removed)
          /\ (held \ {e}) \cap (deferred \cup (executed \cup removed \cup {e})) = {}
          /\ deferred \cap (executed \cup removed \cup {e}) = {}
      BY <1>2, <1>3
    <3>2. QED
      BY <1>3, <2>1, <3>1, ReplacedApart
  <2> HIDE DEF fs
  <2>5. /\ executed' = executed \cup {e} /\ removed' = removed /\ deferred' = {}
        /\ executed' \cap removed' = {}
        /\ Apart(deferred', frames', executed' \cup removed')
        /\ UnderScan(frames') = UnderScan(fs) \cup deferred
    BY <1>2, <1>3, <2>2, <2>3, <2>4, ProcessedPlaces
  <2>6. deferred' \cup UnderScan(frames') \cup executed' \cup removed' = Seen'
    BY <1>2, <1>4, <1>5, <2>4, <2>5
  <2>7. QED
    BY <2>5, <2>6 DEF PlacesInv
<1>7. CASE /\ Stays(e)
           /\ frames' = SetCurrent(frames, [Current EXCEPT !.deferred = Current.deferred \ {e}])
  <2> DEFINE f == [Current EXCEPT !.deferred = Current.deferred \ {e}]
  <2>1. f \in Frame /\ f.deferred \ {f.running} = held \ {e}
    BY <1>3, NothingIsNoEvent DEF Frame
  <2>2. frames' = SetCurrent(frames, f)
    BY <1>7
  <2> HIDE DEF f
  <2>3. /\ deferred' \cup executed' \cup removed' = deferred \cup executed \cup removed \cup {e}
        /\ deferred' \cap (executed' \cup removed') = {}
        /\ executed' \cap removed' = {}
    BY <1>2, <1>3, <1>7, StayedPlaces
  <2>4. /\ Apart(deferred', frames', executed' \cup removed')
        /\ UnderScan(frames') = Outer(frames) \cup (held \ {e})
    <3>1. /\ (held \ {e}) \cup deferred' \cup (executed' \cup removed')
               \subseteq Held(frames, Len(frames)) \cup deferred \cup (executed \cup removed)
          /\ (held \ {e}) \cap (deferred' \cup (executed' \cup removed')) = {}
      BY <1>2, <1>3, <2>3
    <3>2. QED
      BY <1>3, <2>1, <2>2, <2>3, <3>1, ReplacedApart
  <2>5. deferred' \cup UnderScan(frames') \cup executed' \cup removed' = Seen'
    BY <1>2, <1>4, <1>5, <2>3, <2>4
  <2>6. QED
    BY <2>3, <2>4, <2>5 DEF PlacesInv
<1>8. QED
  BY <1>1, <1>6, <1>7

LEMMA RescanPlaces ==
  ASSUME ScanInv, PlacesInv, Rescan
  PROVE  PlacesInv'
<1> DEFINE f == [deferred |-> deferred \cup Current.deferred, running |-> Nothing, res |-> FALSE]
<1>1. /\ frames \in Seq(Frame) /\ frames # <<>>
      /\ Held(frames, Len(frames)) = Current.deferred
      /\ Apart(deferred, frames, executed \cup removed)
      /\ Current.deferred \subseteq Event /\ deferred \subseteq Event
      /\ UnderScan(frames) = Outer(frames) \cup Current.deferred
      /\ Current.deferred \cap (executed \cup removed) = {}
      /\ deferred \cap (executed \cup removed) = {} /\ executed \cap removed = {}
  BY ScanningPlaces DEF Rescan
<1>2. /\ frames' = SetCurrent(frames, f) /\ deferred' = {}
      /\ executed' = executed /\ removed' = removed /\ Seen' = Seen
  BY DEF Rescan, history, Seen
<1>3. f \in Frame /\ f.deferred \ {f.running} = deferred \cup Current.deferred
  BY <1>1, NothingIsNoEvent DEF Frame
<1> HIDE DEF f
<1>4. /\ Apart({}, frames', executed \cup removed)
      /\ UnderScan(frames') = Outer(frames) \cup (deferred \cup Current.deferred)
  <2> DEFINE held == f.deferred \ {f.running}
             done == executed \cup removed
  <2>1. /\ held \cup {} \cup done \subseteq Held(frames, Len(frames)) \cup deferred \cup done
        /\ held \cap ({} \cup done) = {} /\ {} \cap done = {}
    BY <1>1, <1>3
  <2> HIDE DEF done
  <2>2. Apart(deferred, frames, done)
    BY <1>1 DEF done
  <2>3. /\ Apart({}, SetCurrent(frames, f), done)
        /\ UnderScan(SetCurrent(frames, f)) = Outer(frames) \cup (f.deferred \ {f.running})
    BY <1>1, <1>3, <2>1, <2>2, ReplacedApart
  <2>4. QED
    BY <1>2, <1>3, <2>3 DEF done
<1>5. QED
  BY <1>1, <1>2, <1>4 DEF PlacesInv

LEMMA ReturnPlaces ==
  ASSUME ScanInv, PlacesInv, Return
  PROVE  PlacesInv'
<1> DEFINE rest == SubSeq(frames, 1, Len(frames) - 1)
           caller == rest[Len(rest)]
           f == [deferred |-> caller.deferred \ {caller.running},
                 running |-> Nothing, res |-> TRUE]
<1>1. /\ frames \in Seq(Frame) /\ frames # <<>>
      /\ Apart(deferred, frames, executed \cup removed)
      /\ UnderScan(frames) = Outer(frames)
      /\ Current.deferred = {} /\ Scanning
  BY ScanningPlaces DEF Return
<1>2. /\ frames' = IF rest = <<>> THEN rest ELSE SetCurrent(rest, f)
      /\ UNCHANGED <<deferred, executed, removed>> /\ Seen' = Seen
  BY DEF Return, history, Seen
<1>3. /\ rest \in Seq(Frame) /\ Apart(deferred, rest, executed \cup removed)
      /\ UnderScan(rest) = Outer(frames)
  BY <1>1, PoppedApart, PoppedFrame
<1> HIDE DEF rest
<1>4. Apart(deferred, frames', executed \cup removed) /\ UnderScan(frames') = UnderScan(frames)
  <2>1. CASE rest = <<>>
    BY <1>1, <1>2, <1>3, <2>1
  <2>2. CASE rest # <<>>
    <3>1. caller \in Frame
      BY <1>3, <2>2
    <3>2. f \in Frame /\ f.deferred \ {f.running} = Held(rest, Len(rest))
      BY <3>1, NothingIsNoEvent DEF Frame, Held
    <3> HIDE DEF f
    <3>3. /\ UnderScan(rest) = Outer(rest) \cup Held(rest, Len(rest))
          /\ Held(rest, Len(rest)) \cap (deferred \cup (executed \cup removed)) = {}
      BY <1>3, <2>2, InnermostApart
    <3>4. deferred \cap (executed \cup removed) = {}
      BY <1>1 DEF Apart
    <3>5. /\ Apart(deferred, SetCurrent(rest, f), executed \cup removed)
          /\ UnderScan(SetCurrent(rest, f)) = Outer(rest) \cup Held(rest, Len(rest))
      BY <1>3, <2>2, <3>2, <3>3, <3>4, ReplacedApart
    <3>6. QED
      BY <1>1, <1>2, <1>3, <2>2, <3>3, <3>5
  <2>3. QED
    BY <2>1, <2>2
<1>5. QED
  BY <1>2, <1>4 DEF PlacesInv

-----------------------------------------------------------------------------
LEMMA InitEvents == Init => EventInv
<1> SUFFICES ASSUME Init PROVE EventInv
  OBVIOUS
<1>1. /\ queued = {} /\ batch = {} /\ deferred = {} /\ frames = <<>> /\ received = 0
      /\ executed = {} /\ removed = {} /\ dispatched = <<>>
  BY DEF Init
<1>2. Fresh = {} /\ Seen = {} /\ UnderScan(frames) = {} /\ 1..received = {}
  BY <1>1 DEF Fresh, Seen, UnderScan
<1>3. PlacesInv
  BY <1>1, <1>2 DEF PlacesInv, Apart
<1>4. ArrivalInv /\ UrgencyInv
  BY <1>1, <1>2 DEF ArrivalInv, Numbered, UrgencyInv
<1>5. QED
  BY <1>3, <1>4 DEF EventInv

LEMMA ReceiveEvents ==
  ASSUME ScanInv, EventInv, NEW t \in Types, NEW p \in Priorities, Receive(t, p)
  PROVE  EventInv'
<1>1. ArrivalInv' /\ UrgencyInv'
  BY ReceiveArrives DEF EventInv
<1>2. PICK e \in Event : /\ Direct(e) \/ Enqueue(e)
                         /\ e.n = received + 1 /\ received \in Nat
  BY ReceivedEvent
<1>3. e \notin Seen
  BY <1>2, NumberedNext DEF EventInv, ArrivalInv
<1>4. ASSUME Direct(e) PROVE PlacesInv'
  <2>1. frames = <<>> /\ Dispatch(e)
    BY <1>4 DEF Direct, ScanInv, TypeOK
  <2>2. QED
    BY <1>2, <1>3, <2>1, DispatchPlaces DEF EventInv
<1>5. ASSUME Enqueue(e) PROVE PlacesInv'
  BY <1>5 DEF Enqueue, scans, EventInv, PlacesInv, Apart, UnderScan, Held, Seen
<1>6. QED
  BY <1>1, <1>2, <1>4, <1>5 DEF EventInv

LEMMA RunQueuedEvents ==
  ASSUME ScanInv, EventInv, RunQueued
  PROVE  EventInv'
<1>1. PICK e \in Tops(batch) : Dispatch(e)
  BY DEF RunQueued
<1>2. frames = <<>> /\ e \in Event \ Seen
  BY DEF RunQueued, Tops, EventInv, ArrivalInv, Fresh, ScanInv, TypeOK
<1>3. PlacesInv'
  BY <1>1, <1>2, DispatchPlaces DEF EventInv
<1>4. QED
  BY <1>3, RunQueuedArrives DEF EventInv

LEMMA NextEvents == ScanInv /\ EventInv /\ [Next]_vars => EventInv'
<1> SUFFICES ASSUME ScanInv, EventInv, [Next]_vars PROVE EventInv'
  OBVIOUS
<1> USE DEF EventInv
<1>1. CASE \E t \in Types, p \in Priorities : Receive(t, p)
  BY <1>1, ReceiveEvents
<1>2. CASE RunQueued
  BY <1>2, RunQueuedEvents
<1>3. CASE Scan
  <2>1. UNCHANGED <<queued, batch, lastEmpty, received, dispatched>>
    BY <1>3 DEF Scan, RunDeferred, Rescan, Return, history, intake
  <2>2. PlacesInv'
    BY <1>3, RunDeferredPlaces, RescanPlaces, ReturnPlaces DEF Scan
  <2>3. QED
    BY <2>1, <2>2, OtherArrives
<1>4. CASE SwapQueue
  <2>1. PlacesInv'
    BY <1>4 DEF SwapQueue, scans, history, PlacesInv, Apart, UnderScan, Held, Seen
  <2>2. QED
    BY <1>4, <2>1, SwapQueueArrives
<1>5. CASE TakeTop \/ LastLook \/ ClearTop \/ UNCHANGED vars
  <2>1. UNCHANGED <<queued, batch, lastEmpty, scans, history>>
    BY <1>5 DEF TakeTop, LastLook, ClearTop, vars, intake
  <2>2. PlacesInv'
    BY <2>1 DEF scans, history, PlacesInv, Apart, UnderScan, Held, Seen
  <2>3. QED
    BY <2>1, <2>2, OtherArrives DEF history
<1>6. QED
  BY <1>1, <1>2, <1>3, <1>4, <1>5 DEF Next, Work, Exhausted

\* EventInv is an invariant.
THEOREM EventInvariant == Spec => []EventInv
  BY InitEvents, NextEvents, ScanInvariant, PTL DEF Spec

\* No first dispatch is made before that of a more urgent event which had been
\* accepted when the call of the first one read queue_size_ as 0, or put it into
\* the queue, whether that one is queued, in the batch or dispatched later.
THEOREM EarlierAndMoreUrgentFirst == Spec => []NotOvertaken
<1>1. ScanInv /\ EventInv => NotOvertaken
  <2> SUFFICES ASSUME ScanInv, EventInv,
                      NEW i \in DOMAIN dispatched, NEW n \in 1..dispatched[i].after,
                      NEW e, \/ e \in Fresh /\ e.n = n
                             \/ \E k \in (i + 1)..Len(dispatched) :
                                    dispatched[k].n = n /\ e = dispatched[k]
               PROVE  e.priority <= dispatched[i].priority
    BY DEF NotOvertaken, Fresh
  <2>1. /\ dispatched \in Seq(Event) /\ Fresh \subseteq Event
        /\ DOMAIN dispatched = 1..Len(dispatched) /\ Len(dispatched) \in Nat
    BY DEF ScanInv, TypeOK, Fresh
  <2>2. /\ \A f \in Event : f.priority \in Priorities /\ f.after \in 0..MaxEvents
        /\ Priorities \subseteq Int /\ 0..MaxEvents \subseteq Int
    BY BoundsAssumption DEF Event
  <2>3. dispatched[i].priority \in Int /\ dispatched[i].after \in Int
    <3>1. dispatched[i] \in Event
      BY <2>1
    <3>2. QED
      BY <2>2, <3>1, Zenon
  <2>4. ~Preempts(e, dispatched[i]) /\ e \in Event /\ e.n = n
    <3>1. CASE e \in Fresh /\ e.n = n
      BY <2>1, <3>1 DEF EventInv, UrgencyInv
    <3>2. ASSUME NEW k \in (i + 1)..Len(dispatched), dispatched[k].n = n, e = dispatched[k]
          PROVE  ~Preempts(e, dispatched[i]) /\ e \in Event /\ e.n = n
      <4>1. k \in DOMAIN dispatched /\ i < k
        BY <2>1
      <4>2. QED
        BY <2>1, <3>2, <4>1 DEF EventInv, UrgencyInv
    <3>3. QED
      BY <3>1, <3>2
  <2>5. e.priority \in Int /\ n <= dispatched[i].after
    <3>1. e.priority \in Int
      BY <2>2, <2>4, Zenon
    <3>2. QED
      BY <2>3, <3>1
  <2>6. QED
    BY <2>3, <2>4, <2>5 DEF Preempts
<1>2. QED
  BY <1>1, ScanInvariant, EventInvariant, PTL

-----------------------------------------------------------------------------
\* Where events are: six kinds of places, the last one for each activation.
Intakes == <<queued, batch, deferred, executed, removed>>
Locals == [i \in DOMAIN frames |-> Held(frames, i)]
Places == Intakes \o Locals

LEMMA PlacesListed ==
  ASSUME ScanInv
  PROVE  /\ Len(frames) \in Nat /\ DOMAIN frames = 1..Len(frames)
         /\ DOMAIN Places = 1..(5 + Len(frames))
         /\ Places[1] = queued /\ Places[2] = batch /\ Places[3] = deferred
         /\ Places[4] = executed /\ Places[5] = removed
         /\ \A i \in 1..Len(frames) : 5 + i \in DOMAIN Places /\ Places[5 + i] = Held(frames, i)
         /\ \A k \in DOMAIN Places : k \in 1..5 \/ \E i \in 1..Len(frames) : k = 5 + i
<1>1. /\ frames \in Seq(Frame) /\ Len(frames) \in Nat /\ DOMAIN frames = 1..Len(frames)
  BY DEF ScanInv, TypeOK
<1>2. Intakes \in Seq(SUBSET Event) /\ Len(Intakes) = 5
  BY DEF Intakes, ScanInv, TypeOK
<1>3. Locals \in Seq(SUBSET Event) /\ Len(Locals) = Len(frames)
  <2>1. \A i \in 1..Len(frames) : Held(frames, i) \in SUBSET Event
    <3> SUFFICES ASSUME NEW i \in 1..Len(frames) PROVE Held(frames, i) \in SUBSET Event
      OBVIOUS
    <3>1. frames[i] \in Frame
      BY <1>1
    <3>2. QED
      BY <3>1 DEF Frame, Held
  <2>2. QED
    BY <1>1, <2>1 DEF Locals
<1>4. /\ Places \in Seq(SUBSET Event) /\ Len(Places) = 5 + Len(frames)
      /\ \A k \in 1..(5 + Len(frames)) :
            Places[k] = IF k <= 5 THEN Intakes[k] ELSE Locals[k - 5]
  <2>1. /\ Intakes \o Locals \in Seq(SUBSET Event)
        /\ Len(Intakes \o Locals) = Len(Intakes) + Len(Locals)
        /\ \A k \in 1..(Len(Intakes) + Len(Locals)) :
              (Intakes \o Locals)[k] = IF k <= Len(Intakes) THEN Intakes[k]
                                       ELSE Locals[k - Len(Intakes)]
    <3>1. Intakes \in Seq(SUBSET Event) /\ Locals \in Seq(SUBSET Event)
      BY <1>2, <1>3
    <3>2. QED
      BY ONLY <3>1, ConcatProperties, Zenon
  <2>2. QED
    BY <1>2, <1>3, <2>1 DEF Places
<1>5. DOMAIN Places = 1..(5 + Len(frames))
  BY <1>4
<1>6. /\ Places[1] = queued /\ Places[2] = batch /\ Places[3] = deferred
      /\ Places[4] = executed /\ Places[5] = removed
  BY <1>1, <1>4 DEF Intakes
<1>7. ASSUME NEW i \in 1..Len(frames)
      PROVE  5 + i \in DOMAIN Places /\ Places[5 + i] = Held(frames, i)
  <2>1. 5 + i \in 1..(5 + Len(frames)) /\ ~(5 + i <= 5) /\ (5 + i) - 5 = i
    BY <1>1
  <2>2. Places[5 + i] = Locals[i]
    BY <1>4, <2>1
  <2>3. QED
    BY <1>1, <1>5, <2>1, <2>2 DEF Locals
<1>8. ASSUME NEW k \in 1..(5 + Len(frames)), k \notin 1..5
      PROVE  \E i \in 1..Len(frames) : k = 5 + i
  <2>1. k - 5 \in 1..Len(frames) /\ k = 5 + (k - 5)
    BY <1>1, <1>8
  <2>2. QED
    BY <2>1
<1>9. QED
  BY <1>1, <1>5, <1>6, <1>7, <1>8

\* As many events are in some place as were received.
LEMMA NumberedCount ==
  ASSUME NEW events, NEW n \in Nat, Numbered(events, n)
  PROVE  Cardinality(events) = n
<1> DEFINE f == [k \in 1..n |-> CHOOSE e \in events : e.n = k]
<1>1. \A k \in 1..n : f[k] \in events /\ f[k].n = k
  BY DEF Numbered
<1>2. \A e \in events : e.n \in 1..n /\ f[e.n] = e
  <2> SUFFICES ASSUME NEW e \in events PROVE e.n \in 1..n /\ f[e.n] = e
    OBVIOUS
  <2>1. e.n \in 1..n
    BY DEF Numbered
  <2>2. QED
    BY <1>1, <2>1 DEF Numbered
<1>3. f \in Bijection(1..n, events)
  <2>1. f \in Injection(1..n, events)
    BY <1>1 DEF Injection, IsInjective
  <2>2. f \in Surjection(1..n, events)
    BY <1>1, <1>2 DEF Surjection
  <2>3. QED
    BY <2>1, <2>2 DEF Bijection
<1>4. IsFiniteSet(1..n) /\ Cardinality(1..n) = n
  BY FS_Interval
<1>5. QED
  BY <1>3, <1>4, FS_Bijection DEF ExistsBijection

\* Each event is dispatched for the first time once.
LEMMA DispatchedCount ==
  ASSUME ScanInv, ArrivalInv
  PROVE  Len(dispatched) = Cardinality(Seen)
<1>1. /\ dispatched \in Seq(Event) /\ Len(dispatched) \in Nat
      /\ DOMAIN dispatched = 1..Len(dispatched)
  BY DEF ScanInv, TypeOK
<1>2. dispatched \in Bijection(1..Len(dispatched), Seen)
  <2>1. dispatched \in [1..Len(dispatched) -> Seen]
    BY <1>1 DEF Seen
  <2>2. QED
    BY <1>1, <2>1 DEF Bijection, Injection, IsInjective, Surjection, ArrivalInv, Seen
<1>3. IsFiniteSet(1..Len(dispatched)) /\ Cardinality(1..Len(dispatched)) = Len(dispatched)
  BY <1>1, FS_Interval
<1>4. QED
  BY <1>2, <1>3, FS_Bijection DEF ExistsBijection

LEMMA PlacesApart ==
  ASSUME ScanInv, EventInv, NEW i \in DOMAIN Places, NEW j \in DOMAIN Places, i # j
  PROVE  Places[i] \cap Places[j] = {}
<1>1. /\ Len(frames) \in Nat /\ DOMAIN frames = 1..Len(frames)
      /\ Places[1] = queued /\ Places[2] = batch /\ Places[3] = deferred
      /\ Places[4] = executed /\ Places[5] = removed
      /\ \A k \in 1..Len(frames) : Places[5 + k] = Held(frames, k)
      /\ \A k \in DOMAIN Places : k \in 1..5 \/ \E m \in 1..Len(frames) : k = 5 + m
  BY PlacesListed
<1>2. \A k \in 1..5 : k \in {1, 2, 3, 4, 5}
  OBVIOUS
<1>3. /\ queued \cap batch = {}
      /\ (queued \cup batch) \cap Seen = {}
  <2>1. \A e \in queued \cap batch : e.n < e.n /\ e.n \in Int
    BY BoundsAssumption DEF EventInv, UrgencyInv, ScanInv, TypeOK, Event
  <2>2. QED
    BY <2>1 DEF EventInv, ArrivalInv, Fresh
<1>4. /\ deferred \cap (executed \cup removed) = {} /\ executed \cap removed = {}
      /\ deferred \cup executed \cup removed \subseteq Seen
      /\ \A k \in 1..Len(frames) : /\ Held(frames, k) \cap (deferred \cup (executed \cup removed)) = {}
                                   /\ Held(frames, k) \subseteq Seen
      /\ \A k, m \in 1..Len(frames) : k # m => Held(frames, k) \cap Held(frames, m) = {}
  BY <1>1 DEF EventInv, PlacesInv, Apart, UnderScan
<1>5. CASE i \in 1..5 /\ j \in 1..5
  BY <1>1, <1>2, <1>3, <1>4, <1>5
<1>6. ASSUME NEW k \in 1..5, NEW m \in 1..Len(frames)
      PROVE  Places[k] \cap Places[5 + m] = {}
  BY <1>1, <1>2, <1>3, <1>4
<1>7. ASSUME NEW k \in 1..Len(frames), NEW m \in 1..Len(frames), i = 5 + k, j = 5 + m
      PROVE  Places[i] \cap Places[j] = {}
  <2>1. k # m
    BY <1>7
  <2>2. QED
    BY <1>1, <1>4, <1>7, <2>1
<1>8. QED
  BY <1>1, <1>5, <1>6, <1>7

\* However deep the activations nest, no event is lost, handled twice, in two places at
\* once, or dispatched for the first time twice.
THEOREM EachEventInOnePlace == Spec => []EventsConserved
<1>1. ScanInv /\ EventInv => EventsConserved
  <2> SUFFICES ASSUME ScanInv, EventInv PROVE EventsConserved
    OBVIOUS
  <2> DEFINE everywhere == UNION {Places[i] : i \in DOMAIN Places}
  <2>1. everywhere = queued \cup batch \cup deferred \cup executed \cup removed \cup UnderScan(frames)
    <3>1. /\ DOMAIN frames = 1..Len(frames)
          /\ DOMAIN Places = 1..(5 + Len(frames)) /\ Len(frames) \in Nat
          /\ Places[1] = queued /\ Places[2] = batch /\ Places[3] = deferred
          /\ Places[4] = executed /\ Places[5] = removed
          /\ \A i \in 1..Len(frames) : 5 + i \in DOMAIN Places /\ Places[5 + i] = Held(frames, i)
          /\ \A k \in DOMAIN Places : k \in 1..5 \/ \E i \in 1..Len(frames) : k = 5 + i
      BY PlacesListed
    <3>2. {1, 2, 3, 4, 5} \subseteq DOMAIN Places /\ \A k \in 1..5 : k \in {1, 2, 3, 4, 5}
      BY <3>1
    <3>3. ASSUME NEW k \in DOMAIN Places
          PROVE  Places[k] \subseteq queued \cup batch \cup deferred \cup executed \cup removed
                                       \cup UnderScan(frames)
      <4>1. CASE k \in 1..5
        BY <3>1, <3>2, <4>1
      <4>2. CASE \E i \in 1..Len(frames) : k = 5 + i
        BY <3>1, <4>2 DEF UnderScan
      <4>3. QED
        BY <3>1, <4>1, <4>2
    <3>4. queued \cup batch \cup deferred \cup executed \cup removed \subseteq everywhere
      BY <3>1, <3>2
    <3>5. UnderScan(frames) \subseteq everywhere
      BY <3>1 DEF UnderScan
    <3>6. QED
      BY <3>3, <3>4, <3>5
  <2> HIDE DEF everywhere
  <2>2. everywhere = Fresh \cup Seen /\ Seen = everywhere \ (queued \cup batch)
    BY <2>1 DEF EventInv, PlacesInv, ArrivalInv, Fresh
  <2>3. received \in Nat
    BY BoundsAssumption DEF ScanInv, TypeOK
  <2>4. {e.n : e \in everywhere} = 1..received /\ Cardinality(everywhere) = received
    BY <2>2, <2>3, NumberedCount DEF EventInv, ArrivalInv, Numbered
  <2>5. \A i, j \in DOMAIN Places : i # j => Places[i] \cap Places[j] = {}
    BY PlacesApart
  <2>6. Len(dispatched) = Cardinality(Seen)
    BY DispatchedCount DEF EventInv
  <2>7. QED
    BY <2>2, <2>4, <2>5, <2>6 DEF EventsConserved, Places, Intakes, Locals, Held, everywhere
<1>2. QED
  BY <1>1, ScanInvariant, EventInvariant, PTL
=============================================================================

------------------------- MODULE DeferredQueue_proofs -------------------------
(***************************************************************************)
(* Proofs about DeferredQueue, for any tables and any number of events.    *)
(* Two invariants: by ListInv the cached set of types is that of the list, *)
(* and what a scan puts back is deferrable until the state changes; by     *)
(* PlacesInv every event received is in one place, and those of a steady   *)
(* type are everywhere in the order they were received in.                 *)
(***************************************************************************)
EXTENDS DeferredQueue, SequenceFacts, FiniteSetTheorems, WellFoundedInduction

LEMMA AppendTypes ==
  ASSUME NEW s \in Seq(Event), NEW e \in Event
  PROVE  Append(s, e) \in Seq(Event) /\ TypesOf(Append(s, e)) = TypesOf(s) \cup {e.type}
<1>1. Append(s, e) \in Seq(Event) /\ ToSet(Append(s, e)) = ToSet(s) \cup {e}
  BY AppendFacts
<1>2. QED
  BY <1>1 DEF TypesOf

LEMMA ConcatTypes ==
  ASSUME NEW s \in Seq(Event), NEW t \in Seq(Event)
  PROVE  s \o t \in Seq(Event) /\ TypesOf(s \o t) = TypesOf(s) \cup TypesOf(t)
<1>1. s \o t \in Seq(Event) /\ ToSet(s \o t) = ToSet(s) \cup ToSet(t)
  BY ConcatFacts
<1>2. QED
  BY <1>1 DEF TypesOf

\* The run at the front of a list exists: it ends before the first event of
\* another type, or with the list.
LEMMA RunAtFront ==
  ASSUME NEW s \in Seq(Event), s # <<>>
  PROVE  /\ RunLength(s) \in 1..Len(s)
         /\ \A i \in 1..RunLength(s) : s[i].type = s[1].type
<1> DEFINE Ends(k) == /\ \A i \in 1..k : s[i].type = s[1].type
                      /\ k = Len(s) \/ s[k + 1].type # s[1].type
           others == {j \in 1..Len(s) : s[j].type # s[1].type}
<1>1. Len(s) \in Nat /\ Len(s) >= 1
  OBVIOUS
<1>2. \E k \in 1..Len(s) : Ends(k)
  <2>1. CASE others = {}
    <3>1. Ends(Len(s))
      BY <2>1
    <3>2. QED
      BY <1>1, <3>1
  <2>2. CASE others # {}
    <3>1. others \subseteq Nat
      OBVIOUS
    <3>2. PICK j \in others : \A y \in others : ~(<<y, j>> \in OpToRel(<, Nat))
      BY <2>2, <3>1, NatLessThanWellFounded, WFMin
    <3>3. \A y \in others : ~(y < j)
      BY <3>1, <3>2 DEF OpToRel
    <3>4. j \in 2..Len(s)
      BY <1>1
    <3>5. j - 1 \in 1..Len(s) /\ (j - 1) + 1 = j
      BY <1>1, <3>4
    <3>6. \A i \in 1..(j - 1) : i \in 1..Len(s) /\ i < j
      BY <1>1, <3>4
    <3>7. Ends(j - 1)
      BY <3>3, <3>5, <3>6
    <3>8. QED
      BY <3>5, <3>7
  <2>3. QED
    BY <2>1, <2>2
<1>3. RunLength(s) \in 1..Len(s) /\ Ends(RunLength(s))
  BY <1>2 DEF RunLength
<1>4. QED
  BY <1>3

LEMMA SplitAtRun ==
  ASSUME NEW s \in Seq(Event), s # <<>>
  PROVE  /\ SubSeq(s, 1, RunLength(s)) \in Seq(Event)
         /\ SubSeq(s, RunLength(s) + 1, Len(s)) \in Seq(Event)
         /\ TypesOf(SubSeq(s, 1, RunLength(s))) = {Head(s).type}
<1> DEFINE k == RunLength(s)
           run == SubSeq(s, 1, k)
<1>1. k \in 1..Len(s) /\ \A i \in 1..k : s[i].type = s[1].type
  BY RunAtFront
<1>2. Len(s) \in Nat /\ k \in Nat /\ k >= 1 /\ Head(s) = s[1]
  BY <1>1
<1> HIDE DEF k
<1>3. /\ run \in Seq(Event) /\ Len(run) = k
      /\ \A i \in 1..k : run[i] = s[i]
  <2>1. \A i \in 1..k : s[i] \in Event
    BY <1>1
  <2>2. Len(run) = k - 1 + 1 /\ \A i \in 1..(k - 1 + 1) : run[i] = s[1 + i - 1]
    BY <1>1, <1>2, SubSeqProperties
  <2>3. QED
    BY <1>1, <1>2, <2>1, <2>2
<1>4. SubSeq(s, k + 1, Len(s)) \in Seq(Event)
  BY <1>1, <1>2
<1>5. TypesOf(run) = {s[1].type}
  <2>1. DOMAIN run = 1..k /\ 1 \in 1..k
    BY <1>2, <1>3
  <2>2. \A i \in DOMAIN run : run[i].type = s[1].type
    BY <1>1, <1>3, <2>1
  <2>3. ToSet(run) # {} /\ \A e \in ToSet(run) : e.type = s[1].type
    BY <2>1, <2>2 DEF ToSet
  <2>4. QED
    BY <2>3 DEF TypesOf
<1>6. QED
  BY <1>2, <1>3, <1>4, <1>5 DEF k

-----------------------------------------------------------------------------
LEMMA InitList == Init => ListInv
<1> SUFFICES ASSUME Init PROVE ListInv
  OBVIOUS
<1>1. state \in States /\ <<>> \in Seq(Event) /\ 0 \in 0..MaxEvents
  BY TablesAssumption, MaxEventsAssumption DEF Init
<1>2. HandledIn(state) \subseteq Types /\ Deferrable[state] \subseteq Types
  BY <1>1, TablesAssumption DEF HandledIn
<1>3. TypeOK
  BY <1>1, <1>2 DEF Init, TypeOK
<1>4. TypesOf(<<>>) = {}
  BY DEF TypesOf, ToSet
<1>5. QED
  BY <1>3, <1>4 DEF Init, ListInv, CachesFresh, IdsMatchEvents, ReturnedDeferrable,
                    NoRunnableEventLeft

\* What a dispatch does to the variables it writes, whoever makes it: the caches
\* stay fresh, the set stays that of the list, and only a deferrable type is added.
LEMMA DispatchList ==
  ASSUME ListInv, NEW e \in Event, (\E s \in States : Transits(e, s)) \/ Stays(e)
  PROVE  /\ state' \in States /\ handled' \subseteq Types /\ deferrable' \subseteq Types
         /\ events' \in Seq(Event) /\ ids' \subseteq Types
         /\ executed' \in Seq(Event) /\ removed' \subseteq Event
         /\ CachesFresh' /\ IdsMatchEvents'
<1>1. TypeOK /\ CachesFresh /\ IdsMatchEvents /\ e.type \in Types
  BY DEF ListInv, Event
<1>2. Append(executed, e) \in Seq(Event) /\ removed \cup {e} \subseteq Event
  BY <1>1 DEF TypeOK
<1>3. CASE \E s \in States : Transits(e, s)
  <2>1. PICK s \in States : Transits(e, s)
    BY <1>3
  <2>2. HandledIn(s) \subseteq Types /\ Deferrable[s] \subseteq Types
    BY TablesAssumption DEF HandledIn
  <2>3. QED
    BY <1>1, <1>2, <2>1, <2>2
    DEF Transits, TypeOK, CachesFresh, IdsMatchEvents, queue
<1>4. CASE HandlesInState(e)
  BY <1>1, <1>2, <1>4 DEF HandlesInState, TypeOK, CachesFresh, IdsMatchEvents, queue
<1>5. CASE Refuses(e)
  BY <1>1, <1>2, <1>5 DEF Refuses, TypeOK, CachesFresh, IdsMatchEvents, queue
<1>6. CASE Defers(e)
  <2>1. events \in Seq(Event)
    BY <1>1 DEF TypeOK
  <2>2. /\ Append(events, e) \in Seq(Event)
        /\ TypesOf(Append(events, e)) = TypesOf(events) \cup {e.type}
    BY <2>1, AppendTypes
  <2>3. IdsMatchEvents'
    BY <1>1, <1>6, <2>2 DEF Defers, IdsMatchEvents
  <2>4. QED
    BY <1>1, <1>6, <2>2, <2>3 DEF Defers, TypeOK, CachesFresh
<1>7. QED
  BY <1>3, <1>4, <1>5, <1>6 DEF Stays

\* A dispatch that leaves the state alone adds no type that is handled only.
LEMMA StaysDeferrable ==
  ASSUME ListInv, NEW e \in Event, Stays(e), ids \cap handled \subseteq deferrable
  PROVE  /\ UNCHANGED <<state, handled, deferrable>>
         /\ ids' \cap handled' \subseteq deferrable'
<1>1. CachesFresh
  BY DEF ListInv
<1>2. CASE HandlesInState(e) \/ Refuses(e)
  BY <1>2 DEF HandlesInState, Refuses, queue
<1>3. CASE Defers(e)
  BY <1>1, <1>3 DEF Defers, CachesFresh
<1>4. QED
  BY <1>2, <1>3 DEF Stays

LEMMA HeadOfList ==
  ASSUME NEW s \in Seq(Event), s # <<>>
  PROVE  Head(s) \in Event /\ Head(s).type \in Types /\ Tail(s) \in Seq(Event)
<1>1. Head(s) \in Event /\ Tail(s) \in Seq(Event)
  OBVIOUS
<1>2. QED
  BY <1>1 DEF Event

-----------------------------------------------------------------------------
\* A new event is dispatched when no scan is under way.
LEMMA ReceiveList ==
  ASSUME ListInv, NEW t \in Types, Receive(t)
  PROVE  ListInv'
<1> DEFINE e == [type |-> t, n |-> received + 1]
<1>1. TypeOK /\ CachesFresh /\ pc = "idle" /\ local = <<>> /\ ~res /\ ~deferredTop
  BY DEF ListInv, TypeOK, Receive
<1>2. received + 1 \in 1..MaxEvents /\ received' \in 0..MaxEvents
  BY <1>1, MaxEventsAssumption DEF TypeOK, Receive
<1>3. e \in Event
  BY <1>2 DEF Event
<1>4. (\E s \in States : Transits(e, s)) \/ Stays(e)
  BY DEF Receive
<1>5. /\ state' \in States /\ handled' \subseteq Types /\ deferrable' \subseteq Types
      /\ events' \in Seq(Event) /\ ids' \subseteq Types
      /\ executed' \in Seq(Event) /\ removed' \subseteq Event
      /\ CachesFresh' /\ IdsMatchEvents'
  BY <1>3, <1>4, DispatchList
<1>6. TypeOK'
  BY <1>1, <1>2, <1>5 DEF TypeOK, Receive
<1>7. NoRunnableEventLeft'
  <2>1. CASE pc' = "start"
    BY <2>1 DEF NoRunnableEventLeft
  <2>2. CASE Stays(e) /\ pc' = "idle"
    <3>1. ids \cap handled \subseteq deferrable
      BY <1>1 DEF ListInv, CachesFresh, NoRunnableEventLeft
    <3>2. ids' \cap handled' \subseteq deferrable'
      BY <1>3, <2>2, <3>1, StaysDeferrable
    <3>3. QED
      BY <1>5, <3>2 DEF CachesFresh, NoRunnableEventLeft
  <2>3. QED
    BY <2>1, <2>2 DEF Receive
<1>8. ReturnedDeferrable'
  BY <1>1 DEF Receive, ReturnedDeferrable
<1>9. QED
  BY <1>5, <1>6, <1>7, <1>8 DEF ListInv

LEMMA StartDrainList ==
  ASSUME ListInv, StartDrain
  PROVE  ListInv'
<1>1. TypeOK /\ CachesFresh /\ IdsMatchEvents
  BY DEF ListInv
<1>2. TypesOf(<<>>) = {} /\ <<>> \in Seq(Event)
  BY DEF TypesOf, ToSet
<1>3. CASE Skips(handled, ids)
  BY <1>1, <1>3
  DEF StartDrain, Skips, TypeOK, CachesFresh, IdsMatchEvents, ReturnedDeferrable,
      NoRunnableEventLeft, ListInv, queue, history
<1>4. CASE ~Skips(handled, ids)
  BY <1>1, <1>2, <1>4
  DEF StartDrain, TypeOK, CachesFresh, IdsMatchEvents, ReturnedDeferrable,
      NoRunnableEventLeft, ListInv, history
<1>5. QED
  BY <1>3, <1>4

LEMMA RunDeferredList ==
  ASSUME ListInv, RunDeferred
  PROVE  ListInv'
<1> DEFINE e == Head(local)
<1>1. TypeOK /\ pc = "scan" /\ local # <<>> /\ ~res
  BY DEF ListInv, RunDeferred, Scanning
<1>2. e \in Event /\ Tail(local) \in Seq(Event)
  BY <1>1, HeadOfList DEF TypeOK
<1>3. (\E s \in States : Transits(e, s)) \/ Stays(e)
  BY DEF RunDeferred
<1>4. /\ state' \in States /\ handled' \subseteq Types /\ deferrable' \subseteq Types
      /\ events' \in Seq(Event) /\ ids' \subseteq Types
      /\ executed' \in Seq(Event) /\ removed' \subseteq Event
      /\ CachesFresh' /\ IdsMatchEvents'
  BY <1>2, <1>3, DispatchList
<1>5. TypeOK'
  BY <1>1, <1>2, <1>4 DEF TypeOK, RunDeferred
<1>6. ReturnedDeferrable'
  <2>1. CASE res' = TRUE
    BY <2>1 DEF ReturnedDeferrable
  <2>2. CASE Stays(e)
    <3>1. ids \cap handled \subseteq deferrable
      BY <1>1 DEF ListInv, ReturnedDeferrable
    <3>2. QED
      BY <1>2, <2>2, <3>1, StaysDeferrable DEF ReturnedDeferrable
  <2>3. QED
    BY <2>1, <2>2 DEF RunDeferred
<1>7. NoRunnableEventLeft'
  BY <1>1 DEF RunDeferred, NoRunnableEventLeft
<1>8. QED
  BY <1>4, <1>5, <1>6, <1>7 DEF ListInv

\* A run of events goes back with its type, which is deferrable.
LEMMA PostponeList ==
  ASSUME ListInv, Postpone
  PROVE  ListInv'
<1> DEFINE k == RunLength(local)
           run == SubSeq(local, 1, k)
<1>1. TypeOK /\ CachesFresh /\ IdsMatchEvents /\ pc = "scan" /\ local # <<>> /\ ~res
  BY DEF ListInv, Postpone, Scanning
<1>2. local \in Seq(Event) /\ events \in Seq(Event)
  BY <1>1 DEF TypeOK
<1>3. /\ run \in Seq(Event) /\ SubSeq(local, k + 1, Len(local)) \in Seq(Event)
      /\ TypesOf(run) = {Head(local).type}
  BY <1>1, <1>2, SplitAtRun
<1>4. Head(local).type \in Types
  BY <1>1, <1>2, HeadOfList
<1> HIDE DEF run
<1>5. /\ events \o run \in Seq(Event)
      /\ TypesOf(events \o run) = TypesOf(events) \cup {Head(local).type}
  BY <1>2, <1>3, ConcatTypes
<1>6. /\ events' = events \o run /\ ids' = ids \cup {Head(local).type}
      /\ local' = SubSeq(local, k + 1, Len(local))
      /\ Head(local).type \notin handled
      /\ UNCHANGED <<state, handled, deferrable, deferredTop, res, pc, received, executed, removed>>
  BY DEF Postpone, run, history
<1>7. TypeOK'
  BY <1>1, <1>3, <1>4, <1>5, <1>6 DEF TypeOK
<1>8. IdsMatchEvents' /\ CachesFresh'
  BY <1>1, <1>5, <1>6 DEF IdsMatchEvents, CachesFresh
<1>9. ReturnedDeferrable' /\ NoRunnableEventLeft'
  BY <1>1, <1>6 DEF ListInv, ReturnedDeferrable, NoRunnableEventLeft
<1>10. QED
  BY <1>7, <1>8, <1>9 DEF ListInv

LEMMA DropList ==
  ASSUME ListInv, Drop
  PROVE  ListInv'
<1>1. TypeOK /\ local # <<>> /\ pc = "scan"
  BY DEF ListInv, Drop, Scanning
<1>2. Head(local) \in Event /\ Tail(local) \in Seq(Event)
  BY <1>1, HeadOfList DEF TypeOK
<1>3. TypeOK'
  BY <1>1, <1>2 DEF Drop, TypeOK, queue
<1>4. QED
  BY <1>1, <1>3
  DEF Drop, ListInv, CachesFresh, IdsMatchEvents, ReturnedDeferrable, NoRunnableEventLeft,
      queue

\* A scan that has changed nothing ends with what it put back; one that has
\* changed the state ends only if the set of types shows nothing that is handled.
LEMMA EndScanList ==
  ASSUME ListInv, EndScan
  PROVE  ListInv'
<1> DEFINE rest == events \o local
           restIds == ids \cup TypesOf(local)
<1>1. TypeOK /\ CachesFresh /\ IdsMatchEvents /\ pc = "scan"
  BY DEF ListInv, EndScan
<1>2. rest \in Seq(Event) /\ TypesOf(rest) = restIds
  BY <1>1, ConcatTypes DEF TypeOK, IdsMatchEvents
<1>3. TypesOf(<<>>) = {} /\ <<>> \in Seq(Event)
  BY DEF TypesOf, ToSet
<1>4. restIds \subseteq Types
  <2>1. \A e \in ToSet(local) : e \in Event
    BY <1>1 DEF TypeOK, ToSet
  <2>2. QED
    BY <1>1, <2>1 DEF TypesOf, TypeOK, Event
<1>5. ~res => local = <<>>
  BY DEF EndScan
<1>6. ~res \/ Skips(handled, restIds) => restIds \cap handled \subseteq deferrable
  <2>1. CASE ~res
    BY <1>1, <1>3, <1>5, <2>1 DEF ListInv, ReturnedDeferrable
  <2>2. CASE Skips(handled, restIds)
    BY <2>2 DEF Skips
  <2>3. QED
    BY <2>1, <2>2
<1> HIDE DEF rest, restIds
<1>7. /\ res' = FALSE /\ local' \in {<<>>, rest}
      /\ UNCHANGED <<state, handled, deferrable, received, executed, removed>>
      /\ IF ~res \/ Skips(handled, restIds)
         THEN PutBack(rest, restIds) ELSE TakeOut(rest)
  BY DEF EndScan, PutBack, TakeOut, rest, restIds, history
<1>8. CASE ~res \/ Skips(handled, restIds)
  BY <1>1, <1>2, <1>3, <1>4, <1>6, <1>7, <1>8
  DEF PutBack, ListInv, TypeOK, CachesFresh, IdsMatchEvents, ReturnedDeferrable,
      NoRunnableEventLeft
<1>9. CASE ~(~res \/ Skips(handled, restIds))
  BY <1>1, <1>2, <1>3, <1>7, <1>9
  DEF TakeOut, ListInv, TypeOK, CachesFresh, IdsMatchEvents, ReturnedDeferrable,
      NoRunnableEventLeft
<1>10. QED
  BY <1>8, <1>9

LEMMA ClearDeferredList ==
  ASSUME ListInv, ClearDeferred
  PROVE  ListInv'
<1>1. TypeOK /\ TypesOf(<<>>) = {} /\ <<>> \in Seq(Event)
  BY DEF ListInv, TypesOf, ToSet
<1>2. ToSet(events) \subseteq Event
  BY <1>1 DEF TypeOK, ToSet
<1>3. QED
  BY <1>1, <1>2
  DEF ClearDeferred, ListInv, TypeOK, CachesFresh, IdsMatchEvents, ReturnedDeferrable,
      NoRunnableEventLeft, drain

LEMMA NextList == ListInv /\ [Next]_vars => ListInv'
<1> SUFFICES ASSUME ListInv, [Next]_vars PROVE ListInv'
  OBVIOUS
<1>1. CASE \E t \in Types : Receive(t)
  BY <1>1, ReceiveList
<1>2. CASE Drain
  BY <1>2, StartDrainList, RunDeferredList, PostponeList, DropList, EndScanList DEF Drain
<1>3. CASE ClearDeferred
  BY <1>3, ClearDeferredList
<1>4. CASE UNCHANGED vars
  BY <1>4
  DEF vars, queue, drain, history, ListInv, TypeOK, CachesFresh, IdsMatchEvents,
      ReturnedDeferrable, NoRunnableEventLeft
<1>5. QED
  BY <1>1, <1>2, <1>3, <1>4 DEF Next, Exhausted

\* The invariant of the deferred list is inductive, through dispatches, scans
\* that are cut short and repeated, and clears.
THEOREM ListInvariant == Spec => []ListInv
  BY InitList, NextList, PTL DEF Spec

\* All variables keep their types; deferred_top_ is set exactly during a scan.
THEOREM TypeCorrect == Spec => []TypeOK
<1>1. ListInv => TypeOK
  BY DEF ListInv
<1>2. QED
  BY <1>1, ListInvariant, PTL

\* skip_deferred_queue may trust deferred_event_ids_.
THEOREM SkipIsSound == Spec => []IdsMatchEvents
<1>1. ListInv => IdsMatchEvents
  BY DEF ListInv
<1>2. QED
  BY <1>1, ListInvariant, PTL

\* When process_event_impl has returned, no deferred event is left that the
\* current state would handle, except of a type it also defers.
THEOREM NothingLeftToRun == Spec => []NoRunnableEventLeft
<1>1. ListInv => NoRunnableEventLeft
  BY DEF ListInv
<1>2. QED
  BY <1>1, ListInvariant, PTL

-----------------------------------------------------------------------------
(* Where the events are, and in which order *)

LEMMA ListedAppend ==
  ASSUME NEW s \in Seq(Event), NEW e \in Event, Listed(s), Precedes(ToSet(s), {e})
  PROVE  Listed(Append(s, e))
<1>1. /\ Len(s) \in Nat /\ DOMAIN s = 1..Len(s) /\ DOMAIN Append(s, e) = 1..(Len(s) + 1)
      /\ \A i \in 1..Len(s) : Append(s, e)[i] = s[i] /\ s[i] \in ToSet(s)
      /\ Append(s, e)[Len(s) + 1] = e
  BY AppendFacts DEF ToSet
<1> SUFFICES ASSUME NEW i \in 1..(Len(s) + 1), NEW j \in 1..(Len(s) + 1), i < j
             PROVE  Follows(Append(s, e)[i], Append(s, e)[j])
  BY <1>1 DEF Listed
<1>2. i \in 1..Len(s)
  BY <1>1
<1>3. CASE j \in 1..Len(s)
  BY <1>1, <1>2, <1>3 DEF Listed
<1>4. CASE j = Len(s) + 1
  BY <1>1, <1>2, <1>4 DEF Precedes
<1>5. QED
  BY <1>1, <1>3, <1>4

LEMMA ListedTail ==
  ASSUME NEW s \in Seq(Event), s # <<>>, Listed(s)
  PROVE  Listed(Tail(s)) /\ Precedes({Head(s)}, ToSet(Tail(s)))
<1>1. /\ \A i \in DOMAIN Tail(s) : i + 1 \in DOMAIN s /\ Tail(s)[i] = s[i + 1]
      /\ Head(s) = s[1] /\ 1 \in DOMAIN s /\ DOMAIN Tail(s) \subseteq Nat \ {0}
  BY TailFacts
<1>2. ASSUME NEW i \in DOMAIN Tail(s), NEW j \in DOMAIN Tail(s), i < j
      PROVE  Follows(Tail(s)[i], Tail(s)[j])
  <2>1. i + 1 < j + 1
    BY <1>1, <1>2
  <2>2. QED
    BY <1>1, <2>1 DEF Listed
<1>3. ASSUME NEW i \in DOMAIN Tail(s)
      PROVE  Follows(Head(s), Tail(s)[i])
  <2>1. 1 < i + 1
    BY <1>1
  <2>2. QED
    BY <1>1, <2>1 DEF Listed
<1>4. QED
  BY <1>2, <1>3 DEF Listed, Precedes, ToSet

LEMMA ListedConcat ==
  ASSUME NEW s \in Seq(Event), NEW t \in Seq(Event), Listed(s), Listed(t),
         Precedes(ToSet(s), ToSet(t))
  PROVE  Listed(s \o t)
<1>1. /\ Len(s) \in Nat /\ DOMAIN s = 1..Len(s) /\ Len(t) \in Nat /\ DOMAIN t = 1..Len(t)
      /\ DOMAIN (s \o t) = 1..(Len(s) + Len(t))
      /\ \A i \in 1..(Len(s) + Len(t)) :
            (s \o t)[i] = IF i <= Len(s) THEN s[i] ELSE t[i - Len(s)]
  BY ConcatProperties
<1> SUFFICES ASSUME NEW i \in 1..(Len(s) + Len(t)), NEW j \in 1..(Len(s) + Len(t)), i < j
             PROVE  Follows((s \o t)[i], (s \o t)[j])
  BY <1>1 DEF Listed
<1>2. CASE j <= Len(s)
  <2>1. i \in 1..Len(s) /\ j \in 1..Len(s) /\ i <= Len(s)
    BY <1>1, <1>2
  <2>2. (s \o t)[i] = s[i] /\ (s \o t)[j] = s[j]
    BY <1>1, <1>2, <2>1
  <2>3. QED
    BY <1>1, <2>1, <2>2 DEF Listed
<1>3. CASE i <= Len(s) /\ ~(j <= Len(s))
  <2>1. i \in 1..Len(s) /\ j - Len(s) \in 1..Len(t)
    BY <1>1, <1>3
  <2>2. (s \o t)[i] = s[i] /\ (s \o t)[j] = t[j - Len(s)]
    BY <1>1, <1>3
  <2>3. s[i] \in ToSet(s) /\ t[j - Len(s)] \in ToSet(t)
    BY <1>1, <2>1 DEF ToSet
  <2>4. QED
    BY <2>2, <2>3 DEF Precedes
<1>4. CASE ~(i <= Len(s))
  <2>1. /\ i - Len(s) \in 1..Len(t) /\ j - Len(s) \in 1..Len(t) /\ i - Len(s) < j - Len(s)
        /\ ~(j <= Len(s))
    BY <1>1, <1>4
  <2>2. (s \o t)[i] = t[i - Len(s)] /\ (s \o t)[j] = t[j - Len(s)]
    BY <1>1, <1>4, <2>1
  <2>3. QED
    BY <1>1, <2>1, <2>2 DEF Listed
<1>5. QED
  BY <1>2, <1>3, <1>4

\* A list cut in two: both parts are in order, one after the other.
LEMMA ListedSplit ==
  ASSUME NEW s \in Seq(Event), NEW k \in 1..Len(s), Listed(s)
  PROVE  LET front == SubSeq(s, 1, k)
             rest == SubSeq(s, k + 1, Len(s))
         IN  /\ front \in Seq(Event) /\ rest \in Seq(Event)
             /\ Listed(front) /\ Listed(rest)
             /\ Precedes(ToSet(front), ToSet(rest))
             /\ ToSet(s) = ToSet(front) \cup ToSet(rest)
<1> DEFINE front == SubSeq(s, 1, k)
           rest == SubSeq(s, k + 1, Len(s))
<1>1. k \in Nat \ {0} /\ Len(s) \in Nat /\ k <= Len(s) /\ DOMAIN s = 1..Len(s)
  OBVIOUS
<1>2. \A i \in 1..Len(s) : s[i] \in Event
  BY <1>1
<1>3. /\ front \in Seq(Event) /\ DOMAIN front = 1..k
      /\ \A i \in 1..k : front[i] = s[i]
  <2>1. /\ front \in Seq(Event) /\ Len(front) = k - 1 + 1
        /\ \A i \in 1..(k - 1 + 1) : front[i] = s[1 + i - 1]
    BY <1>1, <1>2, SubSeqProperties
  <2>2. QED
    BY <1>1, <2>1
<1>4. /\ rest \in Seq(Event) /\ DOMAIN rest = 1..(Len(s) - k)
      /\ \A i \in 1..(Len(s) - k) : rest[i] = s[k + i]
  <2>1. \A i \in (k + 1)..Len(s) : s[i] \in Event
    BY <1>1, <1>2
  <2>2. /\ rest \in Seq(Event)
        /\ Len(rest) = IF k + 1 <= Len(s) THEN Len(s) - (k + 1) + 1 ELSE 0
        /\ \A i \in 1..(Len(s) - (k + 1) + 1) : rest[i] = s[(k + 1) + i - 1]
    BY <1>1, <2>1, SubSeqProperties
  <2> HIDE DEF rest
  <2>3. Len(rest) = Len(s) - k
    <3>1. CASE k + 1 <= Len(s)
      BY <1>1, <2>2, <3>1
    <3>2. CASE ~(k + 1 <= Len(s))
      <4>1. Len(rest) = 0
        BY <2>2, <3>2
      <4>2. Len(s) - k = 0
        <5> DEFINE m == Len(s)
        <5>1. m \in Nat /\ k \in Nat /\ k <= m /\ ~(k + 1 <= m)
          BY <1>1, <3>2
        <5> HIDE DEF m
        <5>2. m - k = 0
          BY ONLY <5>1
        <5>3. QED
          BY <5>2 DEF m
      <4>3. QED
        BY <4>1, <4>2
    <3>3. QED
      BY <3>1, <3>2
  <2>4. ASSUME NEW i \in 1..(Len(s) - k)
        PROVE  rest[i] = s[k + i]
    <3>1. i \in 1..(Len(s) - (k + 1) + 1) /\ (k + 1) + i - 1 = k + i
      BY <1>1
    <3>2. QED
      BY <2>2, <3>1
  <2>5. QED
    BY <2>2, <2>3, <2>4
<1> HIDE DEF front, rest
<1>5. \A i \in 1..k : i \in 1..Len(s)
  BY <1>1
<1>6. \A i \in 1..(Len(s) - k) : k + i \in 1..Len(s)
  BY <1>1
<1>7. Listed(front)
  BY <1>1, <1>3, <1>5 DEF Listed
<1>8. Listed(rest)
  <2> SUFFICES ASSUME NEW i \in 1..(Len(s) - k), NEW j \in 1..(Len(s) - k), i < j
               PROVE  Follows(rest[i], rest[j])
    BY <1>4 DEF Listed
  <2>1. k + i < k + j
    BY <1>1
  <2>2. QED
    BY <1>1, <1>4, <1>6, <2>1 DEF Listed
<1>9. Precedes(ToSet(front), ToSet(rest))
  <2> SUFFICES ASSUME NEW i \in 1..k, NEW j \in 1..(Len(s) - k)
               PROVE  Follows(front[i], rest[j])
    BY <1>3, <1>4 DEF Precedes, ToSet
  <2>1. i < k + j
    BY <1>1
  <2>2. QED
    BY <1>1, <1>3, <1>4, <1>5, <1>6, <2>1 DEF Listed
<1>10. ToSet(s) = ToSet(front) \cup ToSet(rest)
  <2>1. ToSet(front) \cup ToSet(rest) \subseteq ToSet(s)
    BY <1>1, <1>3, <1>4, <1>5, <1>6 DEF ToSet
  <2>2. ToSet(s) \subseteq ToSet(front) \cup ToSet(rest)
    <3> SUFFICES ASSUME NEW i \in 1..Len(s) PROVE s[i] \in ToSet(front) \cup ToSet(rest)
      BY <1>1 DEF ToSet
    <3>1. CASE i <= k
      <4>1. i \in 1..k
        BY <1>1, <3>1
      <4>2. QED
        BY <1>3, <4>1 DEF ToSet
    <3>2. CASE ~(i <= k)
      <4>1. i - k \in 1..(Len(s) - k) /\ k + (i - k) = i
        BY <1>1, <3>2
      <4>2. rest[i - k] = s[i]
        BY <1>4, <4>1
      <4>3. QED
        BY <1>4, <4>1, <4>2 DEF ToSet
    <3>3. QED
      BY <3>1, <3>2
  <2>3. QED
    BY <2>1, <2>2
<1>11. QED
  BY <1>3, <1>4, <1>7, <1>8, <1>9, <1>10 DEF front, rest

-----------------------------------------------------------------------------
LEMMA InitPlaces == Init => PlacesInv
<1> SUFFICES ASSUME Init PROVE PlacesInv
  OBVIOUS
<1>1. executed = <<>> /\ events = <<>> /\ local = <<>> /\ removed = {} /\ received = 0
  BY DEF Init
<1>2. ToSet(<<>>) = {} /\ Listed(<<>>)
  BY DEF ToSet, Listed
<1>3. 1..received = {}
  BY <1>1
<1>4. QED
  BY <1>1, <1>2, <1>3 DEF PlacesInv, Precedes

\* A dispatch puts the event in one place: behind those handled, which is behind
\* none of its type if the type is steady, for then no such event is deferred while
\* it is handled; or behind those deferred; or among those removed.
LEMMA DispatchPlaces ==
  ASSUME ListInv, PlacesInv, NEW e \in Event,
         (\E s \in States : Transits(e, s)) \/ Stays(e),
         ids \cap HandledIn(state) \subseteq Deferrable[state],
         Precedes(ToSet(executed) \cup ToSet(events), {e}),
         \A x \in removed : x.n # e.n
  PROVE  /\ Listed(executed') /\ Listed(events')
         /\ Precedes(ToSet(executed'), ToSet(events'))
         /\ \A x \in removed' :
               /\ \A y \in ToSet(executed') \cup ToSet(events') : x.n # y.n
               /\ \A y \in removed' : x.n = y.n => x = y
         /\ ToSet(executed') \subseteq ToSet(executed) \cup {e}
         /\ ToSet(events') \subseteq ToSet(events) \cup {e}
         /\ removed' \subseteq removed \cup {e}
         /\ ToSet(executed') \cup ToSet(events') \cup removed'
               = ToSet(executed) \cup ToSet(events) \cup removed \cup {e}
<1>1. /\ executed \in Seq(Event) /\ events \in Seq(Event) /\ removed \subseteq Event
      /\ ids = TypesOf(events) /\ state \in States /\ e.type \in Types
  BY DEF ListInv, TypeOK, IdsMatchEvents, Event
<1>2. /\ Listed(executed) /\ Listed(events) /\ Precedes(ToSet(executed), ToSet(events))
      /\ \A x \in removed :
            /\ \A y \in ToSet(executed) \cup ToSet(events) : x.n # y.n
            /\ \A y \in removed : x.n = y.n => x = y
  BY DEF PlacesInv, Precedes
<1>3. Precedes(ToSet(executed), {e}) /\ Precedes(ToSet(events), {e})
  BY DEF Precedes
<1>4. \A x \in ToSet(executed) \cup ToSet(events) : x.n # e.n
  BY DEF Precedes, Follows
<1>5. CASE (\E s \in States : Transits(e, s)) \/ HandlesInState(e)
  <2>1. /\ executed' = Append(executed, e) /\ UNCHANGED <<events, removed>>
        /\ e.type \in HandledIn(state)
    BY <1>1, <1>5 DEF Transits, HandlesInState, queue, HandledIn
  <2>2. \A y \in ToSet(events) : y.type = e.type => e.type \notin Steady
    <3> SUFFICES ASSUME NEW y \in ToSet(events), y.type = e.type
                 PROVE  e.type \notin Steady
      OBVIOUS
    <3>1. e.type \in ids
      BY <1>1 DEF TypesOf
    <3>2. e.type \in Deferrable[state]
      BY <2>1, <3>1
    <3>3. QED
      BY <1>1, <2>1, <3>2 DEF Steady
  <2>3. Precedes({e}, ToSet(events))
    BY <1>4, <2>2 DEF Precedes, Follows
  <2>4. ToSet(executed') = ToSet(executed) \cup {e} /\ Listed(executed')
    BY <1>1, <1>2, <1>3, <2>1, AppendFacts, ListedAppend
  <2>5. Precedes(ToSet(executed'), ToSet(events'))
    BY <1>2, <2>1, <2>3, <2>4 DEF Precedes
  <2>6. QED
    BY <1>2, <2>1, <2>4, <2>5
<1>6. CASE Defers(e)
  <2>1. events' = Append(events, e) /\ UNCHANGED <<executed, removed>>
    BY <1>6 DEF Defers
  <2>2. ToSet(events') = ToSet(events) \cup {e} /\ Listed(events')
    BY <1>1, <1>2, <1>3, <2>1, AppendFacts, ListedAppend
  <2>3. Precedes(ToSet(executed'), ToSet(events'))
    BY <1>2, <1>3, <2>1, <2>2 DEF Precedes
  <2>4. QED
    BY <1>2, <2>1, <2>2, <2>3
<1>7. CASE Refuses(e)
  <2>1. removed' = removed \cup {e} /\ UNCHANGED <<executed, events>>
    BY <1>7 DEF Refuses, queue
  <2>2. QED
    BY <1>2, <1>4, <2>1
<1>8. QED
  BY <1>5, <1>6, <1>7 DEF Stays

LEMMA ReceivePlaces ==
  ASSUME ListInv, PlacesInv, NEW t \in Types, Receive(t)
  PROVE  PlacesInv'
<1> DEFINE e == [type |-> t, n |-> received + 1]
           all == ToSet(executed) \cup ToSet(events) \cup ToSet(local) \cup removed
<1>1. /\ received \in Nat /\ received + 1 \in 1..MaxEvents /\ received' = received + 1
      /\ local = <<>> /\ local' = <<>> /\ pc = "idle"
      /\ (\E s \in States : Transits(e, s)) \/ Stays(e)
  BY MaxEventsAssumption DEF Receive, ListInv, TypeOK
<1>2. e \in Event /\ e.n = received + 1
  BY <1>1 DEF Event
<1>3. \A x \in all : x.n \in 1..received
  BY DEF PlacesInv
<1>4. \A x \in all : x.n # e.n /\ x.n < e.n
  BY <1>1, <1>2, <1>3
<1>5. Precedes(ToSet(executed) \cup ToSet(events), {e}) /\ \A x \in removed : x.n # e.n
  BY <1>4 DEF Precedes, Follows
<1>6. ids \cap HandledIn(state) \subseteq Deferrable[state]
  BY <1>1 DEF ListInv, NoRunnableEventLeft
<1>7. ToSet(local) = {} /\ Listed(<<>>) /\ ToSet(local') = {}
  BY <1>1 DEF ToSet, Listed
<1> HIDE DEF e, all
<1>8. /\ Listed(executed') /\ Listed(events')
      /\ Precedes(ToSet(executed'), ToSet(events'))
      /\ \A x \in removed' :
            /\ \A y \in ToSet(executed') \cup ToSet(events') : x.n # y.n
            /\ \A y \in removed' : x.n = y.n => x = y
      /\ ToSet(executed') \cup ToSet(events') \cup removed'
            = ToSet(executed) \cup ToSet(events) \cup removed \cup {e}
  BY <1>1, <1>2, <1>5, <1>6, DispatchPlaces
<1>9. {x.n : x \in ToSet(executed') \cup ToSet(events') \cup ToSet(local') \cup removed'}
        = 1..received'
  <2>1. ToSet(executed') \cup ToSet(events') \cup ToSet(local') \cup removed' = all \cup {e}
    BY <1>7, <1>8 DEF all
  <2>2. {x.n : x \in all} = 1..received
    BY DEF PlacesInv, all
  <2>3. 1..received' = (1..received) \cup {e.n}
    BY <1>1, <1>2
  <2>4. QED
    BY <2>1, <2>2, <2>3
<1>10. QED
  BY <1>1, <1>7, <1>8, <1>9 DEF PlacesInv, Precedes

LEMMA RunDeferredPlaces ==
  ASSUME ListInv, PlacesInv, RunDeferred
  PROVE  PlacesInv'
<1> DEFINE e == Head(local)
           rest == Tail(local)
<1>1. /\ local \in Seq(Event) /\ local # <<>> /\ local' = rest /\ received' = received
      /\ pc = "scan" /\ ~res
      /\ (\E s \in States : Transits(e, s)) \/ Stays(e)
  BY DEF RunDeferred, Scanning, ListInv, TypeOK
<1>2. e \in Event /\ rest \in Seq(Event) /\ ToSet(local) = {e} \cup ToSet(rest)
  BY <1>1, TailFacts
<1>3. Listed(rest) /\ Precedes({e}, ToSet(rest))
  BY <1>1, ListedTail DEF PlacesInv
<1>4. ids \cap HandledIn(state) \subseteq Deferrable[state]
  BY <1>1 DEF ListInv, ReturnedDeferrable, CachesFresh
<1> HIDE DEF e, rest
<1>5. Precedes(ToSet(executed) \cup ToSet(events), {e}) /\ \A x \in removed : x.n # e.n
  BY <1>2 DEF PlacesInv, Precedes
<1>6. /\ Listed(executed') /\ Listed(events')
      /\ Precedes(ToSet(executed'), ToSet(events'))
      /\ \A x \in removed' :
            /\ \A y \in ToSet(executed') \cup ToSet(events') : x.n # y.n
            /\ \A y \in removed' : x.n = y.n => x = y
      /\ ToSet(executed') \subseteq ToSet(executed) \cup {e}
      /\ ToSet(events') \subseteq ToSet(events) \cup {e}
      /\ removed' \subseteq removed \cup {e}
      /\ ToSet(executed') \cup ToSet(events') \cup removed'
            = ToSet(executed) \cup ToSet(events) \cup removed \cup {e}
  BY <1>1, <1>2, <1>4, <1>5, DispatchPlaces
<1>7. Precedes(ToSet(executed) \cup ToSet(events) \cup {e}, ToSet(rest))
  BY <1>2, <1>3 DEF PlacesInv, Precedes
<1>8. Precedes(ToSet(executed'), ToSet(events') \cup ToSet(rest))
      /\ Precedes(ToSet(events'), ToSet(rest))
  BY <1>6, <1>7 DEF Precedes
<1>9. \A x \in removed' : \A y \in ToSet(rest) : x.n # y.n
  <2>1. \A y \in ToSet(rest) : e.n # y.n
    BY <1>3 DEF Precedes, Follows
  <2>2. \A x \in removed : \A y \in ToSet(rest) : x.n # y.n
    BY <1>2 DEF PlacesInv
  <2>3. QED
    BY <1>6, <2>1, <2>2
<1>10. {x.n : x \in ToSet(executed') \cup ToSet(events') \cup ToSet(rest) \cup removed'}
         = 1..received
  <2>1. ToSet(executed') \cup ToSet(events') \cup ToSet(rest) \cup removed'
          = ToSet(executed) \cup ToSet(events) \cup ToSet(local) \cup removed
    BY <1>2, <1>6
  <2>2. QED
    BY <2>1 DEF PlacesInv
<1>11. QED
  BY <1>1, <1>3, <1>6, <1>8, <1>9, <1>10 DEF PlacesInv

LEMMA StartDrainPlaces ==
  ASSUME ListInv, PlacesInv, StartDrain
  PROVE  PlacesInv'
<1>1. ToSet(<<>>) = {} /\ Listed(<<>>)
  BY DEF ToSet, Listed
<1>2. local = <<>> /\ UNCHANGED <<executed, removed, received>>
  BY DEF StartDrain, ListInv, TypeOK, history
<1>3. CASE Skips(handled, ids)
  <2>1. UNCHANGED <<local, events>>
    BY <1>3 DEF StartDrain, queue
  <2>2. QED
    BY <1>2, <2>1 DEF PlacesInv
<1>4. CASE ~Skips(handled, ids)
  <2>1. local' = events /\ events' = <<>>
    BY <1>4 DEF StartDrain
  <2>2. ToSet(events') \cup ToSet(local') = ToSet(events) \cup ToSet(local)
    BY <1>1, <1>2, <2>1
  <2>3. QED
    BY <1>1, <1>2, <2>1, <2>2 DEF PlacesInv, Precedes
<1>5. QED
  BY <1>3, <1>4

\* A list that is built of the events before others and the others, in this order.
LEMMA JoinedPlaces ==
  ASSUME PlacesInv, events \in Seq(Event), local \in Seq(Event),
         NEW front \in Seq(Event), NEW rest \in Seq(Event),
         Listed(front), Listed(rest), Precedes(ToSet(front), ToSet(rest)),
         ToSet(local) = ToSet(front) \cup ToSet(rest),
         events' = events \o front, local' = rest,
         UNCHANGED <<executed, removed, received>>
  PROVE  PlacesInv'
<1>1. /\ Listed(executed) /\ Listed(events)
      /\ Precedes(ToSet(executed), ToSet(events) \cup ToSet(local))
      /\ Precedes(ToSet(events), ToSet(local))
  BY DEF PlacesInv
<1>2. Precedes(ToSet(events), ToSet(front))
  BY <1>1 DEF Precedes
<1>3. ToSet(events') = ToSet(events) \cup ToSet(front) /\ Listed(events')
  BY <1>1, <1>2, ConcatFacts, ListedConcat
<1>4. ToSet(events') \cup ToSet(local') = ToSet(events) \cup ToSet(local)
  BY <1>3
<1>5. Precedes(ToSet(events'), ToSet(local'))
  BY <1>1, <1>3 DEF Precedes
<1>6. Precedes(ToSet(executed'), ToSet(events') \cup ToSet(local'))
  BY <1>1, <1>4
<1>7. \A x \in removed :
         \A y \in ToSet(executed) \cup ToSet(events') \cup ToSet(local') : x.n # y.n
  BY <1>4 DEF PlacesInv
<1>8. ToSet(executed) \cup ToSet(events') \cup ToSet(local') \cup removed
        = ToSet(executed) \cup ToSet(events) \cup ToSet(local) \cup removed
  BY <1>4
<1>9. QED
  BY <1>1, <1>3, <1>5, <1>6, <1>7, <1>8 DEF PlacesInv

LEMMA PostponePlaces ==
  ASSUME ListInv, PlacesInv, Postpone
  PROVE  PlacesInv'
<1> DEFINE k == RunLength(local)
           front == SubSeq(local, 1, k)
           rest == SubSeq(local, k + 1, Len(local))
<1>1. /\ local \in Seq(Event) /\ events \in Seq(Event) /\ local # <<>>
      /\ events' = events \o front /\ local' = rest
      /\ UNCHANGED <<executed, removed, received>>
  BY DEF Postpone, Scanning, ListInv, TypeOK, history
<1>2. k \in 1..Len(local)
  BY <1>1, RunAtFront
<1>3. /\ front \in Seq(Event) /\ rest \in Seq(Event) /\ Listed(front) /\ Listed(rest)
      /\ Precedes(ToSet(front), ToSet(rest))
      /\ ToSet(local) = ToSet(front) \cup ToSet(rest)
  BY <1>1, <1>2, ListedSplit DEF PlacesInv
<1> HIDE DEF front, rest
<1>4. QED
  BY <1>1, <1>3, JoinedPlaces

LEMMA DropPlaces ==
  ASSUME ListInv, PlacesInv, Drop
  PROVE  PlacesInv'
<1> DEFINE e == Head(local)
           rest == Tail(local)
<1>1. /\ local \in Seq(Event) /\ local # <<>> /\ local' = rest
      /\ removed' = removed \cup {e} /\ UNCHANGED <<executed, events, received>>
  BY DEF Drop, Scanning, ListInv, TypeOK, queue
<1>2. e \in Event /\ ToSet(local) = {e} \cup ToSet(rest)
  BY <1>1, TailFacts
<1>3. Listed(rest) /\ Precedes({e}, ToSet(rest))
  BY <1>1, ListedTail DEF PlacesInv
<1> HIDE DEF e, rest
<1>4. \A y \in ToSet(executed) \cup ToSet(events) \cup ToSet(rest) : e.n # y.n
  BY <1>2, <1>3 DEF PlacesInv, Precedes, Follows
<1>5. \A x \in removed : x.n # e.n
  BY <1>2 DEF PlacesInv
<1>6. ToSet(executed) \cup ToSet(events) \cup ToSet(rest) \cup removed'
        = ToSet(executed) \cup ToSet(events) \cup ToSet(local) \cup removed
  BY <1>1, <1>2
<1>7. /\ Precedes(ToSet(executed), ToSet(events) \cup ToSet(rest))
      /\ Precedes(ToSet(events), ToSet(rest))
  BY <1>2 DEF PlacesInv, Precedes
<1>8. \A x \in removed' :
         /\ \A y \in ToSet(executed) \cup ToSet(events) \cup ToSet(rest) : x.n # y.n
         /\ \A y \in removed' : x.n = y.n => x = y
  BY <1>1, <1>2, <1>4, <1>5 DEF PlacesInv
<1>9. QED
  BY <1>1, <1>3, <1>6, <1>7, <1>8 DEF PlacesInv

LEMMA EndScanPlaces ==
  ASSUME ListInv, PlacesInv, EndScan
  PROVE  PlacesInv'
<1>1. /\ local \in Seq(Event) /\ events \in Seq(Event) /\ <<>> \in Seq(Event)
      /\ UNCHANGED <<executed, removed, received>>
      /\ \/ events' = events \o local /\ local' = <<>>
         \/ events' = <<>> /\ local' = events \o local
  <2>1. /\ local \in Seq(Event) /\ events \in Seq(Event) /\ <<>> \in Seq(Event)
        /\ UNCHANGED <<executed, removed, received>>
    BY DEF EndScan, ListInv, TypeOK, history
  <2>2. \/ PutBack(events \o local, ids \cup TypesOf(local))
        \/ TakeOut(events \o local)
    BY DEF EndScan
  <2>3. QED
    BY <2>1, <2>2 DEF PutBack, TakeOut
<1>2. ToSet(<<>>) = {} /\ Listed(<<>>)
  BY DEF ToSet, Listed
<1>3. ToSet(events \o local) = ToSet(events) \cup ToSet(local) /\ Listed(events \o local)
  BY <1>1, ConcatFacts, ListedConcat DEF PlacesInv
<1>4. /\ ToSet(events') \cup ToSet(local') = ToSet(events) \cup ToSet(local)
      /\ Listed(events') /\ Listed(local') /\ Precedes(ToSet(events'), ToSet(local'))
  BY <1>1, <1>2, <1>3 DEF Precedes
<1>5. Precedes(ToSet(executed), ToSet(events') \cup ToSet(local')) /\ Listed(executed)
  BY <1>4 DEF PlacesInv
<1>6. \A x \in removed :
         /\ \A y \in ToSet(executed) \cup ToSet(events') \cup ToSet(local') : x.n # y.n
         /\ \A y \in removed : x.n = y.n => x = y
  BY <1>4 DEF PlacesInv
<1>7. ToSet(executed) \cup ToSet(events') \cup ToSet(local') \cup removed
        = ToSet(executed) \cup ToSet(events) \cup ToSet(local) \cup removed
  BY <1>4
<1>8. QED
  BY <1>1, <1>4, <1>5, <1>6, <1>7 DEF PlacesInv

\* What is cleared joins the events removed; the local list is out of its reach.
LEMMA ClearDeferredPlaces ==
  ASSUME ListInv, PlacesInv, ClearDeferred
  PROVE  PlacesInv'
<1>1. /\ events \in Seq(Event) /\ events' = <<>> /\ removed' = removed \cup ToSet(events)
      /\ UNCHANGED <<local, executed, received>>
  BY DEF ClearDeferred, drain, ListInv, TypeOK
<1>2. ToSet(<<>>) = {} /\ Listed(<<>>)
  BY DEF ToSet, Listed
<1>3. \A x, y \in ToSet(events) : x.n = y.n => x = y
  <2> SUFFICES ASSUME NEW i \in DOMAIN events, NEW j \in DOMAIN events,
                      events[i].n = events[j].n
               PROVE  i = j
    BY DEF ToSet
  <2>1. i \in Nat /\ j \in Nat
    BY <1>1
  <2>2. ~(i < j) /\ ~(j < i)
    BY DEF PlacesInv, Listed, Follows
  <2>3. QED
    BY <2>1, <2>2
<1>4. \A x \in ToSet(events) : \A y \in ToSet(executed) \cup ToSet(local) : x.n # y.n
  BY DEF PlacesInv, Precedes, Follows
<1>5. \A x \in removed' :
         /\ \A y \in ToSet(executed) \cup ToSet(local) : x.n # y.n
         /\ \A y \in removed' : x.n = y.n => x = y
  <2>1. \A x \in removed : \A y \in ToSet(events) : x.n # y.n
    BY DEF PlacesInv
  <2>2. \A x \in removed : \A y \in ToSet(executed) \cup ToSet(local) : x.n # y.n
    BY DEF PlacesInv
  <2>3. \A x, y \in removed : x.n = y.n => x = y
    BY DEF PlacesInv
  <2>4. QED
    BY <1>1, <1>3, <1>4, <2>1, <2>2, <2>3
<1>6. ToSet(executed) \cup ToSet(events') \cup ToSet(local) \cup removed'
        = ToSet(executed) \cup ToSet(events) \cup ToSet(local) \cup removed
  BY <1>1, <1>2
<1>7. QED
  BY <1>1, <1>2, <1>5, <1>6 DEF PlacesInv, Precedes

LEMMA NextPlaces == ListInv /\ PlacesInv /\ [Next]_vars => PlacesInv'
<1> SUFFICES ASSUME ListInv, PlacesInv, [Next]_vars PROVE PlacesInv'
  OBVIOUS
<1>1. CASE \E t \in Types : Receive(t)
  BY <1>1, ReceivePlaces
<1>2. CASE Drain
  BY <1>2, StartDrainPlaces, RunDeferredPlaces, PostponePlaces, DropPlaces, EndScanPlaces
  DEF Drain
<1>3. CASE ClearDeferred
  BY <1>3, ClearDeferredPlaces
<1>4. CASE UNCHANGED vars
  <2>1. UNCHANGED <<events, local, executed, removed, received>>
    BY <1>4 DEF vars, queue, drain, history
  <2>2. QED
    BY <2>1 DEF PlacesInv
<1>5. QED
  BY <1>1, <1>2, <1>3, <1>4 DEF Next, Exhausted

\* The invariant of where events are is inductive, relative to ListInv.
THEOREM PlacesInvariant == Spec => []PlacesInv
  BY ListInvariant, InitPlaces, NextPlaces, PTL DEF Spec

\* Events of a type that no state both handles and defers are handled in the order
\* they were received in, through any number of splits and joins of the list.
THEOREM SteadyInOrder == Spec => []HandledInOrder
<1>1. ListInv /\ PlacesInv => HandledInOrder
  <2> SUFFICES ASSUME ListInv, PlacesInv
               PROVE  HandledInOrder
    OBVIOUS
  <2>1. DOMAIN executed = 1..Len(executed)
    BY DEF ListInv, TypeOK
  <2>2. QED
    BY <2>1 DEF PlacesInv, Listed, Follows, HandledInOrder
<1>2. QED
  BY <1>1, ListInvariant, PlacesInvariant, PTL

-----------------------------------------------------------------------------
(* Counting the places *)

PlacesAt(s, n, what) == {<<what, i>> : i \in {j \in DOMAIN s : s[j].n = n}}
Removed(n) == IF \E x \in removed : x.n = n THEN {<<"removed", 1>>} ELSE {}
Numbers(S) == {x.n : x \in S}

PlacesOf(n) == UNION {Places([type |-> t, n |-> n]) : t \in Types}

LEMMA PlacesOfNumber ==
  ASSUME ListInv, NEW n
  PROVE  PlacesOf(n) = PlacesAt(executed, n, "executed") \cup PlacesAt(events, n, "events")
                         \cup PlacesAt(local, n, "local") \cup Removed(n)
<1> DEFINE e(t) == [type |-> t, n |-> n]
           all == PlacesAt(executed, n, "executed") \cup PlacesAt(events, n, "events")
                    \cup PlacesAt(local, n, "local") \cup Removed(n)
<1>1. \A t \in Types : e(t).n = n
  OBVIOUS
<1>2. \A x \in Event : x.n = n => \E t \in Types : x = e(t)
  BY DEF Event
<1>3. /\ \A j \in DOMAIN executed : executed[j] \in Event
      /\ \A j \in DOMAIN events : events[j] \in Event
      /\ \A j \in DOMAIN local : local[j] \in Event
      /\ removed \subseteq Event
  BY DEF ListInv, TypeOK
<1>4. PlacesOf(n) = UNION {Places(e(t)) : t \in Types}
  BY DEF PlacesOf
<1> HIDE DEF e
<1>5. ASSUME NEW t \in Types, NEW p \in Places(e(t))
      PROVE  p \in all
  <2>1. CASE \E j \in DOMAIN executed : executed[j] = e(t) /\ p = <<"executed", j>>
    BY <1>1, <2>1 DEF PlacesAt
  <2>2. CASE \E j \in DOMAIN events : events[j] = e(t) /\ p = <<"events", j>>
    BY <1>1, <2>2 DEF PlacesAt
  <2>3. CASE \E j \in DOMAIN local : local[j] = e(t) /\ p = <<"local", j>>
    BY <1>1, <2>3 DEF PlacesAt
  <2>4. CASE e(t) \in removed /\ p = <<"removed", 1>>
    BY <1>1, <2>4 DEF Removed
  <2>5. QED
    BY <1>5, <2>1, <2>2, <2>3, <2>4 DEF Places
<1>6. ASSUME NEW p \in all
      PROVE  \E t \in Types : p \in Places(e(t))
  <2>1. ASSUME NEW j \in DOMAIN executed, executed[j].n = n, p = <<"executed", j>>
        PROVE  \E t \in Types : p \in Places(e(t))
    BY <1>2, <1>3, <2>1 DEF Places
  <2>2. ASSUME NEW j \in DOMAIN events, events[j].n = n, p = <<"events", j>>
        PROVE  \E t \in Types : p \in Places(e(t))
    BY <1>2, <1>3, <2>2 DEF Places
  <2>3. ASSUME NEW j \in DOMAIN local, local[j].n = n, p = <<"local", j>>
        PROVE  \E t \in Types : p \in Places(e(t))
    BY <1>2, <1>3, <2>3 DEF Places
  <2>4. ASSUME NEW x \in removed, x.n = n, p = <<"removed", 1>>
        PROVE  \E t \in Types : p \in Places(e(t))
    <3>1. PICK t \in Types : e(t) \in removed
      BY <1>2, <1>3, <2>4
    <3>2. p \in Places(e(t))
      BY <2>4, <3>1 DEF Places
    <3>3. QED
      BY <3>2
  <2>5. QED
    BY <1>6, <2>1, <2>2, <2>3, <2>4 DEF PlacesAt, Removed
<1>7. QED
  BY <1>4, <1>5, <1>6

LEMMA OnePlace ==
  ASSUME NEW s \in Seq(Event), Listed(s), NEW n, NEW what
  PROVE  IF n \in Numbers(ToSet(s)) THEN \E p : PlacesAt(s, n, what) = {p}
                                    ELSE PlacesAt(s, n, what) = {}
<1>1. CASE n \in Numbers(ToSet(s))
  <2>1. PICK k \in DOMAIN s : s[k].n = n
    BY <1>1 DEF Numbers, ToSet
  <2>2. \A j \in DOMAIN s : s[j].n = n => j = k
    <3> SUFFICES ASSUME NEW j \in DOMAIN s, s[j].n = n
                 PROVE  j = k
      OBVIOUS
    <3>1. j \in Nat /\ k \in Nat
      OBVIOUS
    <3>2. ~(j < k) /\ ~(k < j)
      BY <2>1 DEF Listed, Follows
    <3>3. QED
      BY <3>1, <3>2
  <2>3. PlacesAt(s, n, what) = {<<what, k>>}
    BY <2>1, <2>2 DEF PlacesAt
  <2>4. QED
    BY <1>1, <2>3
<1>2. CASE n \notin Numbers(ToSet(s))
  BY <1>2 DEF Numbers, ToSet, PlacesAt
<1>3. QED
  BY <1>1, <1>2

LEMMA PlacesCounted ==
  ASSUME ListInv, PlacesInv, NEW n
  PROVE  IF n \in 1..received THEN \E p : PlacesOf(n) = {p} ELSE PlacesOf(n) = {}
<1> DEFINE Ex == PlacesAt(executed, n, "executed")
           Ev == PlacesAt(events, n, "events")
           Lo == PlacesAt(local, n, "local")
           NEx == Numbers(ToSet(executed))
           NEv == Numbers(ToSet(events))
           NLo == Numbers(ToSet(local))
           NRe == Numbers(removed)
<1>1. PlacesOf(n) = Ex \cup Ev \cup Lo \cup Removed(n)
  BY PlacesOfNumber
<1>2. /\ executed \in Seq(Event) /\ events \in Seq(Event) /\ local \in Seq(Event)
      /\ Listed(executed) /\ Listed(events) /\ Listed(local)
  BY DEF ListInv, TypeOK, PlacesInv
<1>3. /\ IF n \in NEx THEN \E p : Ex = {p} ELSE Ex = {}
      /\ IF n \in NEv THEN \E p : Ev = {p} ELSE Ev = {}
      /\ IF n \in NLo THEN \E p : Lo = {p} ELSE Lo = {}
  BY <1>2, OnePlace
<1>4. IF n \in NRe THEN \E p : Removed(n) = {p} ELSE Removed(n) = {}
  BY DEF Removed, Numbers
<1>5. 1..received = NEx \cup NEv \cup NLo \cup NRe
  BY DEF PlacesInv, Numbers
<1>6. NEx \cap NEv = {} /\ NEx \cap NLo = {} /\ NEv \cap NLo = {}
  BY DEF PlacesInv, Precedes, Follows, Numbers
<1>7. NRe \cap NEx = {} /\ NRe \cap NEv = {} /\ NRe \cap NLo = {}
  BY DEF PlacesInv, Numbers
<1> HIDE DEF Ex, Ev, Lo, NEx, NEv, NLo, NRe
<1>8. CASE n \in NEx
  BY <1>1, <1>3, <1>4, <1>5, <1>6, <1>7, <1>8
<1>9. CASE n \in NEv
  BY <1>1, <1>3, <1>4, <1>5, <1>6, <1>7, <1>9
<1>10. CASE n \in NLo
  BY <1>1, <1>3, <1>4, <1>5, <1>6, <1>7, <1>10
<1>11. CASE n \in NRe
  BY <1>1, <1>3, <1>4, <1>5, <1>6, <1>7, <1>11
<1>12. CASE n \notin 1..received
  BY <1>1, <1>3, <1>4, <1>5, <1>12
<1>13. QED
  BY <1>5, <1>8, <1>9, <1>10, <1>11, <1>12

\* No event is lost or handled twice: each one received is handled, removed, deferred
\* or under scan, and is so once.
THEOREM EachEventOnce == Spec => []EventsConserved
<1>1. ListInv /\ PlacesInv => EventsConserved
  <2> SUFFICES ASSUME ListInv, PlacesInv, NEW n \in 1..MaxEvents
               PROVE  Cardinality(PlacesOf(n)) = IF n <= received THEN 1 ELSE 0
    BY DEF EventsConserved, PlacesOf
  <2>1. n <= received <=> n \in 1..received
    BY MaxEventsAssumption DEF ListInv, TypeOK
  <2>2. Cardinality(PlacesOf(n)) = IF n \in 1..received THEN 1 ELSE 0
    BY PlacesCounted, FS_Singleton, FS_EmptySet
  <2>3. QED
    BY <2>1, <2>2
<1>2. QED
  BY <1>1, ListInvariant, PlacesInvariant, PTL
=============================================================================

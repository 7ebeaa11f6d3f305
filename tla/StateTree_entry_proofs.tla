------------------------ MODULE StateTree_entry_proofs ------------------------
(***************************************************************************)
(* For every hierarchy, every tables, guards and handlers: the states that *)
(* were entered and not left are the active ones, and they are entered     *)
(* from the outside in and left from the inside out (EntriesMatch and      *)
(* EntryOrder).                                                            *)
(*                                                                         *)
(* In the middle of an event neither the entries nor the current states    *)
(* say where the machine is.  The invariant, EntryInv, gives the calls     *)
(* that are left their part: a state has been entered if a call will leave *)
(* it; otherwise it has not, if a call will enter it; otherwise it has, if *)
(* the machine around it has been and will be in that state when its       *)
(* transition is complete (Ruled).  For this to be kept, each call must be *)
(* one that can be made where the machine is (Accountable), and the calls  *)
(* must come in an order in which none gets in the way of a later one      *)
(* (Apart).                                                                *)
(*                                                                         *)
(* With it, that what is inactive is as new (InactiveIsNew): data that has *)
(* been changed is that of a state that is entered, or will be, or will be *)
(* cleared (DataInv).                                                      *)
(***************************************************************************)
EXTENDS StateTree_proofs

-----------------------------------------------------------------------------
(* What is left to enter and to leave.  The entries of a stack are looked at *)
(* as a set F; only Apart is about their order.                              *)

Exits(f) == f.op = "exit" \/ (f.op = "call" /\ f.kind = "exit")
Enters(f) == f.op = "enter" \/ (f.op = "call" /\ f.kind = "enter")
LastExit(f) == f.op = "call" /\ f.kind = "exit"
FirstEntry(f) == f.op = "call" /\ f.kind = "enter"

\* The state will be left, or entered; everything inside it has been left or is
\* about to be; it will be entered before what is inside it.
Leaving(F, n) == \E f \in F : Exits(f) /\ f.of = n
Entering(F, n) == \E f \in F : Enters(f) /\ f.of = n
Emptied(F, n) == \E f \in F : LastExit(f) /\ f.of = n
Opening(F, n) == \E f \in F : FirstEntry(f) /\ f.of = n

\* The machine is making a transition; it will be as new; and what is entered in
\* it from now on is what is entered in a new one.
Moving(F, m) == \E f \in F : f.op = "set" /\ f.of = m
MovingTo(F, m, t) == \E f \in F : f.op = "set" /\ f.of = m /\ f.to = t
Clearing(F, m) == \E f \in F : f.op = "clear" /\ m \in Below(f.of)
Renewed(F, m) == \E f \in F : f.op = "clear" /\ m \in Below(f.of) /\ ~Leaving(F, f.of)

\* What is immediately inside such a state is counted.
Firm(n) == Up[n] \cap Stale = {}

\* Some row leads from the state to itself.
Repeats(x) == \E m \in Machines : \E r \in ToSet(Table[m]) : r.from = x /\ r.to = x

-----------------------------------------------------------------------------
(* The order of the calls: f comes before g.                                 *)

Spawns(f) == f.op \in {"dispatch", "region", "rows", "settle", "default"}
Works(f) == Spawns(f) \/ Exits(f) \/ f.op = "enter"
Keyed(f) == Spawns(f) \/ f.op = "set" \/ Exits(f) \/ Enters(f)

\* The states that the call enters or leaves, itself or by what it calls.
Reach(f) ==
    IF Exits(f) \/ f.op \in {"dispatch", "enter"} THEN Below(f.of) ELSE Below(f.of) \ {f.of}

\* Exits come first, and no dispatch in the middle of a transition.
InPhase(f, g) ==
    /\ Exits(g) => Exits(f)
    /\ g.op = "clear" => /\ f.op \notin {"dispatch", "region", "settle"}
                         /\ f.op = "rows" => f.event = None

\* Nothing inside is entered or left later, but that what is left may be entered again;
\* and nothing around is entered later.
Nested(f, g) ==
    /\ Works(f) /\ Keyed(g) /\ g.of \in Reach(f) => Exits(f) /\ Enters(g) /\ g.of = f.of
    /\ (Spawns(f) \/ Enters(f)) /\ Enters(g) => f.of \notin Below(g.of)

\* The last step of a transition, after which it enters and clears nothing.
Ending(f, g) == f.op = "set" /\ (Enters(g) \/ g.op = "clear") => g.of \notin Children(f.of)

\* Regions are entered one after the other and left in reverse order.
InOrder(f, g) ==
    \A o \in Orthogonal : \A i, j \in DOMAIN Regions[o] :
        f.of = Regions[o][i] /\ g.of = Regions[o][j] =>
            /\ Enters(f) /\ Enters(g) => i < j
            /\ Exits(f) /\ Exits(g) => i > j

\* Inside a state that will be cleared only the initial states are entered; that
\* happens when a transition leads back to it.
BeforeClear(f, g) ==
    g.op = "clear" /\ f.of \in Below(g.of) =>
        /\ (Enters(f) \/ f.op \in {"default", "rows"}) /\ f.of \in Tracked =>
              f.of \in EnteredWith(g.of) /\ Repeats(g.of)
        /\ f.op = "set" => ~Firm(f.of)

Apart(f, g) ==
    InPhase(f, g) /\ Nested(f, g) /\ Ending(f, g) /\ InOrder(f, g) /\ BeforeClear(f, g)
Pairwise(s) == \A i, j \in DOMAIN s : i < j => Apart(s[i], s[j])

-----------------------------------------------------------------------------
(* The calls and the entries counted: c are the current states, e the entries. *)

\* Who dispatches or changes its current state has been entered.
Opened(F, f, e) ==
    f.of \in Tracked =>
        /\ f.op \in {"dispatch", "region", "rows", "settle", "set"} => e[f.of] = 1
        /\ f.op = "default" => e[f.of] = 1 \/ Opening(F, f.of)

\* A state is left with its machine, or in a transition of it, and then it is
\* cleared after that; and so is what is inside it.
Left(F, f) ==
    Exits(f) =>
        /\ f.of # Root
        /\ \/ Emptied(F, Parent[f.of])
           \/ Moving(F, Parent[f.of]) /\ (Entering(F, f.of) \/ ~MovingTo(F, Parent[f.of], f.of))
        /\ f.of \in Tracked =>
              /\ Clearing(F, f.of)
              /\ \A g \in F : g.op = "clear" /\ f.of \in Below(g.of) => Leaving(F, g.of)

\* A state is entered after its machine, as the target of a transition or as
\* the state in which a machine begins.
Begins(F, m, c) == ~Moving(F, m) /\ (c[m] = Initial[m] \/ Clearing(F, m))
Joined(F, f, c, e) ==
    Enters(f) =>
        /\ f.of # Root
        /\ f.of \in Tracked =>
              /\ e[Parent[f.of]] = 1 \/ Opening(F, Parent[f.of])
              /\ Parent[f.of] \in Machines =>
                    \/ MovingTo(F, Parent[f.of], f.of)
                    \/ f.of = Initial[Parent[f.of]] /\ Begins(F, Parent[f.of], c)

\* When a state has been entered, what is inside it follows.
Prepared(F, f) ==
    FirstEntry(f) /\ Firm(f.of) =>
        /\ f.of \in Machines => Entering(F, Initial[f.of])
        /\ f.of \in Orthogonal => \A r \in ToSet(Regions[f.of]) : Entering(F, r)

Vacated(F, f) == f.op = "clear" => f.of # Root /\ Moving(F, Parent[f.of])

\* With a region the later ones are still to be entered, or the earlier ones to be left.
Following(F, f) ==
    \A o \in Orthogonal : \A i, j \in DOMAIN Regions[o] : f.of = Regions[o][i] =>
        /\ Enters(f) /\ i < j => Entering(F, Regions[o][j])
        /\ Exits(f) /\ i > j => Leaving(F, Regions[o][j])

Accountable(F, f, c, e) ==
    /\ Opened(F, f, e) /\ Left(F, f) /\ Joined(F, f, c, e)
    /\ Prepared(F, f) /\ Vacated(F, f) /\ Following(F, f)

\* What a machine with entered states holds, or will hold when the calls are made.
Slot(F, c, m, n) ==
    IF Moving(F, m) THEN MovingTo(F, m, n)
    ELSE n = IF Renewed(F, m) THEN Initial[m] ELSE c[m]
Inhabits(F, c, e, n) ==
    /\ e[Parent[n]] = 1 /\ ~Emptied(F, Parent[n])
    /\ Parent[n] \in Machines => Slot(F, c, Parent[n], n)

\* A state is entered if it has still to be left; otherwise not, if it has still
\* to be entered; otherwise, if the machine around it is and it is the current state.
Ruled(F, c, e, n) ==
    /\ Leaving(F, n) => e[n] = 1
    /\ Entering(F, n) /\ ~Leaving(F, n) => e[n] = 0
    /\ ~Leaving(F, n) /\ ~Entering(F, n) => e[n] = IF Inhabits(F, c, e, n) THEN 1 ELSE 0

\* A machine that is not entered is as new, or will be.
Fresh(F, c, e, m) == Firm(m) /\ e[m] = 0 => c[m] = Initial[m] \/ Clearing(F, m)

Entries(F, c, e) ==
    /\ \A f \in F : Accountable(F, f, c, e)
    /\ \A n \in Tracked \ {Root} : Ruled(F, c, e, n)
    /\ e[Root] = 1
    /\ \A m \in Machines : Fresh(F, c, e, m)

EntryInv == failed \/ (~throwing /\ Pairwise(todo) /\ Entries(ToSet(todo), current, entered))

-----------------------------------------------------------------------------
(* The hierarchy *)

\* What is around a state that is counted is counted too.
LEMMA TrackedAround ==
  ASSUME NEW n \in Tracked, n # Root
  PROVE  /\ n \in States /\ n \in DOMAIN Parent /\ n \in Children(Parent[n])
         /\ Parent[n] \in States /\ Parent[n] \in Machines \cup Orthogonal
         /\ Parent[n] \in Tracked /\ Firm(Parent[n])
         /\ Up[n] = {n} \cup Up[Parent[n]] /\ n \notin Up[Parent[n]]
<1>1. n \in States /\ n \in DOMAIN Parent
  BY TreeAssumption DEF Tracked
<1>2. /\ Up[n] = {n} \cup Up[Parent[n]] /\ n \notin Up[Parent[n]] /\ Parent[n] \in States
      /\ Parent[n] \in Machines \cup Orthogonal
  BY <1>1, UpStep, ParentInTree, TreeAssumption
<1>3. Firm(Parent[n])
  BY <1>2 DEF Tracked, Firm
<1>4. QED
  BY <1>1, <1>2, <1>3 DEF Tracked, Firm, Children

\* The states immediately inside a firm one are counted.
LEMMA FirmChild ==
  ASSUME NEW m \in States, Firm(m), NEW n \in Children(m)
  PROVE  n \in Tracked /\ n # Root /\ m \in Tracked /\ n \in States /\ Parent[n] = m
<1>1. n \in DOMAIN Parent /\ Parent[n] = m /\ n \in States /\ n # Root /\ Up[n] = {n} \cup Up[m]
  BY ParentInTree, UpStep DEF Children
<1>2. QED
  BY <1>1 DEF Tracked, Firm

LEMMA RootTracked == Root \in Tracked /\ Root \in States
  BY UpRoot, TreeAssumption DEF Tracked

\* Inside a state, from another state inside it one step outwards stays inside.
LEMMA ParentBelow ==
  ASSUME NEW x \in States, NEW a \in Below(x), a # x
  PROVE  a \in DOMAIN Parent /\ a \in States /\ Parent[a] \in Below(x) /\ Parent[a] \in States
<1>1. a \in States /\ x \in Up[a]
  BY DEF Below
<1>2. a # Root
  BY <1>1, UpRoot
<1>3. a \in DOMAIN Parent /\ Up[a] = {a} \cup Up[Parent[a]] /\ Parent[a] \in States
  BY <1>1, <1>2, UpStep, ParentInTree, TreeAssumption
<1>4. QED
  BY <1>1, <1>3 DEF Below

LEMMA BelowStep ==
  ASSUME NEW n \in States, NEW a \in Below(n)
  PROVE  Below(a) \subseteq Below(n) /\ a \in States
<1>1. a \in States /\ n \in Up[a]
  BY DEF Below
<1>2. ASSUME NEW b \in Below(a) PROVE b \in Below(n)
  <2>1. b \in States /\ a \in Up[b] /\ Up[b] \in Closed
    <3>1. b \in States /\ a \in Up[b]
      BY <1>2 DEF Below
    <3>2. \A x \in Up[b] \ {Root} : Parent[x] \in Up[b]
      BY <3>1, UpParent
    <3>3. QED
      BY <3>1, <3>2, UpSelf DEF Closed
  <2>2. Up[a] \subseteq Up[b]
    BY <1>1, <2>1, UpLeast
  <2>3. QED
    BY <1>1, <2>1, <2>2 DEF Below
<1>3. QED
  BY <1>1, <1>2

\* Of two states around one, one is inside the other.
LEMMA AroundOrdered ==
  ASSUME NEW a \in States, NEW x \in Up[a], NEW y \in Up[a]
  PROVE  x \in Up[y] \/ y \in Up[x]
<1> SUFFICES ASSUME x \notin Up[y] PROVE y \in Up[x]
  OBVIOUS
<1> DEFINE S == {z \in Up[a] : x \in Up[z]} \cup Up[x]
<1>1. x \in States /\ y \in States /\ Up[a] \subseteq States
  BY UpSelf
<1>2. ASSUME NEW z \in S, z # Root
      PROVE  Parent[z] \in S
  <2>1. CASE z \in Up[x]
    BY <1>1, <1>2, <2>1, UpParent
  <2>2. CASE z \in Up[a] /\ x \in Up[z]
    <3>1. z \in DOMAIN Parent /\ Parent[z] \in Up[a]
      BY <1>1, <1>2, <2>2, UpParent, TreeAssumption
    <3>2. x = z \/ x \in Up[Parent[z]]
      BY <2>2, <3>1, UpStep
    <3>3. x = z => Parent[z] \in Up[x]
      BY <1>1, <1>2, UpParent, UpSelf
    <3>4. QED
      BY <3>1, <3>2, <3>3
  <2>3. QED
    BY <2>1, <2>2
<1>3. S \in Closed /\ a \in S
  BY <1>1, <1>2, UpSelf DEF Closed
<1>4. y \in S
  BY <1>3, UpLeast
<1>5. QED
  BY <1>4

\* Entry goes on to the initial state and to all regions.
LEMMA EnteredFurther ==
  ASSUME NEW x \in States, NEW m \in EnteredWith(x), NEW n \in Children(m),
         m \in Machines => n = Initial[m]
  PROVE  n \in EnteredWith(x)
<1>1. m \in Below(x) /\ m \in States /\ n \in DOMAIN Parent /\ Parent[n] = m /\ n \in States
      /\ Up[n] = {n} \cup Up[m]
  BY ParentInTree, UpStep DEF EnteredWith, Below, Children
<1>2. n \in Below(x)
  BY <1>1 DEF Below
<1>3. ASSUME NEW a \in (Up[n] \cap Below(x)) \ {x}, Parent[a] \in Machines
      PROVE  Initial[Parent[a]] = a
  BY <1>1, <1>3 DEF EnteredWith
<1>4. QED
  BY <1>2, <1>3 DEF EnteredWith

\* Entering a state enters that state, and nothing outside it.
LEMMA EnteredSelf ==
  ASSUME NEW x \in States
  PROVE  x \in EnteredWith(x) /\ EnteredWith(x) \subseteq Below(x)
<1>1. ASSUME NEW a \in (Up[x] \cap Below(x)) \ {x} PROVE FALSE
  <2>1. a \in States /\ x \in Up[a] /\ a \in Up[x] /\ a \in Below(x)
    BY <1>1 DEF Below
  <2>2. a \in DOMAIN Parent /\ Parent[a] \in Below(x)
    BY <1>1, <2>1, ParentBelow
  <2>3. x \in Up[Parent[a]]
    BY <2>2 DEF Below
  <2>4. Parent[a] \in States
    BY <2>2, ParentInTree
  <2>5. Up[x] \subseteq Up[Parent[a]]
    <3>1. \A z \in Up[Parent[a]] \ {Root} : Parent[z] \in Up[Parent[a]]
      BY <2>4, UpParent
    <3>2. Up[Parent[a]] \in Closed
      BY <3>1, <2>4, UpSelf DEF Closed
    <3>3. QED
      BY <3>2, <2>3, UpLeast
  <2>6. QED
    BY <2>1, <2>2, <2>5, TreeAssumption
<1>2. QED
  BY <1>1, UpSelf DEF EnteredWith

\* A machine that is entered by a repeating transition and has default
\* transitions is not Firm.
LEMMA StaleByDefault ==
  ASSUME NEW x \in States, Repeats(x), NEW m \in Machines, m \in EnteredWith(x),
         NEW i \in DOMAIN Table[m], Table[m][i].event = None
  PROVE  m \in Stale /\ ~Firm(m)
<1>1. PICK y \in Machines : \E r \in ToSet(Table[y]) : r.from = x /\ r.to = x
  BY DEF Repeats
<1>5. PICK q \in ToSet(Table[y]) : q.from = x /\ q.to = x
  BY <1>1
<1>2. Table[m][i] \in ToSet(Table[m])
  BY DEF ToSet
<1>3. q \in UNION {ToSet(Table[z]) : z \in Machines}
  BY <1>5
<1>4. m \in Stale
  BY <1>5, <1>2, <1>3 DEF Stale
<1>6. QED
  BY <1>4, UpSelf, TreeAssumption DEF Firm

-----------------------------------------------------------------------------
(* Stacks and sets of calls *)

\* Two stacks, one put on the other.
LEMMA PairwiseConcat ==
  ASSUME NEW s \in Seq(Frame), NEW t \in Seq(Frame), Pairwise(s), Pairwise(t),
         \A f \in ToSet(s), g \in ToSet(t) : Apart(f, g)
  PROVE  s \o t \in Seq(Frame) /\ Pairwise(s \o t) /\ ToSet(s \o t) = ToSet(s) \cup ToSet(t)
<1> DEFINE n == Len(s)
           st == s \o t
<1>1. /\ n \in Nat /\ DOMAIN s = 1..n /\ Len(t) \in Nat /\ DOMAIN t = 1..Len(t)
      /\ st \in Seq(Frame) /\ DOMAIN st = 1..(n + Len(t))
      /\ \A i \in 1..n : st[i] = s[i]
      /\ \A i \in (n + 1)..(n + Len(t)) : st[i] = t[i - n]
  OBVIOUS
<1> HIDE DEF n, st
<1>2. ASSUME NEW i \in DOMAIN st, NEW j \in DOMAIN st, i < j
      PROVE  Apart(st[i], st[j])
  <2>1. CASE j <= n
    <3>1. i \in DOMAIN s /\ j \in DOMAIN s /\ st[i] = s[i] /\ st[j] = s[j]
      BY <1>1, <1>2, <2>1
    <3>2. QED
      BY <1>2, <3>1 DEF Pairwise
  <2>2. CASE i > n
    <3>1. /\ i - n \in DOMAIN t /\ j - n \in DOMAIN t /\ i - n < j - n
          /\ st[i] = t[i - n] /\ st[j] = t[j - n]
      BY <1>1, <1>2, <2>2
    <3>2. QED
      BY <3>1 DEF Pairwise
  <2>3. CASE i <= n /\ j > n
    <3>1. i \in DOMAIN s /\ j - n \in DOMAIN t /\ st[i] = s[i] /\ st[j] = t[j - n]
      BY <1>1, <1>2, <2>3
    <3>2. st[i] \in ToSet(s) /\ st[j] \in ToSet(t)
      BY <3>1 DEF ToSet
    <3>3. QED
      BY <3>2
  <2>4. QED
    BY <1>1, <1>2, <2>1, <2>2, <2>3
<1>3. ToSet(s \o t) = ToSet(s) \cup ToSet(t)
  BY ConcatFacts
<1>4. QED
  BY <1>1, <1>2, <1>3 DEF Pairwise, st

LEMMA PairwiseTail ==
  ASSUME NEW s \in Seq(Frame), s # <<>>, Pairwise(s)
  PROVE  Pairwise(Tail(s)) /\ \A g \in ToSet(Tail(s)) : Apart(Head(s), g)
<1> DEFINE t == Tail(s)
<1>1. /\ Head(s) = s[1] /\ 1 \in DOMAIN s /\ t \in Seq(Frame) /\ DOMAIN t \subseteq Nat \ {0}
      /\ \A i \in DOMAIN t : i + 1 \in DOMAIN s /\ t[i] = s[i + 1]
  BY TailFacts
<1> HIDE DEF t
<1>2. ASSUME NEW i \in DOMAIN t, NEW j \in DOMAIN t, i < j PROVE Apart(t[i], t[j])
  <2>1. i + 1 < j + 1
    BY <1>1, <1>2
  <2>2. QED
    BY <1>1, <2>1 DEF Pairwise
<1>3. ASSUME NEW g \in ToSet(t) PROVE Apart(s[1], g)
  <2>1. PICK j \in DOMAIN t : g = t[j]
    BY DEF ToSet
  <2>2. 1 < j + 1
    BY <1>1
  <2>3. QED
    BY <1>1, <2>1, <2>2 DEF Pairwise
<1>4. QED
  BY <1>1, <1>2, <1>3 DEF t, Pairwise

LEMMA PairwiseOne ==
  ASSUME NEW f \in Frame
  PROVE  <<f>> \in Seq(Frame) /\ ToSet(<<f>>) = {f} /\ Pairwise(<<f>>)
<1>1. DOMAIN <<f>> = {1} /\ <<f>> \in Seq(Frame) /\ ToSet(<<f>>) = {f}
  BY ToSetOne
<1>2. QED
  BY <1>1 DEF Pairwise

LEMMA PairwiseNone == <<>> \in Seq(Frame) /\ ToSet(<<>>) = {} /\ Pairwise(<<>>)
<1>1. DOMAIN <<>> = {}
  OBVIOUS
<1>2. QED
  BY <1>1 DEF Pairwise, ToSet

LEMMA PairwiseTwo ==
  ASSUME NEW f \in Frame, NEW g \in Frame, Apart(f, g)
  PROVE  <<f, g>> \in Seq(Frame) /\ ToSet(<<f, g>>) = {f, g} /\ Pairwise(<<f, g>>)
<1>1. DOMAIN <<f, g>> = {1, 2} /\ <<f, g>>[1] = f /\ <<f, g>>[2] = g
      /\ <<f, g>> \in Seq(Frame) /\ ToSet(<<f, g>>) = {f, g}
  BY ToSetTwo
<1>2. \A i, j \in {1, 2} : i < j => i = 1 /\ j = 2
  OBVIOUS
<1>3. QED
  BY <1>1, <1>2 DEF Pairwise

\* What is in F is in one of its parts.
LEMMA Presence ==
  ASSUME NEW A, NEW T
  PROVE  /\ \A n : Leaving(A \cup T, n) <=> Leaving(A, n) \/ Leaving(T, n)
         /\ \A n : Entering(A \cup T, n) <=> Entering(A, n) \/ Entering(T, n)
         /\ \A n : Emptied(A \cup T, n) <=> Emptied(A, n) \/ Emptied(T, n)
         /\ \A n : Opening(A \cup T, n) <=> Opening(A, n) \/ Opening(T, n)
         /\ \A m : Moving(A \cup T, m) <=> Moving(A, m) \/ Moving(T, m)
         /\ \A m, t : MovingTo(A \cup T, m, t) <=> MovingTo(A, m, t) \/ MovingTo(T, m, t)
         /\ \A m : Clearing(A \cup T, m) <=> Clearing(A, m) \/ Clearing(T, m)
  BY DEF Leaving, Entering, Emptied, Opening, Moving, MovingTo, Clearing

\* Calls that neither enter nor leave nor change anything.
Quiet(f) == ~Exits(f) /\ ~Enters(f) /\ f.op \notin {"set", "clear"}

\* Calls that enter, leave, clear and set nothing do not count.
LEMMA QuietPresence ==
  ASSUME NEW A, NEW T, \A f \in A : Quiet(f)
  PROVE  /\ \A n : Leaving(A \cup T, n) <=> Leaving(T, n)
         /\ \A n : Entering(A \cup T, n) <=> Entering(T, n)
         /\ \A n : Emptied(A \cup T, n) <=> Emptied(T, n)
         /\ \A n : Opening(A \cup T, n) <=> Opening(T, n)
         /\ \A m : Moving(A \cup T, m) <=> Moving(T, m)
         /\ \A m, t : MovingTo(A \cup T, m, t) <=> MovingTo(T, m, t)
         /\ \A m : Clearing(A \cup T, m) <=> Clearing(T, m)
         /\ \A m : Renewed(A \cup T, m) <=> Renewed(T, m)
<1>1. /\ \A n : ~Leaving(A, n) /\ ~Entering(A, n) /\ ~Emptied(A, n) /\ ~Opening(A, n)
      /\ \A m : ~Moving(A, m) /\ ~Clearing(A, m)
      /\ \A m, t : ~MovingTo(A, m, t)
  BY DEF Quiet, Leaving, Entering, Emptied, Opening, Moving, MovingTo, Clearing,
         LastExit, FirstEntry, Exits, Enters
<1>2. \A n : Leaving(A \cup T, n) <=> Leaving(T, n)
  BY <1>1, Presence
<1>3. \A m : Renewed(A \cup T, m) <=> Renewed(T, m)
  BY <1>2 DEF Renewed, Quiet
<1>4. QED
  BY <1>1, <1>3, Presence

\* Such calls may be exchanged for each other.
LEMMA QuietEntries ==
  ASSUME NEW A, NEW B, NEW T, NEW c, NEW e,
         \A f \in A \cup B : Quiet(f), Entries(A \cup T, c, e),
         \A f \in B : Opened(B \cup T, f, e)
  PROVE  Entries(B \cup T, c, e)
<1>1. /\ \A n : Leaving(A \cup T, n) <=> Leaving(B \cup T, n)
      /\ \A n : Entering(A \cup T, n) <=> Entering(B \cup T, n)
      /\ \A n : Emptied(A \cup T, n) <=> Emptied(B \cup T, n)
      /\ \A n : Opening(A \cup T, n) <=> Opening(B \cup T, n)
      /\ \A m : Moving(A \cup T, m) <=> Moving(B \cup T, m)
      /\ \A m, t : MovingTo(A \cup T, m, t) <=> MovingTo(B \cup T, m, t)
      /\ \A m : Clearing(A \cup T, m) <=> Clearing(B \cup T, m)
      /\ \A m : Renewed(A \cup T, m) <=> Renewed(B \cup T, m)
  <2>1. \A f \in A : Quiet(f)
    OBVIOUS
  <2>2. \A f \in B : Quiet(f)
    OBVIOUS
  <2>3. QED
    BY <2>1, <2>2, QuietPresence
<1>2. ASSUME NEW f \in T PROVE Accountable(B \cup T, f, c, e)
  <2>1. Opened(A \cup T, f, e) /\ Left(A \cup T, f) /\ Joined(A \cup T, f, c, e)
        /\ Prepared(A \cup T, f) /\ Vacated(A \cup T, f) /\ Following(A \cup T, f)
    BY DEF Entries, Accountable
  <2>2. Opened(B \cup T, f, e)
    BY <1>1, <2>1 DEF Opened
  <2>3. Left(B \cup T, f)
    <3>1. ASSUME Exits(f), f.of \in Tracked, NEW g \in B \cup T, g.op = "clear", f.of \in Below(g.of)
          PROVE  Leaving(B \cup T, g.of)
      <4>1. g \in T
        BY <3>1 DEF Quiet
      <4>2. QED
        BY <1>1, <2>1, <3>1, <4>1 DEF Left
    <3>2. QED
      BY <1>1, <2>1, <3>1 DEF Left
  <2>4. Joined(B \cup T, f, c, e)
    BY <1>1, <2>1 DEF Joined, Begins
  <2>5. Prepared(B \cup T, f) /\ Vacated(B \cup T, f)
    BY <1>1, <2>1 DEF Prepared, Vacated
  <2>6. Following(B \cup T, f)
    BY <1>1, <2>1 DEF Following
  <2>7. QED
    BY <2>2, <2>3, <2>4, <2>5, <2>6 DEF Accountable
<1>3. ASSUME NEW f \in B PROVE Accountable(B \cup T, f, c, e)
  BY <1>3 DEF Quiet, Accountable, Left, Joined, Prepared, Vacated, Following, FirstEntry, Enters
<1>4. ASSUME NEW n \in Tracked \ {Root} PROVE Ruled(B \cup T, c, e, n)
  <2>1. Ruled(A \cup T, c, e, n)
    BY DEF Entries
  <2>2. Inhabits(A \cup T, c, e, n) <=> Inhabits(B \cup T, c, e, n)
    BY <1>1 DEF Inhabits, Slot
  <2>3. QED
    BY <1>1, <2>1, <2>2 DEF Ruled
<1>5. ASSUME NEW m \in Machines PROVE Fresh(B \cup T, c, e, m)
  BY <1>1 DEF Entries, Fresh
<1>6. QED
  BY <1>2, <1>3, <1>4, <1>5 DEF Entries

-----------------------------------------------------------------------------
(* Steps that enter and leave nothing *)

\* The first call and the others, as sets.
LEMMA FirstAndRest ==
  ASSUME TypeOK, EntryInv, ~failed, todo # <<>>
  PROVE  /\ todo \in Seq(Frame) /\ Head(todo) \in Frame /\ Tail(todo) \in Seq(Frame)
         /\ ToSet(todo) = {Head(todo)} \cup ToSet(Tail(todo)) /\ ToSet(todo) \subseteq Frame
         /\ Pairwise(Tail(todo)) /\ \A g \in ToSet(Tail(todo)) : Apart(Head(todo), g)
         /\ Entries({Head(todo)} \cup ToSet(Tail(todo)), current, entered)
         /\ Accountable({Head(todo)} \cup ToSet(Tail(todo)), Head(todo), current, entered)
<1>1. todo \in Seq(Frame) /\ Pairwise(todo) /\ Entries(ToSet(todo), current, entered)
  BY DEF TypeOK, EntryInv
<1>2. /\ Head(todo) \in Frame /\ Tail(todo) \in Seq(Frame)
      /\ ToSet(todo) = {Head(todo)} \cup ToSet(Tail(todo)) /\ ToSet(todo) \subseteq Frame
  BY <1>1, TailFacts DEF ToSet
<1>3. QED
  BY <1>1, <1>2, PairwiseTail DEF Entries

\* The calls after a step: those put on the stack and those that were behind the first.
LEMMA NewStack ==
  ASSUME TypeOK, EntryInv, ~failed, todo # <<>>, NEW ops \in Seq(Frame), Pairwise(ops),
         \A f \in ToSet(ops), g \in ToSet(Tail(todo)) : Apart(f, g), Do(ops)
  PROVE  /\ Pairwise(todo') /\ ToSet(todo') = ToSet(ops) \cup ToSet(Tail(todo))
<1>1. Tail(todo) \in Seq(Frame) /\ Pairwise(Tail(todo))
  BY FirstAndRest
<1>2. QED
  BY <1>1, PairwiseConcat, ConcatFacts DEF Do

\* A step that exchanges such a call for others of that kind.
LEMMA QuietStep ==
  ASSUME TypeOK, EntryInv, ~failed, todo # <<>>, Quiet(Head(todo)),
         NEW ops \in Seq(Frame), Do(ops), Pairwise(ops),
         \A f \in ToSet(ops) : Quiet(f) /\ Opened(ToSet(ops) \cup ToSet(Tail(todo)), f, entered),
         \A f \in ToSet(ops), g \in ToSet(Tail(todo)) : Apart(f, g),
         UNCHANGED <<current, entered, throwing, failed>>
  PROVE  EntryInv'
<1> DEFINE T == ToSet(Tail(todo))
           B == ToSet(ops)
<1>1. Pairwise(todo') /\ ToSet(todo') = B \cup T
  BY NewStack
<1>2. Entries({Head(todo)} \cup T, current, entered)
  BY FirstAndRest
<1>3. \A f \in {Head(todo)} \cup B : Quiet(f)
  OBVIOUS
<1> HIDE DEF T, B
<1>4. Entries(B \cup T, current, entered)
  BY <1>2, <1>3, QuietEntries DEF B, T
<1>5. Entries(ToSet(todo'), current', entered')
  BY <1>1, <1>4
<1>6. ~throwing'
  BY DEF EntryInv
<1>7. QED
  BY <1>1, <1>5, <1>6 DEF EntryInv

Idle(f) == f.op \in {"internal", "try", "answer"} \/ (f.op = "call" /\ ~Exits(f) /\ ~Enters(f))

LEMMA IdleFacts ==
  ASSUME NEW f, Idle(f)
  PROVE  Quiet(f) /\ ~Spawns(f) /\ ~Works(f) /\ ~Keyed(f)
  BY DEF Idle, Quiet, Spawns, Works, Keyed, Exits, Enters

\* Calls that make further calls, and are not among those that do count.
LEMMA SpawnsQuiet ==
  ASSUME NEW f, Spawns(f)
  PROVE  Quiet(f) /\ ~Exits(f) /\ ~Enters(f) /\ Works(f) /\ Keyed(f) /\ f.op \notin {"set", "clear"}
  BY DEF Spawns, Quiet, Works, Keyed, Exits, Enters

LEMMA ApartIdle ==
  ASSUME NEW f, NEW g, Idle(f), ~Exits(g)
  PROVE  Apart(f, g)
  BY IdleFacts DEF Apart, InPhase, Nested, Ending, InOrder, BeforeClear, Quiet, Idle, Exits, Enters

LEMMA ApartFromIdle ==
  ASSUME NEW f, NEW g, Idle(g)
  PROVE  Apart(f, g)
<1>1. ~Exits(g) /\ ~Enters(g) /\ ~Keyed(g) /\ g.op # "clear"
  BY IdleFacts DEF Quiet
<1>2. QED
  BY <1>1 DEF Apart, InPhase, Nested, Ending, InOrder, BeforeClear

\* A call that dispatches gives way to one that dispatches in its place.
LEMMA ApartSpawn ==
  ASSUME NEW h, NEW f, NEW g, Spawns(h), Spawns(f), Apart(h, g),
         h.of \in States, f.of \in Below(h.of), Reach(f) \subseteq Reach(h),
         \/ h.op \in {"dispatch", "region", "settle"}
         \/ /\ h.op \in {"rows", "default"} /\ f.op = "rows" /\ f.of = h.of
            /\ f.event = None \/ (h.op = "rows" /\ f.event = h.event)
  PROVE  Apart(f, g)
<1>1. ~Exits(h) /\ ~Enters(h) /\ Works(h) /\ ~Exits(f) /\ ~Enters(f) /\ f.op # "set"
  BY SpawnsQuiet
<1>2. f.of \in States /\ h.of \in Up[f.of]
  BY DEF Below
<1>3. InPhase(f, g)
  BY <1>1 DEF Apart, InPhase, Spawns
<1>4. Nested(f, g)
  <2>1. ASSUME Enters(g), f.of \in Below(g.of) PROVE FALSE
    <3>1. h.of \notin Below(g.of) /\ Keyed(g)
      BY <2>1 DEF Apart, Nested, Keyed
    <3>2. g.of \in Up[f.of]
      BY <2>1 DEF Below
    <3>3. g.of \in States
      BY <3>2, <1>2, UpSelf
    <3>4. g.of \in Below(h.of)
      BY <1>2, <3>1, <3>2, <3>3, AroundOrdered DEF Below
    <3>5. g.of # h.of
      BY <3>1, UpSelf
    <3>6. g.of \in Reach(h)
      BY <3>4, <3>5 DEF Reach
    <3>7. QED
      BY <1>1, <3>1, <3>6 DEF Apart, Nested
  <2>2. QED
    BY <1>1, <2>1 DEF Apart, Nested
<1>5. BeforeClear(f, g)
  BY <1>1 DEF Apart, InPhase, BeforeClear
<1>6. Ending(f, g) /\ InOrder(f, g)
  BY <1>1 DEF Ending, InOrder
<1>7. QED
  BY <1>3, <1>4, <1>5, <1>6 DEF Apart

\* While the event is dispatched in its place nothing there is left or entered.
LEMMA SpawnFacts ==
  ASSUME NEW h, NEW T, Spawns(h), \A g \in T : Apart(h, g)
  PROVE  /\ \A g \in T : ~Exits(g)
         /\ \A n : ~Leaving({h} \cup T, n) /\ ~Emptied({h} \cup T, n)
         /\ \A n \in Reach(h) : ~Entering({h} \cup T, n) /\ ~Moving({h} \cup T, n)
         /\ h.op \in {"dispatch", "region", "settle"} => \A m : ~Renewed({h} \cup T, m)
<1>1. ~Exits(h) /\ ~Enters(h) /\ Works(h) /\ h.op \notin {"set", "clear"}
  BY SpawnsQuiet
<1>2. \A g \in T : ~Exits(g)
  BY <1>1 DEF Apart, InPhase
<1>3. \A n : ~Leaving({h} \cup T, n) /\ ~Emptied({h} \cup T, n)
  BY <1>1, <1>2 DEF Leaving, Emptied, LastExit, Exits
<1>4. \A n \in Reach(h) : ~Entering({h} \cup T, n) /\ ~Moving({h} \cup T, n)
  BY <1>1 DEF Entering, Moving, Apart, Nested, Keyed
<1>5. h.op \in {"dispatch", "region", "settle"} => \A m : ~Renewed({h} \cup T, m)
  BY <1>1 DEF Renewed, Apart, InPhase
<1>6. QED
  BY <1>2, <1>3, <1>4, <1>5

\* What is immediately in a machine that is entered and stays as it is.
LEMMA Steady ==
  ASSUME NEW F, NEW c, NEW e, Entries(F, c, e), NEW n \in Tracked, n # Root,
         ~Leaving(F, n), ~Entering(F, n), e[Parent[n]] = 1, ~Emptied(F, Parent[n]),
         ~Moving(F, Parent[n]), ~Renewed(F, Parent[n])
  PROVE  e[n] = IF Parent[n] \in Machines => c[Parent[n]] = n THEN 1 ELSE 0
<1>1. Ruled(F, c, e, n)
  BY DEF Entries
<1>2. Inhabits(F, c, e, n) <=> (Parent[n] \in Machines => c[Parent[n]] = n)
  BY DEF Inhabits, Slot
<1>3. QED
  BY <1>1, <1>2 DEF Ruled

\* A dispatch to a machine, to regions or to a state meets states that are entered.
LEMMA DispatchEntries ==
  ASSUME TypeOK, StackInv, EntryInv, ~failed, Dispatch
  PROVE  EntryInv'
<1> DEFINE h == Head(todo)
           T == ToSet(Tail(todo))
           n == h.of
<1>1. /\ todo # <<>> /\ h.op = "dispatch" /\ h \in Frame /\ Tail(todo) \in Seq(Frame)
      /\ \A g \in T : Apart(h, g)
      /\ Entries({h} \cup T, current, entered)
      /\ Accountable({h} \cup T, h, current, entered)
  BY FirstAndRest DEF Dispatch, Doing
<1>2. n \in States /\ event \in Events /\ Spawns(h) /\ Quiet(h) /\ Reach(h) = Below(n)
  BY <1>1, FirstCall, FrameFields, SpawnsQuiet DEF OpNames, Spawns, Reach
<1>3. UNCHANGED <<current, entered, throwing, failed>>
  BY DEF Dispatch, tree, history
<1> HIDE DEF T
<1>4. ASSUME NEW m, m \in Children(n), m \in Tracked, n \in Machines => current[n] = m
      PROVE  entered[m] = 1
  <2>1. /\ m # Root /\ Parent[m] = n /\ n \in Tracked /\ m \in Below(n) /\ n \in Below(n)
    BY <1>2, <1>4, TrackedAround, ParentInTree, BelowChild, UpSelf DEF Children
  <2>2. entered[n] = 1
    BY <1>1, <2>1 DEF Accountable, Opened
  <2>3. /\ ~Leaving({h} \cup T, m) /\ ~Entering({h} \cup T, m) /\ ~Emptied({h} \cup T, n)
        /\ ~Moving({h} \cup T, n) /\ ~Renewed({h} \cup T, n)
    BY <1>1, <1>2, <2>1, SpawnFacts
  <2>4. QED
    BY <1>1, <1>4, <2>1, <2>2, <2>3, Steady
<1>5. CASE Do(<<>>)
  BY <1>1, <1>2, <1>3, <1>5, PairwiseNone, QuietStep
<1>6. CASE n \in Machines /\ Do(MachineDispatch(n))
  <2> DEFINE a == Op("dispatch", current[n], event)
             b == Rows(n, event, 1)
             d == Op("settle", n, None)
             i == InternalRows(n, 1)
             ops == <<a, b, d, i>>
  <2>1. current[n] \in Children(n) /\ current[n] \in States
    BY <1>6 DEF TypeOK
  <2>2. /\ a \in Frame /\ a.op = "dispatch" /\ a.of = current[n]
        /\ b \in Frame /\ b.op = "rows" /\ b.of = n
        /\ d \in Frame /\ d.op = "settle" /\ d.of = n
        /\ i \in Frame /\ i.op = "internal" /\ i.of = n
    BY <1>2, <1>6, <2>1, OpFrame, RowsFrame, InternalFrame DEF OpNames
  <2>3. MachineDispatch(n) = ops
    BY DEF MachineDispatch
  <2> HIDE DEF a, b, d, i
  <2>4. Spawns(a) /\ Spawns(b) /\ Spawns(d) /\ Idle(i)
    BY <2>2 DEF Spawns, Idle
  <2>5. /\ Below(current[n]) \subseteq Below(n) \ {n} /\ n \in Below(n) /\ current[n] \in Below(n)
        /\ Reach(a) = Below(current[n]) /\ Reach(b) = Below(n) \ {n} /\ Reach(d) = Below(n) \ {n}
    BY <1>2, <2>1, <2>2, BelowChild, UpSelf DEF Reach, Exits
  <2>6. Apart(a, b) /\ Apart(a, d) /\ Apart(b, d)
    BY <2>2, <2>4, <2>5, SpawnsQuiet DEF Apart, InPhase, Nested, Ending, InOrder, BeforeClear
  <2>7. Apart(a, i) /\ Apart(b, i) /\ Apart(d, i)
    BY <2>4, ApartFromIdle
  <2>8. ops = <<a, b>> \o <<d, i>> /\ ops \in Seq(Frame)
    BY <2>2
  <2>9. Pairwise(ops) /\ ToSet(ops) = {a, b, d, i}
    <3>1. /\ <<a, b>> \in Seq(Frame) /\ ToSet(<<a, b>>) = {a, b} /\ Pairwise(<<a, b>>)
          /\ <<d, i>> \in Seq(Frame) /\ ToSet(<<d, i>>) = {d, i} /\ Pairwise(<<d, i>>)
      BY <2>2, <2>6, <2>7, PairwiseTwo
    <3>2. \A f \in {a, b}, g \in {d, i} : Apart(f, g)
      BY <2>6, <2>7
    <3>3. \A f \in ToSet(<<a, b>>), g \in ToSet(<<d, i>>) : Apart(f, g)
      BY <3>1, <3>2
    <3>4. Pairwise(<<a, b>> \o <<d, i>>) /\ ToSet(<<a, b>> \o <<d, i>>) = ToSet(<<a, b>>) \cup ToSet(<<d, i>>)
      BY <3>1, <3>3, PairwiseConcat
    <3>5. {a, b} \cup {d, i} = {a, b, d, i}
      OBVIOUS
    <3>6. QED
      BY <2>8, <3>1, <3>4, <3>5
  <2>10. ASSUME NEW f \in {a, b, d, i}, NEW g \in T PROVE Apart(f, g)
    <3>1. CASE f = i
      BY <1>1, <1>2, <2>4, <3>1, ApartIdle, SpawnFacts
    <3>2. CASE f # i
      BY <1>1, <1>2, <2>2, <2>4, <2>5, <2>10, <3>2, ApartSpawn
    <3>3. QED
      BY <3>1, <3>2
  <2>11. ASSUME NEW f \in {a, b, d, i} PROVE Quiet(f) /\ Opened(ToSet(ops) \cup T, f, entered)
    <3>1. Quiet(f)
      BY <2>4, <2>11, SpawnsQuiet, IdleFacts
    <3>2. n \in Tracked => entered[n] = 1
      BY <1>1 DEF Accountable, Opened
    <3>3. current[n] \in Tracked => entered[current[n]] = 1
      BY <1>4, <2>1
    <3>4. QED
      BY <2>2, <2>11, <3>1, <3>2, <3>3 DEF Opened
  <2> HIDE DEF ops
  <2>12. QED
    BY <1>1, <1>2, <1>3, <1>6, <2>3, <2>8, <2>9, <2>10, <2>11, QuietStep DEF T
<1>7. CASE n \in Orthogonal /\ Do(RegionsDispatch(n))
  <2> DEFINE b == Region(n, 1, "refuse")
             i == InternalRows(n, 1)
             ops == <<b, i>>
  <2>1. /\ b \in Frame /\ b.op = "region" /\ b.of = n
        /\ i \in Frame /\ i.op = "internal" /\ i.of = n
    BY <1>2, <1>7, RegionFrame, InternalFrame DEF Answers
  <2>2. RegionsDispatch(n) = ops
    BY DEF RegionsDispatch
  <2> HIDE DEF b, i
  <2>3. Spawns(b) /\ Idle(i) /\ Reach(b) \subseteq Below(n) /\ n \in Below(n)
    BY <1>2, <2>1, UpSelf DEF Spawns, Idle, Reach, Exits
  <2>4. Pairwise(ops) /\ ToSet(ops) = {b, i} /\ ops \in Seq(Frame)
    BY <2>1, <2>3, ApartFromIdle, PairwiseTwo
  <2>5. ASSUME NEW f \in {b, i}, NEW g \in T PROVE Apart(f, g)
    <3>1. Apart(i, g)
      BY <1>1, <1>2, <2>3, ApartIdle, SpawnFacts
    <3>2. Apart(b, g)
      BY <1>1, <1>2, <2>1, <2>3, ApartSpawn
    <3>3. QED
      BY <2>5, <3>1, <3>2
  <2>6. ASSUME NEW f \in {b, i} PROVE Quiet(f) /\ Opened(ToSet(ops) \cup T, f, entered)
    <3>1. Quiet(f)
      BY <2>3, <2>6, SpawnsQuiet, IdleFacts
    <3>2. n \in Tracked => entered[n] = 1
      BY <1>1 DEF Accountable, Opened
    <3>3. QED
      BY <2>1, <2>6, <3>1, <3>2 DEF Opened
  <2> HIDE DEF ops
  <2>7. QED
    BY <1>1, <1>2, <1>3, <1>7, <2>2, <2>4, <2>5, <2>6, QuietStep DEF T
<1>8. CASE Do(StateDispatch(n))
  <2> DEFINE i == InternalRows(n, 1)
  <2>1. i \in Frame /\ i.op = "internal" /\ i.of = n
    BY <1>2, InternalFrame
  <2>2. StateDispatch(n) = <<i>>
    BY DEF StateDispatch
  <2> HIDE DEF i
  <2>3. Idle(i)
    BY <2>1 DEF Idle
  <2>4. <<i>> \in Seq(Frame) /\ ToSet(<<i>>) = {i} /\ Pairwise(<<i>>)
    BY <2>1, PairwiseOne
  <2>5. \A g \in T : Apart(i, g)
    BY <1>1, <1>2, <2>3, ApartIdle, SpawnFacts
  <2>6. Quiet(i) /\ Opened({i} \cup T, i, entered)
    BY <2>1, <2>3, IdleFacts DEF Opened
  <2>7. QED
    BY <1>1, <1>2, <1>3, <1>8, <2>2, <2>4, <2>5, <2>6, QuietStep DEF T
<1>9. \/ Do(<<>>) \/ (n \in Machines /\ Do(MachineDispatch(n)))
      \/ (n \in Orthogonal /\ Do(RegionsDispatch(n))) \/ Do(StateDispatch(n))
  BY DEF Dispatch, DispatchTo, Return
<1>10. QED
  BY <1>5, <1>6, <1>7, <1>8, <1>9

\* Where nothing is left any more, later calls leave nothing either.
LEMMA NoExitsLater ==
  ASSUME NEW h, NEW T, ~Exits(h), \A g \in T : Apart(h, g)
  PROVE  \A g \in T : ~Exits(g)
  BY DEF Apart, InPhase

\* A call of that kind that makes no further ones.
LEMMA QuietEnd ==
  ASSUME TypeOK, EntryInv, ~failed, todo # <<>>, Quiet(Head(todo)), Do(<<>>),
         UNCHANGED <<current, entered, throwing, failed>>
  PROVE  EntryInv'
<1>1. <<>> \in Seq(Frame) /\ ToSet(<<>>) = {} /\ Pairwise(<<>>)
  BY PairwiseNone
<1>2. QED
  BY <1>1, QuietStep

\* One that makes one further call, and one that makes two.
LEMMA QuietOne ==
  ASSUME TypeOK, EntryInv, ~failed, todo # <<>>, Quiet(Head(todo)),
         NEW f \in Frame, Do(<<f>>), Quiet(f), \A g \in ToSet(Tail(todo)) : Apart(f, g),
         Opened({f} \cup ToSet(Tail(todo)), f, entered),
         UNCHANGED <<current, entered, throwing, failed>>
  PROVE  EntryInv'
<1>1. <<f>> \in Seq(Frame) /\ ToSet(<<f>>) = {f} /\ Pairwise(<<f>>)
  BY PairwiseOne
<1>2. QED
  BY <1>1, QuietStep

LEMMA QuietTwo ==
  ASSUME TypeOK, EntryInv, ~failed, todo # <<>>, Quiet(Head(todo)),
         NEW f \in Frame, NEW g \in Frame, Do(<<f, g>>), Quiet(f), Quiet(g), Apart(f, g),
         \A k \in ToSet(Tail(todo)) : Apart(f, k) /\ Apart(g, k),
         Opened({f, g} \cup ToSet(Tail(todo)), f, entered),
         Opened({f, g} \cup ToSet(Tail(todo)), g, entered),
         UNCHANGED <<current, entered, throwing, failed>>
  PROVE  EntryInv'
<1>1. <<f, g>> \in Seq(Frame) /\ ToSet(<<f, g>>) = {f, g} /\ Pairwise(<<f, g>>)
  BY PairwiseTwo
<1>2. QED
  BY <1>1, QuietStep

\* The region that is asked next is entered, because all are.
LEMMA NextRegionEntries ==
  ASSUME TypeOK, StackInv, EntryInv, ~failed, NextRegion
  PROVE  EntryInv'
<1> DEFINE h == Head(todo)
           T == ToSet(Tail(todo))
           n == h.of
           k == h.row
           best == Better(h.best, res)
<1>1. /\ todo # <<>> /\ h.op = "region" /\ h \in Frame /\ Tail(todo) \in Seq(Frame)
      /\ \A g \in T : Apart(h, g)
      /\ Entries({h} \cup T, current, entered)
      /\ Accountable({h} \cup T, h, current, entered)
  BY FirstAndRest DEF NextRegion, Doing
<1>2. n \in Orthogonal /\ n \in States /\ k \in Nat /\ event \in Events /\ k >= 1
      /\ h.best \in Answers /\ res \in Answers
  BY <1>1, FirstCall, FrameFields, TreeAssumption DEF Fits, FitsDispatch
<1>3. UNCHANGED <<current, entered, throwing, failed>>
  BY DEF NextRegion, tree, history
<1>4. Spawns(h) /\ Quiet(h) /\ Reach(h) = Below(n) \ {n}
  BY <1>1, SpawnsQuiet DEF Spawns, Reach, Exits
<1>5. CASE k > Len(Regions[n])
  <2>1. Do(<<>>)
    BY <1>5 DEF NextRegion, Return
  <2>2. QED
    BY <1>1, <1>3, <1>4, <2>1, QuietEnd
<1>6. CASE ~(k > Len(Regions[n]))
  <2> DEFINE r == Regions[n][k]
             a == Op("dispatch", r, event)
             b == Region(n, k + 1, best)
  <2>1. Do(<<a, b>>)
    BY <1>6 DEF NextRegion
  <2>2. r \in Children(n) /\ r \in States
    BY <1>2, <1>6, RegionsOf
  <2>3. best \in Answers
    BY <1>2 DEF Better
  <2>4. /\ a \in Frame /\ a.op = "dispatch" /\ a.of = r
        /\ b \in Frame /\ b.op = "region" /\ b.of = n
    BY <1>2, <2>2, <2>3, OpFrame, RegionFrame DEF OpNames
  <2> HIDE DEF a, b
  <2>5. Spawns(a) /\ Spawns(b) /\ Quiet(a) /\ Quiet(b)
    BY <2>4, SpawnsQuiet DEF Spawns
  <2>6. /\ Below(r) \subseteq Below(n) \ {n} /\ n \in Below(n) /\ r \in Below(n) /\ r \in Below(r)
        /\ Reach(a) = Below(r) /\ Reach(b) = Below(n) \ {n}
    BY <1>2, <2>2, <2>4, BelowChild, UpSelf DEF Reach, Exits
  <2>7. Apart(a, b)
    BY <2>4, <2>5, <2>6, SpawnsQuiet DEF Apart, InPhase, Nested, Ending, InOrder, BeforeClear
  <2>8. ASSUME NEW g \in T PROVE Apart(a, g) /\ Apart(b, g)
    BY <1>1, <1>2, <1>4, <2>4, <2>5, <2>6, ApartSpawn
  <2>9. n \in Tracked => entered[n] = 1
    BY <1>1 DEF Accountable, Opened
  <2>10. ASSUME r \in Tracked PROVE entered[r] = 1
    <3>1. r # Root /\ Parent[r] = n /\ n \in Tracked
      BY <2>2, <2>10, TrackedAround, ParentInTree DEF Children
    <3>2. /\ ~Leaving({h} \cup T, r) /\ ~Entering({h} \cup T, r) /\ ~Emptied({h} \cup T, n)
          /\ ~Renewed({h} \cup T, n)
      BY <1>1, <1>4, <2>6, SpawnFacts
    <3>3. n \notin Machines /\ ~Moving({h} \cup T, n)
      <4>1. n \notin Machines
        BY <1>2, TreeAssumption
      <4>2. ToSet(todo) \subseteq Frame /\ ToSet(todo) = {h} \cup T
        BY <1>1, FirstAndRest
      <4>3. QED
        BY <4>1, <4>2, FrameFields DEF Moving
    <3>4. QED
      BY <1>1, <2>9, <2>10, <3>1, <3>2, <3>3, Steady
  <2>11. Opened({a, b} \cup T, a, entered) /\ Opened({a, b} \cup T, b, entered)
    BY <2>4, <2>9, <2>10 DEF Opened
  <2>12. QED
    BY <1>1, <1>3, <1>4, <2>1, <2>4, <2>5, <2>7, <2>8, <2>11, QuietTwo
<1>7. QED
  BY <1>5, <1>6

\* The ends of calls, and the tries of internal rows.
LEMMA NoMoreRowsEntries ==
  ASSUME TypeOK, EntryInv, ~failed, NoMoreRows
  PROVE  EntryInv'
<1>1. todo # <<>> /\ Head(todo).op \in {"rows", "internal"} /\ Do(<<>>)
      /\ UNCHANGED <<current, entered, throwing, failed>>
  BY DEF NoMoreRows, Doing, tree, history
<1>2. Quiet(Head(todo))
  BY <1>1 DEF Quiet, Exits, Enters
<1>3. QED
  BY <1>1, <1>2, QuietEnd

LEMMA GiveAnswerEntries ==
  ASSUME TypeOK, EntryInv, ~failed, GiveAnswer \/ LeaveTry
  PROVE  EntryInv'
<1>1. todo # <<>> /\ Head(todo).op \in {"answer", "try"} /\ Do(<<>>)
      /\ UNCHANGED <<current, entered, throwing, failed>>
  BY DEF GiveAnswer, LeaveTry, Return, Doing, tree, history
<1>2. Quiet(Head(todo))
  BY <1>1 DEF Quiet, Exits, Enters
<1>3. QED
  BY <1>1, <1>2, QuietEnd

LEMMA TestInternalRowEntries ==
  ASSUME TypeOK, StackInv, EntryInv, ~failed, TestInternalRow
  PROVE  EntryInv'
<1> DEFINE h == Head(todo)
           T == ToSet(Tail(todo))
           n == h.of
           i == First(InternalCandidates(h))
<1>1. /\ todo # <<>> /\ h.op = "internal" /\ h \in Frame /\ \A g \in T : Apart(h, g)
      /\ InternalCandidates(h) # {}
  BY FirstAndRest DEF TestInternalRow, Doing
<1>2. n \in States /\ h.row >= 1 /\ event \in Events
  BY <1>1, FirstCall, FrameFields DEF Fits, FitsDispatch
<1>3. UNCHANGED <<current, entered, throwing, failed>>
  BY DEF TestInternalRow, tree, history
<1>4. i \in Nat /\ i + 1 \in Nat
  BY <1>1, <1>2, FirstInternalCandidate
<1>5. Quiet(h) /\ ~Exits(h)
  BY <1>1 DEF Quiet, Exits, Enters
<1>6. \A g \in T : ~Exits(g)
  BY <1>1, <1>5, NoExitsLater
<1> HIDE DEF T
<1>7. CASE Do(<<InternalRows(n, i + 1)>>)
  <2> DEFINE a == InternalRows(n, i + 1)
  <2>1. a \in Frame /\ a.op = "internal"
    BY <1>2, <1>4, InternalFrame
  <2>2. Do(<<a>>)
    BY <1>7
  <2> HIDE DEF a
  <2>3. Idle(a) /\ Quiet(a)
    BY <2>1, IdleFacts DEF Idle
  <2>4. \A g \in T : Apart(a, g)
    BY <1>6, <2>3, ApartIdle
  <2>5. Opened({a} \cup T, a, entered)
    BY <2>1 DEF Opened
  <2>6. QED
    BY <1>1, <1>3, <1>5, <2>1, <2>2, <2>3, <2>4, <2>5, QuietOne DEF T
<1>8. CASE Do(<<Call("internal", n, i, event), Answer("in_state")>>)
  <2> DEFINE a == Call("internal", n, i, event)
             b == Answer("in_state")
  <2>1. a \in Frame /\ a.op = "call" /\ a.kind = "internal" /\ b \in Frame /\ b.op = "answer"
    BY <1>2, <1>4, CallFrame, AnswerFrame DEF Call, Answers
  <2>2. Do(<<a, b>>)
    BY <1>8
  <2> HIDE DEF a, b
  <2>3. Idle(a) /\ Quiet(a) /\ Idle(b) /\ Quiet(b)
    BY <2>1, IdleFacts DEF Idle, Exits, Enters
  <2>4. \A g \in T : Apart(a, g) /\ Apart(b, g)
    BY <1>6, <2>3, ApartIdle
  <2>5. Opened({a, b} \cup T, a, entered) /\ Opened({a, b} \cup T, b, entered)
    BY <2>1 DEF Opened
  <2>6. Apart(a, b)
    BY <2>3, ApartFromIdle
  <2>7. QED
    BY <1>1, <1>3, <1>5, <2>1, <2>2, <2>3, <2>4, <2>5, <2>6, QuietTwo DEF T
<1>9. QED
  BY <1>7, <1>8 DEF TestInternalRow

\* A default transition is looked for in machines that are entered.
LEMMA SettleEntries ==
  ASSUME TypeOK, StackInv, EntryInv, ~failed, Settle
  PROVE  EntryInv'
<1> DEFINE h == Head(todo)
           T == ToSet(Tail(todo))
           n == h.of
           a == Op("default", n, None)
           b == Answer("process")
<1>1. /\ todo # <<>> /\ h.op = "settle" /\ h \in Frame /\ \A g \in T : Apart(h, g)
      /\ Accountable({h} \cup T, h, current, entered)
  BY FirstAndRest DEF Settle, Doing
<1>2. n \in States
  BY <1>1, FrameFields DEF OpNames
<1>3. UNCHANGED <<current, entered, throwing, failed>>
  BY DEF Settle, tree, history
<1>4. Spawns(h) /\ Quiet(h) /\ ~Exits(h) /\ Reach(h) = Below(n) \ {n}
  BY <1>1, SpawnsQuiet DEF Spawns, Reach
<1>5. \A g \in T : ~Exits(g)
  BY <1>1, <1>4, NoExitsLater
<1>6. a \in Frame /\ a.op = "default" /\ a.of = n /\ b \in Frame /\ b.op = "answer"
  BY <1>2, OpFrame, AnswerFrame DEF OpNames, Answers
<1>7. (res = "process" /\ Do(<<a, b>>)) \/ Do(<<>>)
  BY DEF Settle
<1> HIDE DEF T, a, b
<1>8. Spawns(a) /\ Quiet(a) /\ Idle(b) /\ Quiet(b) /\ Reach(a) = Below(n) \ {n} /\ n \in Below(n)
  BY <1>2, <1>6, SpawnsQuiet, IdleFacts, UpSelf DEF Spawns, Idle, Reach
<1>9. \A g \in T : Apart(a, g)
  BY <1>1, <1>2, <1>4, <1>6, <1>8, ApartSpawn
<1>10. \A g \in T : Apart(b, g)
  BY <1>5, <1>8, ApartIdle
<1>11. Apart(a, b)
  BY <1>8, ApartFromIdle
<1>12. Opened({a, b} \cup T, a, entered) /\ Opened({a, b} \cup T, b, entered)
  BY <1>1, <1>6 DEF Accountable, Opened
<1>13. CASE Do(<<a, b>>)
  BY <1>1, <1>3, <1>4, <1>6, <1>8, <1>9, <1>10, <1>11, <1>12, <1>13, QuietTwo DEF T
<1>14. CASE Do(<<>>)
  BY <1>1, <1>3, <1>4, <1>14, QuietEnd
<1>15. QED
  BY <1>7, <1>13, <1>14

LEMMA CheckDefaultEntries ==
  ASSUME TypeOK, StackInv, EntryInv, ~failed, CheckDefault
  PROVE  EntryInv'
<1> DEFINE h == Head(todo)
           T == ToSet(Tail(todo))
           n == h.of
           a == Rows(n, None, 1)
<1>1. /\ todo # <<>> /\ h.op = "default" /\ h \in Frame /\ \A g \in T : Apart(h, g)
      /\ Accountable({h} \cup T, h, current, entered)
  BY FirstAndRest DEF CheckDefault, Doing
<1>2. n \in States /\ n \in Machines
  BY <1>1, FrameFields, FirstCall DEF OpNames, Fits, FitsTransition
<1>3. UNCHANGED <<current, entered, throwing, failed>> /\ Do(<<a>>)
  BY DEF CheckDefault, tree, history
<1>4. Spawns(h) /\ Quiet(h) /\ Reach(h) = Below(n) \ {n} /\ ~Enters(h)
  BY <1>1, SpawnsQuiet DEF Spawns, Reach
<1>5. a \in Frame /\ a.op = "rows" /\ a.of = n /\ a.event = None
  <2>1. None \in Events \cup {None} /\ 1 \in Nat
    OBVIOUS
  <2> HIDE DEF h
  <2>2. QED
    BY <1>2, <2>1, RowsFrame
<1> HIDE DEF T, a
<1>6. Spawns(a) /\ Quiet(a) /\ Reach(a) = Below(n) \ {n} /\ n \in Below(n)
  BY <1>2, <1>5, SpawnsQuiet, UpSelf DEF Spawns, Reach
<1>7. \A g \in T : Apart(a, g)
  BY <1>1, <1>2, <1>4, <1>5, <1>6, ApartSpawn
<1>8. ~Opening({h} \cup T, n)
  BY <1>1, <1>4, <1>6 DEF Opening, FirstEntry, Enters, Apart, Nested
<1>9. Opened({a} \cup T, a, entered)
  BY <1>1, <1>5, <1>8 DEF Accountable, Opened
<1>10. QED
  BY <1>1, <1>3, <1>4, <1>5, <1>6, <1>7, <1>9, QuietOne DEF T

\* A row that does not apply, and the action of one.
LEMMA SkipRowEntries ==
  ASSUME TypeOK, StackInv, EntryInv, ~failed, Doing("rows"), Candidates(Head(todo)) # {},
         Do(<<Rows(Head(todo).of, Head(todo).event, First(Candidates(Head(todo))) + 1)>>),
         UNCHANGED <<current, entered, throwing, failed>>
  PROVE  EntryInv'
<1> DEFINE h == Head(todo)
           T == ToSet(Tail(todo))
           n == h.of
           i == First(Candidates(h))
           j == i + 1
           a == Rows(n, h.event, j)
<1>1. /\ todo # <<>> /\ h.op = "rows" /\ h \in Frame /\ \A g \in T : Apart(h, g)
      /\ Accountable({h} \cup T, h, current, entered)
  BY FirstAndRest DEF Doing
<1>2. n \in States /\ n \in Machines /\ h.event \in Events \cup {None} /\ h.row >= 1
  BY <1>1, FrameFields, FirstCall, TreeAssumption DEF Fits, FitsDispatch
<1>3. j \in Nat
  BY <1>1, <1>2, FirstCandidate
<1>4. Spawns(h) /\ Quiet(h) /\ Reach(h) = Below(n) \ {n}
  BY <1>1, SpawnsQuiet DEF Spawns, Reach
<1>5. a \in Frame /\ a.op = "rows" /\ a.of = n /\ a.event = h.event /\ Do(<<a>>)
  <2>1. Do(<<a>>)
    OBVIOUS
  <2> DEFINE e == h.event
  <2>2. n \in Machines /\ e \in Events \cup {None} /\ a = Rows(n, e, j)
    BY <1>2
  <2> HIDE DEF n, e, j, a
  <2>3. a \in Frame /\ a.op = "rows" /\ a.of = n /\ a.event = e
    BY <1>3, <2>2, RowsFrame
  <2>4. QED
    BY <2>1, <2>3 DEF e
<1> HIDE DEF T, a
<1>6. Spawns(a) /\ Quiet(a) /\ Reach(a) = Below(n) \ {n} /\ n \in Below(n)
  BY <1>2, <1>5, SpawnsQuiet, UpSelf DEF Spawns, Reach
<1>7. \A g \in T : Apart(a, g)
  BY <1>1, <1>2, <1>4, <1>5, <1>6, ApartSpawn
<1>8. Opened({a} \cup T, a, entered)
  BY <1>1, <1>5 DEF Accountable, Opened
<1>9. QED
  BY <1>1, <1>4, <1>5, <1>6, <1>7, <1>8, QuietOne DEF T

\* An action is no entry and no exit.
LEMMA RunActionEntries ==
  ASSUME TypeOK, EntryInv, ~failed, RunHandler, Head(todo).kind \notin {"enter", "exit"}
  PROVE  EntryInv'
<1>1. todo # <<>> /\ Head(todo).op = "call" /\ Do(<<>>)
      /\ UNCHANGED <<current, entered, throwing, failed>>
  BY DEF RunHandler, Doing, Counted
<1>2. Quiet(Head(todo))
  BY <1>1 DEF Quiet, Exits, Enters
<1>3. QED
  BY <1>1, <1>2, QuietEnd

-----------------------------------------------------------------------------
(* The next event, and a transition *)

\* What a call is, it is alone.
LEMMA Kinds ==
  ASSUME NEW f
  PROVE  /\ Exits(f) => ~Enters(f) /\ ~Spawns(f) /\ f.op \notin {"set", "clear"} /\ Works(f) /\ Keyed(f)
         /\ Enters(f) => ~Exits(f) /\ ~Spawns(f) /\ f.op \notin {"set", "clear"} /\ Keyed(f)
         /\ f.op \in {"set", "clear"} => ~Exits(f) /\ ~Enters(f) /\ ~Spawns(f) /\ ~Works(f)
         /\ f.op = "set" => Keyed(f)
         /\ LastExit(f) => Exits(f)
         /\ FirstEntry(f) => Enters(f) /\ ~Works(f)
         /\ f.op = "enter" => Enters(f) /\ Works(f)
         /\ f.op = "exit" => Exits(f)
  BY DEF Exits, Enters, Spawns, Works, Keyed, LastExit, FirstEntry

LEMMA KindsOf ==
  ASSUME NEW f \in Frame
  PROVE  /\ Exits(f) \/ Enters(f) \/ f.op = "clear" => f.of \in States
         /\ f.op = "set" => f.of \in Machines /\ f.of \in States
  BY FrameFields, TreeAssumption DEF Exits, Enters, OpNames

\* An event is dispatched to the outermost machine, which is always entered.
LEMMA ReceiveEntries ==
  ASSUME TypeOK, EntryInv, ~failed, NEW e \in Events, Receive(e)
  PROVE  EntryInv'
<1> DEFINE a == Op("dispatch", Root, e)
<1>1. /\ todo = <<>> /\ ~throwing /\ todo' = <<a>>
      /\ UNCHANGED <<current, entered, throwing, failed>>
  BY DEF Receive, Resting, tree
<1>2. a \in Frame /\ a.op = "dispatch" /\ a.of = Root
  BY RootTracked, OpFrame DEF OpNames
<1> HIDE DEF a
<1>3. <<a>> \in Seq(Frame) /\ ToSet(<<a>>) = {a} /\ Pairwise(<<a>>) /\ ToSet(<<>>) = {}
  BY <1>2, PairwiseOne, PairwiseNone
<1>4. Entries({}, current, entered)
  BY <1>1, <1>3 DEF EntryInv
<1>5. Quiet(a) /\ Opened({a}, a, entered)
  BY <1>2, <1>4 DEF Quiet, Exits, Enters, Opened, Entries
<1>6. Entries({a}, current, entered)
  <2>1. {} \cup {} = {} /\ {a} \cup {} = {a}
    OBVIOUS
  <2>2. \A f \in {} \cup {a} : Quiet(f)
    BY <1>5
  <2>3. \A f \in {a} : Opened({a} \cup {}, f, entered)
    BY <1>5, <2>1
  <2>4. Entries({} \cup {}, current, entered)
    BY <1>4, <2>1
  <2>5. Entries({a} \cup {}, current, entered)
    BY <2>2, <2>3, <2>4, QuietEntries
  <2>6. QED
    BY <2>1, <2>5
<1>7. QED
  BY <1>1, <1>3, <1>6 DEF EntryInv

LEMMA PairwiseFive ==
  ASSUME NEW x \in Frame, NEW a \in Frame, NEW n \in Frame, NEW k \in Frame, NEW s \in Frame,
         Apart(x, a), Apart(x, n), Apart(x, k), Apart(x, s),
         Apart(a, n), Apart(a, k), Apart(a, s), Apart(n, k), Apart(n, s), Apart(k, s)
  PROVE  /\ <<x, a, n, k, s>> \in Seq(Frame)
         /\ ToSet(<<x, a, n, k, s>>) = {x, a, n, k, s} /\ Pairwise(<<x, a, n, k, s>>)
<1> DEFINE ops == <<x, a, n, k, s>>
<1>1. /\ ops \in Seq(Frame) /\ DOMAIN ops = {1, 2, 3, 4, 5}
      /\ ops[1] = x /\ ops[2] = a /\ ops[3] = n /\ ops[4] = k /\ ops[5] = s
  OBVIOUS
<1> HIDE DEF ops
<1>2. ToSet(ops) = {x, a, n, k, s}
  BY <1>1 DEF ToSet
<1>3. \A i, j \in {1, 2, 3, 4, 5} : i < j =>
          \/ i = 1 /\ j \in {2, 3, 4, 5}
          \/ i = 2 /\ j \in {3, 4, 5}
          \/ i = 3 /\ j \in {4, 5}
          \/ i = 4 /\ j = 5
  OBVIOUS
<1>4. Pairwise(ops)
  BY <1>1, <1>3 DEF Pairwise
<1>5. QED
  BY <1>1, <1>2, <1>4 DEF ops

\* Another transition of the same machine is not in progress, and none that
\* would make the machine, or a state of it, as new; and nothing inside waits.
LEMMA BeforeTransition ==
  ASSUME TypeOK, StackInv, EntryInv, ~failed, todo # <<>>, Head(todo).op = "rows",
         NEW i \in DOMAIN Table[Head(todo).of],
         Table[Head(todo).of][i].event = Kind(Head(todo).event)
  PROVE  LET m == Head(todo).of
             T == ToSet(Tail(todo))
         IN
         /\ m \in Machines /\ m \in States
         /\ \A g \in T : ~Exits(g)
         /\ \A g \in T : Keyed(g) => g.of \notin Below(m) \ {m}
         /\ \A g \in T : g.op = "set" => g.of # m
         /\ \A g \in T : Enters(g) => m \notin Below(g.of)
         /\ \A g \in T : g.op = "clear" => g.of \notin Children(m)
         /\ \A g \in T : g.op = "clear" /\ m \in Below(g.of) => ~Firm(m)
         /\ m \in Tracked => entered[m] = 1
<1> DEFINE h == Head(todo)
           m == h.of
           T == ToSet(Tail(todo))
<1>1. /\ h \in Frame /\ h.op = "rows" /\ \A g \in T : Apart(h, g) /\ g \in Frame
      /\ Accountable({h} \cup T, h, current, entered)
      /\ Entries({h} \cup T, current, entered)
      /\ todo \in Seq(Frame) /\ Tail(todo) \in Seq(Frame)
  <2>1. T \subseteq ToSet(todo) /\ ToSet(todo) \subseteq Frame
    BY FirstAndRest
  <2>2. QED
    BY <2>1, FirstAndRest
<1>2. m \in Machines /\ m \in States
  BY <1>1, FrameFields, TreeAssumption
<1>3. Spawns(h) /\ Works(h) /\ ~Exits(h) /\ ~Enters(h) /\ Reach(h) = Below(m) \ {m}
  BY <1>1, SpawnsQuiet DEF Spawns, Reach
<1>4. ASSUME NEW g \in T PROVE g.op = "set" => g.of # m
  <2>1. PICK j \in DOMAIN Tail(todo) : g = Tail(todo)[j]
    BY DEF ToSet
  <2>2. j + 1 \in DOMAIN todo /\ g = todo[j + 1] /\ j \in Nat \ {0} /\ 1 \in DOMAIN todo /\ h = todo[1]
    BY <1>1, <2>1, TailFacts
  <2>3. Confined(todo)
    BY DEF StackInv, Stacked
  <2>4. Scope(h) \cap Relies(g) = {}
    <3>1. 1 < j + 1
      BY <2>2
    <3>2. QED
      BY <2>2, <2>3, <3>1 DEF Confined
  <2>5. m \in Scope(h)
    BY <1>1, <1>2, UpSelf DEF Scope
  <2>6. g.op = "set" => Relies(g) = {g.of}
    BY DEF Relies
  <2>7. QED
    BY <2>4, <2>5, <2>6
<1> HIDE DEF h, T
<1>5. \A g \in T : ~Exits(g)
  BY <1>1, <1>3, NoExitsLater
<1>6. \A g \in T : /\ Keyed(g) => g.of \notin Below(m) \ {m}
                   /\ Enters(g) => m \notin Below(g.of)
  BY <1>1, <1>3 DEF Apart, Nested
<1>7. ASSUME NEW g \in T, g.op = "clear" PROVE g.of \notin Children(m)
  <2>1. Vacated({h} \cup T, g)
    BY <1>1 DEF Entries, Accountable
  <2>2. PICK f \in {h} \cup T : f.op = "set" /\ f.of = Parent[g.of]
    BY <1>7, <2>1 DEF Vacated, Moving
  <2>3. f \in T
    BY <1>1, <2>2
  <2>4. QED
    BY <1>4, <2>2, <2>3 DEF Children
<1>8. ASSUME NEW g \in T, g.op = "clear", m \in Below(g.of) PROVE ~Firm(m)
  <2> SUFFICES ASSUME Firm(m) PROVE FALSE
    OBVIOUS
  <2>1. m \in Tracked
    BY <1>2 DEF Firm, Tracked
  <2>2. m \in EnteredWith(g.of) /\ Repeats(g.of) /\ h.event = None
    BY <1>1, <1>8, <2>1 DEF Apart, BeforeClear, InPhase
  <2>3. Table[m][i].event = None
    BY <2>2 DEF Kind, h
  <2>4. g.of \in States
    BY <1>1, <1>8, KindsOf
  <2>5. QED
    BY <1>2, <2>2, <2>3, <2>4, StaleByDefault DEF h
<1>9. m \in Tracked => entered[m] = 1
  BY <1>1 DEF Accountable, Opened
<1>10. QED
  BY <1>2, <1>4, <1>5, <1>6, <1>7, <1>8, <1>9 DEF h, T

\* What a transition that is about to be made adds to what is left to do.
LEMMA TransitionEntries ==
  ASSUME TypeOK, StackInv, EntryInv, ~failed, todo # <<>>, Head(todo).op = "rows",
         NEW i \in DOMAIN Table[Head(todo).of], i \in Nat,
         Table[Head(todo).of][i].event = Kind(Head(todo).event),
         Table[Head(todo).of][i].from = current[Head(todo).of],
         Do(Transition(Head(todo).of, Head(todo).event, i)),
         UNCHANGED <<current, entered, throwing, failed>>
  PROVE  EntryInv'
<1> DEFINE h == Head(todo)
           m == h.of
           v == h.event
           T == ToSet(Tail(todo))
           s0 == Table[m][i].from
           t == Table[m][i].to
           x == Op("exit", s0, v)
           a == Call("action", m, i, v)
           n == Op("enter", t, v)
           k == Op("clear", s0, v)
           s == SetCurrent(m, t)
           five == <<x, a, n, k, s>>
           tried == Tried(m, v, i)
           F == {h} \cup T
           G == {x, n, k, s} \cup T
<1>1. /\ h \in Frame /\ h.op = "rows" /\ \A g \in T : Apart(h, g) /\ g \in Frame
      /\ Entries(F, current, entered) /\ Tail(todo) \in Seq(Frame)
  <2>1. T \subseteq ToSet(todo) /\ ToSet(todo) \subseteq Frame
    BY FirstAndRest
  <2>2. QED
    BY <2>1, FirstAndRest
<1>2. /\ m \in Machines /\ m \in States
      /\ \A g \in T : ~Exits(g)
      /\ \A g \in T : Keyed(g) => g.of \notin Below(m) \ {m}
      /\ \A g \in T : g.op = "set" => g.of # m
      /\ \A g \in T : Enters(g) => m \notin Below(g.of)
      /\ \A g \in T : g.op = "clear" => g.of \notin Children(m)
      /\ \A g \in T : g.op = "clear" /\ m \in Below(g.of) => ~Firm(m)
      /\ m \in Tracked => entered[m] = 1
  BY BeforeTransition
<1>3. /\ s0 = current[m] /\ s0 \in Children(m) /\ t \in Children(m) /\ s0 \in States /\ t \in States
      /\ v \in Events \cup {None} /\ Table[m][i] \in ToSet(Table[m])
  <2>1. v \in Events \cup {None}
    BY <1>1, FrameFields
  <2>2. s0 \in Children(m) /\ t \in Children(m)
    BY <1>2, TableAssumption
  <2>3. Table[m][i] \in ToSet(Table[m])
    BY DEF ToSet
  <2>4. QED
    BY <2>1, <2>2, <2>3, ParentInTree DEF Children
<1>4. /\ Below(s0) \subseteq Below(m) \ {m} /\ Below(t) \subseteq Below(m) \ {m}
      /\ s0 \in Below(s0) /\ t \in Below(t) /\ m \in Below(m)
      /\ s0 # t => Below(s0) \cap Below(t) = {}
      /\ s0 # Root /\ t # Root /\ Parent[s0] = m /\ Parent[t] = m
      /\ Up[t] = {t} \cup Up[m] /\ Up[s0] = {s0} \cup Up[m]
  <2>1. s0 \in DOMAIN Parent /\ t \in DOMAIN Parent /\ Parent[s0] = m /\ Parent[t] = m
    BY <1>3 DEF Children
  <2> HIDE DEF s0, t, m
  <2>2. Below(s0) \subseteq Below(m) \ {m} /\ Below(t) \subseteq Below(m) \ {m}
    BY <1>3, BelowChild
  <2>3. s0 # t => Below(s0) \cap Below(t) = {}
    BY <1>3, SiblingsApart
  <2>4. s0 \in Below(s0) /\ t \in Below(t) /\ m \in Below(m)
    BY <1>2, <1>3, UpSelf
  <2>5. s0 # Root /\ t # Root
    BY <2>1, ParentInTree
  <2>6. Up[t] = {t} \cup Up[m] /\ Up[s0] = {s0} \cup Up[m]
    BY <2>1, UpStep
  <2>7. QED
    BY <2>1, <2>2, <2>3, <2>4, <2>5, <2>6
<1>5. /\ x \in Frame /\ x.op = "exit" /\ x.of = s0
      /\ a \in Frame /\ a.op = "call" /\ a.kind = "action"
      /\ n \in Frame /\ n.op = "enter" /\ n.of = t
      /\ k \in Frame /\ k.op = "clear" /\ k.of = s0
      /\ s \in Frame /\ s.op = "set" /\ s.of = m /\ s.to = t
  <2> HIDE DEF s0, t, m, v
  <2>1. x \in Frame /\ x.op = "exit" /\ x.of = s0 /\ k \in Frame /\ k.op = "clear" /\ k.of = s0
    BY <1>3, OpFrame DEF OpNames
  <2>2. n \in Frame /\ n.op = "enter" /\ n.of = t
    BY <1>3, OpFrame DEF OpNames
  <2>3. a \in Frame /\ a.op = "call" /\ a.kind = "action"
    BY <1>2, <1>3, CallFrame DEF Call
  <2>4. s \in Frame /\ s.op = "set" /\ s.of = m /\ s.to = t
    BY <1>2, <1>3, SetFrame
  <2>5. QED
    BY <2>1, <2>2, <2>3, <2>4
<1>6. /\ tried \in Seq(Frame) /\ Pairwise(tried) /\ \A f \in ToSet(tried) : Idle(f)
  <2> DEFINE y == Try(m, v, i)
  <2>1. y \in Frame /\ y.op = "try"
    BY <1>2, <1>3, TryFrame DEF TypeOK
  <2> HIDE DEF y
  <2>2. <<y>> \in Seq(Frame) /\ ToSet(<<y>>) = {y} /\ Pairwise(<<y>>) /\ Idle(y)
    BY <2>1, PairwiseOne DEF Idle
  <2>3. <<>> \in Seq(Frame) /\ ToSet(<<>>) = {} /\ Pairwise(<<>>)
    BY PairwiseNone
  <2>4. tried \in {<<>>, <<y>>}
    BY DEF Tried, y
  <2>5. QED
    BY <2>2, <2>3, <2>4
<1>7. Transition(m, v, i) = five \o tried
  BY DEF Transition
<1>8. Idle(a) /\ (s0 = t => Repeats(s0))
  BY <1>2, <1>3, <1>5 DEF Idle, Exits, Enters, Repeats
<1>9. Do(five \o tried)
  BY <1>7
<1> HIDE DEF h, m, T, s0, t, v, x, a, n, k, s, tried
<1>10. /\ Exits(x) /\ Works(x) /\ Reach(x) = Below(s0) /\ Enters(n) /\ Works(n) /\ Reach(n) = Below(t)
       /\ ~Works(k) /\ ~Enters(k) /\ ~Exits(k) /\ ~Works(s) /\ ~Keyed(k)
       /\ ~Enters(s) /\ ~Exits(s) /\ ~Exits(n) /\ ~Enters(x)
       /\ ~Spawns(x) /\ ~Spawns(n) /\ ~Spawns(k) /\ ~Spawns(s)
       /\ \A f \in {x, a, n, k, s} : ~LastExit(f) /\ ~FirstEntry(f)
  BY <1>5 DEF Exits, Enters, Works, Keyed, Spawns, Reach, LastExit, FirstEntry
<1>11. five \in Seq(Frame) /\ ToSet(five) = {x, a, n, k, s} /\ Pairwise(five)
  <2>1. Apart(x, a)
    BY <1>8, ApartFromIdle
  <2>2. Apart(a, n) /\ Apart(a, k) /\ Apart(a, s)
    BY <1>8, <1>10, ApartIdle
  <2>3. Apart(x, n)
    <3>1. Nested(x, n)
      BY <1>4, <1>5, <1>10 DEF Nested
    <3>2. InPhase(x, n) /\ BeforeClear(x, n) /\ Ending(x, n) /\ InOrder(x, n)
      BY <1>5, <1>10 DEF InPhase, BeforeClear, Ending, InOrder
    <3>3. QED
      BY <3>1, <3>2 DEF Apart
  <2>4. Apart(x, k)
    BY <1>5, <1>10 DEF Apart, InPhase, Nested, BeforeClear, Ending, InOrder
  <2>5. Apart(x, s)
    <3>1. Nested(x, s)
      BY <1>4, <1>5, <1>10 DEF Nested
    <3>2. InPhase(x, s) /\ BeforeClear(x, s) /\ Ending(x, s) /\ InOrder(x, s)
      BY <1>5, <1>10 DEF InPhase, BeforeClear, Ending, InOrder
    <3>3. QED
      BY <3>1, <3>2 DEF Apart
  <2>6. Apart(n, k)
    <3>1. BeforeClear(n, k)
      <4>1. t \in Below(s0) => t = s0
        BY <1>4
      <4>2. s0 \in EnteredWith(s0)
        BY <1>3, EnteredSelf
      <4>3. QED
        BY <1>5, <1>8, <4>1, <4>2 DEF BeforeClear
    <3>2. InPhase(n, k) /\ Nested(n, k) /\ Ending(n, k) /\ InOrder(n, k)
      BY <1>5, <1>10 DEF InPhase, Nested, Ending, InOrder
    <3>3. QED
      BY <3>1, <3>2 DEF Apart
  <2>7. Apart(n, s)
    <3>1. Nested(n, s)
      BY <1>4, <1>5, <1>10 DEF Nested
    <3>2. InPhase(n, s) /\ BeforeClear(n, s) /\ Ending(n, s) /\ InOrder(n, s)
      BY <1>5, <1>10 DEF InPhase, BeforeClear, Ending, InOrder
    <3>3. QED
      BY <3>1, <3>2 DEF Apart
  <2>8. Apart(k, s)
    BY <1>5, <1>10 DEF Apart, InPhase, Nested, BeforeClear, Ending, InOrder
  <2>9. QED
    BY <1>5, <2>1, <2>2, <2>3, <2>4, <2>5, <2>6, <2>7, <2>8, PairwiseFive
<1> HIDE DEF five
<1>12. /\ five \o tried \in Seq(Frame) /\ Pairwise(five \o tried)
       /\ ToSet(five \o tried) = {x, a, n, k, s} \cup ToSet(tried)
  <2>1. \A f \in ToSet(five), g \in ToSet(tried) : Apart(f, g)
    BY <1>6, ApartFromIdle
  <2>2. QED
    BY <1>6, <1>11, <2>1, PairwiseConcat
<1>13. ASSUME NEW g \in T
       PROVE  /\ Apart(x, g) /\ Apart(n, g) /\ Apart(k, g) /\ Apart(s, g)
  <2>1. ~Exits(g) /\ (Keyed(g) => g.of \notin Below(m) \ {m})
        /\ (Enters(g) => Keyed(g) /\ m \notin Below(g.of))
    BY <1>2, Kinds
  <2>2. \A f \in {x, n, k, s} : InPhase(f, g)
    BY <1>5, <2>1 DEF InPhase
  <2>3. Nested(x, g) /\ Nested(k, g) /\ Nested(s, g)
    BY <1>4, <1>10, <2>1 DEF Nested
  <2>4. Nested(n, g)
    <3>1. ASSUME Enters(g), t \in Below(g.of) PROVE FALSE
      <4>1. g.of \in Up[t]
        BY <3>1 DEF Below
      <4>2. g.of = t \/ m \in Below(g.of)
        BY <1>2, <1>4, <4>1 DEF Below
      <4>3. QED
        BY <1>4, <2>1, <3>1, <4>2
    <3>2. QED
      BY <1>4, <1>5, <1>10, <2>1, <3>1 DEF Nested
  <2>5. \A f \in {x, n, k, s} : Ending(f, g)
    <3>1. (Enters(g) \/ g.op = "clear") => g.of \notin Children(m)
      <4>1. ASSUME g.of \in Children(m) PROVE g.of \in Below(m) \ {m}
        <5>1. g.of \in States
          BY <4>1, ParentInTree DEF Children
        <5>2. QED
          BY <4>1, <5>1, BelowChild, UpSelf
      <4>2. QED
        BY <1>2, <2>1, <4>1
    <3>2. QED
      BY <1>5, <3>1 DEF Ending
  <2>6. \A f \in {x, n, k, s} : InOrder(f, g)
    <3>1. ASSUME NEW o \in Orthogonal, NEW j \in DOMAIN Regions[o], Regions[o][j] \in {s0, t}
          PROVE  FALSE
      <4>1. Regions[o][j] \in Children(o)
        BY RegionsOf
      <4>2. o = m
        BY <1>4, <3>1, <4>1 DEF Children
      <4>3. QED
        BY <1>2, <4>2, TreeAssumption
    <3>2. QED
      BY <1>5, <1>10, <3>1 DEF InOrder
  <2>7. \A f \in {x, n, k, s} : BeforeClear(f, g)
    <3>1. ASSUME g.op = "clear", m \in Below(g.of) PROVE ~Firm(m) /\ t \notin Tracked
      <4>1. ~Firm(m)
        BY <1>2, <3>1
      <4>2. t \in Tracked => Firm(m)
        BY <1>4, TrackedAround
      <4>3. QED
        BY <4>1, <4>2
    <3>2. ASSUME g.op = "clear", t \in Below(g.of) PROVE m \in Below(g.of)
      <4>1. g.of \in Up[t] /\ g.of # t
        BY <1>2, <1>3, <3>2 DEF Below
      <4>2. QED
        BY <1>2, <1>4, <4>1 DEF Below
    <3>3. QED
      BY <1>5, <1>10, <3>1, <3>2 DEF BeforeClear
  <2>8. QED
    BY <2>2, <2>3, <2>4, <2>5, <2>6, <2>7 DEF Apart
<1>14. ASSUME NEW f \in {x, a, n, k, s} \cup ToSet(tried), NEW g \in T PROVE Apart(f, g)
  <2>1. CASE Idle(f)
    BY <1>2, <2>1, ApartIdle
  <2>2. CASE f \in {x, n, k, s}
    BY <1>13, <2>2
  <2>3. QED
    BY <1>6, <1>8, <1>14, <2>1, <2>2
<1>15. Pairwise(todo') /\ ToSet(todo') = ({x, a, n, k, s} \cup ToSet(tried)) \cup T
  <2> DEFINE ops == five \o tried
  <2>1. ops \in Seq(Frame) /\ Pairwise(ops) /\ Do(ops)
        /\ \A f \in ToSet(ops), g \in ToSet(Tail(todo)) : Apart(f, g)
    BY <1>9, <1>12, <1>14 DEF T
  <2> HIDE DEF ops
  <2>2. Pairwise(todo') /\ ToSet(todo') = ToSet(ops) \cup ToSet(Tail(todo))
    BY <2>1, NewStack
  <2>3. QED
    BY <1>12, <2>2 DEF T, ops
<1>16. Entries(G, current, entered)
  <2>1. /\ \A u : Leaving(G, u) <=> u = s0
        /\ \A u : Entering(G, u) <=> u = t \/ Entering(T, u)
        /\ \A u : ~Emptied(G, u) /\ (Opening(G, u) <=> Opening(T, u))
        /\ \A p : Moving(G, p) <=> p = m \/ Moving(T, p)
        /\ \A p, u : MovingTo(G, p, u) <=> (p = m /\ u = t) \/ MovingTo(T, p, u)
        /\ \A p : Clearing(G, p) <=> p \in Below(s0) \/ Clearing(T, p)
    <3>1. \A u : Leaving(G, u) <=> u = s0
      BY <1>2, <1>5, <1>10 DEF Leaving
    <3>2. \A u : Entering(G, u) <=> u = t \/ Entering(T, u)
      BY <1>5, <1>10 DEF Entering
    <3>3. \A u : ~Emptied(G, u) /\ (Opening(G, u) <=> Opening(T, u))
      BY <1>2, <1>10, Kinds DEF Emptied, Opening
    <3>4. \A p : Moving(G, p) <=> p = m \/ Moving(T, p)
      BY <1>5 DEF Moving
    <3>5. \A p, u : MovingTo(G, p, u) <=> (p = m /\ u = t) \/ MovingTo(T, p, u)
      BY <1>5 DEF MovingTo
    <3>6. \A p : Clearing(G, p) <=> p \in Below(s0) \/ Clearing(T, p)
      BY <1>5 DEF Clearing
    <3>7. QED
      BY <3>1, <3>2, <3>3, <3>4, <3>5, <3>6
  <2>2. /\ \A u : Entering(F, u) <=> Entering(T, u)
        /\ \A u : ~Leaving(F, u) /\ ~Emptied(F, u) /\ (Opening(F, u) <=> Opening(T, u))
        /\ \A p : Moving(F, p) <=> Moving(T, p)
        /\ \A p, u : MovingTo(F, p, u) <=> MovingTo(T, p, u)
        /\ \A p : Clearing(F, p) <=> Clearing(T, p)
        /\ \A p : Renewed(F, p) <=> Renewed(T, p)
    <3>1. Quiet(h) /\ Spawns(h)
      BY <1>1, SpawnsQuiet DEF Spawns
    <3>2. \A f \in {h} : Quiet(f)
      BY <3>1
    <3>3. \A u : ~Leaving(F, u) /\ ~Emptied(F, u)
      BY <1>1, <3>1, SpawnFacts
    <3>4. QED
      BY <3>2, <3>3, QuietPresence
  <2>3. /\ \A u \in Below(m) \ {m} : ~Entering(T, u) /\ ~Moving(T, u)
        /\ ~Moving(T, m) /\ \A u : ~MovingTo(T, m, u)
        /\ Firm(m) => ~Clearing(T, m)
    BY <1>2, Kinds DEF Entering, Moving, MovingTo, Clearing
  <2>4. \A p : Renewed(G, p) <=> Renewed(F, p)
    <3>1. \A g \in T : g.op = "clear" => ~Leaving(G, g.of) /\ ~Leaving(T, g.of)
      BY <1>2, <1>3, <2>1, <2>2, Kinds DEF Leaving
    <3>2. \A p : Renewed(T, p) <=> Clearing(T, p)
      BY <3>1 DEF Renewed, Clearing
    <3>3. \A p : Renewed(G, p) <=> Clearing(T, p)
      BY <1>5, <2>1, <3>1 DEF Renewed, Clearing
    <3>4. QED
      BY <2>2, <3>2, <3>3
  <2>5. \A u \in Tracked : u \in Children(m) =>
            /\ Firm(m) /\ m \in Tracked /\ entered[m] = 1 /\ u # Root /\ Parent[u] = m
            /\ u \in Below(m) \ {m}
            /\ entered[u] = IF current[m] = u THEN 1 ELSE 0
    <3> SUFFICES ASSUME NEW u \in Tracked, u \in Children(m)
                 PROVE  /\ Firm(m) /\ m \in Tracked /\ entered[m] = 1 /\ u # Root /\ Parent[u] = m
                        /\ u \in Below(m) \ {m}
                        /\ entered[u] = IF current[m] = u THEN 1 ELSE 0
      OBVIOUS
    <3>1. u # Root /\ Parent[u] = m /\ u \in States
      BY ParentInTree DEF Children
    <3>2. Firm(m) /\ m \in Tracked /\ entered[m] = 1
      BY <1>2, <3>1, TrackedAround
    <3>3. u \in Below(m) \ {m}
      BY <3>1, BelowChild, UpSelf
    <3>4. ~Renewed(F, m)
      BY <2>2, <2>3, <3>2 DEF Renewed, Clearing
    <3>5. entered[u] = IF current[m] = u THEN 1 ELSE 0
      <4>1. ~Leaving(F, u) /\ ~Entering(F, u) /\ ~Emptied(F, Parent[u]) /\ ~Moving(F, Parent[u])
            /\ ~Renewed(F, Parent[u]) /\ entered[Parent[u]] = 1
        BY <2>2, <2>3, <3>1, <3>2, <3>3, <3>4
      <4>2. Entries(F, current, entered)
        BY <1>1
      <4> HIDE DEF F
      <4>3. entered[u] = IF Parent[u] \in Machines => current[Parent[u]] = u THEN 1 ELSE 0
        BY <4>1, <4>2, <3>1, Steady
      <4>4. QED
        BY <4>3, <1>2, <3>1
    <3>6. QED
      BY <3>1, <3>2, <3>3, <3>5
  <2>6. ASSUME NEW g \in T PROVE Accountable(G, g, current, entered)
    <3>1. Accountable(F, g, current, entered)
      BY <1>1 DEF Entries
    <3>2. Opened(G, g, entered)
      BY <2>1, <2>2, <3>1 DEF Accountable, Opened
    <3>3. Left(G, g)
      BY <1>2 DEF Left
    <3>4. Joined(G, g, current, entered)
      <4>1. ASSUME Enters(g) PROVE Parent[g.of] # m \/ g.of \notin Tracked
        <5>1. Keyed(g) /\ g.of \notin Below(m) \ {m}
          BY <1>2, <4>1, Kinds
        <5>2. g.of \in States /\ g.of # Root
          BY <1>1, <3>1, <4>1, KindsOf DEF Accountable, Joined
        <5>3. g.of \in DOMAIN Parent
          BY <5>2, TreeAssumption
        <5>4. QED
          BY <2>5, <5>1, <5>3 DEF Children
      <4>2. QED
        BY <2>1, <2>2, <3>1, <4>1 DEF Accountable, Joined, Begins
    <3>5. Prepared(G, g) /\ Vacated(G, g)
      BY <2>1, <2>2, <3>1 DEF Accountable, Prepared, Vacated
    <3>6. Following(G, g)
      BY <1>2, <2>1, <2>2, <3>1 DEF Accountable, Following
    <3>7. QED
      BY <3>2, <3>3, <3>4, <3>5, <3>6 DEF Accountable
  <2>7. \A o \in Orthogonal : \A j \in DOMAIN Regions[o] : Regions[o][j] \notin {s0, t}
    <3> SUFFICES ASSUME NEW o \in Orthogonal, NEW j \in DOMAIN Regions[o], Regions[o][j] \in {s0, t}
                 PROVE  FALSE
      OBVIOUS
    <3>1. Regions[o][j] \in Children(o)
      BY RegionsOf
    <3>2. o = m
      BY <1>4, <3>1 DEF Children
    <3>3. QED
      BY <1>2, <3>2, TreeAssumption
  <2>8. Accountable(G, x, current, entered)
    <3>1. Left(G, x)
      <4>1. ASSUME s0 \in Tracked, NEW g \in G, g.op = "clear", s0 \in Below(g.of)
            PROVE  Leaving(G, g.of)
        <5>1. CASE g = k
          BY <1>5, <2>1, <5>1
        <5>2. CASE g \in T
          <6>1. g.of = s0 \/ m \in Below(g.of)
            BY <1>2, <1>4, <4>1 DEF Below
          <6>2. Firm(m)
            BY <1>4, <4>1, TrackedAround
          <6>3. QED
            BY <1>2, <1>3, <4>1, <5>2, <6>1, <6>2
        <5>3. QED
          BY <1>5, <4>1, <5>1, <5>2
      <4>2. Moving(G, m) /\ (Entering(G, s0) \/ ~MovingTo(G, m, s0)) /\ Clearing(G, s0)
        BY <1>4, <2>1, <2>3
      <4>3. QED
        BY <1>4, <1>5, <4>1, <4>2 DEF Left
    <3>2. QED
      BY <1>5, <1>10, <2>7, <3>1 DEF Accountable, Opened, Joined, Prepared, Vacated, Following
  <2>9. Accountable(G, n, current, entered)
    <3>1. Joined(G, n, current, entered)
      BY <1>4, <1>5, <2>1, <2>5, <1>3 DEF Joined
    <3>2. QED
      BY <1>5, <1>10, <2>7, <3>1 DEF Accountable, Opened, Left, Prepared, Vacated, Following
  <2>10. Accountable(G, k, current, entered)
    BY <1>4, <1>5, <1>10, <2>1 DEF Accountable, Opened, Left, Joined, Prepared, Vacated, Following
  <2>11. Accountable(G, s, current, entered)
    BY <1>2, <1>5, <1>10 DEF Accountable, Opened, Left, Joined, Prepared, Vacated, Following
  <2>12. ASSUME NEW u \in Tracked \ {Root} PROVE Ruled(G, current, entered, u)
    <3>1. Ruled(F, current, entered, u)
      BY <1>1 DEF Entries
    <3>2. CASE u \in Children(m)
      <4>1. /\ entered[m] = 1 /\ Parent[u] = m /\ u \in Below(m) \ {m}
            /\ entered[u] = IF s0 = u THEN 1 ELSE 0
        BY <1>3, <2>5, <3>2
      <4>2. Moving(G, m) /\ (MovingTo(G, m, u) => u = t)
        BY <2>1, <2>3
      <4>3. (Leaving(G, u) <=> u = s0) /\ (Entering(G, u) <=> u = t)
        BY <2>1, <2>3, <4>1
      <4>4. u # t => ~Inhabits(G, current, entered, u)
        BY <1>2, <4>1, <4>2 DEF Inhabits, Slot
      <4>5. QED
        BY <4>1, <4>3, <4>4 DEF Ruled
    <3>3. CASE u \notin Children(m)
      <4>1. u \in States /\ u \in Children(Parent[u])
        BY TrackedAround
      <4>2. Parent[u] # m /\ u # s0 /\ u # t
        BY <1>3, <3>3, <4>1
      <4>3. Inhabits(G, current, entered, u) <=> Inhabits(F, current, entered, u)
        BY <2>1, <2>2, <2>4, <4>2 DEF Inhabits, Slot
      <4>4. QED
        BY <2>1, <2>2, <3>1, <4>2, <4>3 DEF Ruled
    <3>4. QED
      BY <3>2, <3>3
  <2>13. ASSUME NEW p \in Machines PROVE Fresh(G, current, entered, p)
    BY <1>1, <2>1, <2>2 DEF Entries, Fresh
  <2>14. entered[Root] = 1
    BY <1>1 DEF Entries
  <2>15. QED
    BY <2>6, <2>8, <2>9, <2>10, <2>11, <2>12, <2>13, <2>14 DEF Entries
<1>17. QED
  <2> DEFINE B == {a} \cup ToSet(tried)
  <2>1. \A f \in {} \cup B : Quiet(f)
    BY <1>6, <1>8, IdleFacts
  <2>2. \A f \in B : Opened(B \cup G, f, entered)
    <3>1. \A f \in B : Idle(f)
      BY <1>6, <1>8
    <3>2. QED
      BY <3>1 DEF Idle, Opened
  <2>3. {} \cup G = G /\ B \cup G = ({x, a, n, k, s} \cup ToSet(tried)) \cup T
    OBVIOUS
  <2> HIDE DEF B, G
  <2>4. Entries({} \cup G, current, entered)
    BY <1>16, <2>3
  <2>5. Entries(B \cup G, current, entered)
    BY <2>1, <2>2, <2>4, QuietEntries
  <2>6. Entries(ToSet(todo'), current', entered')
    BY <1>15, <2>3, <2>5
  <2>7. ~throwing'
    BY DEF EntryInv
  <2>8. QED
    BY <1>15, <2>6, <2>7 DEF EntryInv

-----------------------------------------------------------------------------
(* What is left, and entered, with a state *)

\* A state is in one list of regions at most, in one place.
LEMMA PlaceOf ==
  ASSUME NEW n \in Orthogonal, NEW i \in DOMAIN Regions[n],
         NEW o \in Orthogonal, NEW j \in DOMAIN Regions[o], Regions[o][j] = Regions[n][i]
  PROVE  o = n /\ j = i
<1>1. Regions[o][j] \in Children(o) /\ Regions[n][i] \in Children(n)
  BY RegionsOf
<1>2. o = n
  BY <1>1 DEF Children
<1>3. QED
  BY <1>2, RegionsOf

LEMMA RegionsSeq ==
  ASSUME NEW n \in Orthogonal
  PROVE  /\ Regions[n] \in Seq(States) /\ Len(Regions[n]) \in Nat
         /\ DOMAIN Regions[n] = 1..Len(Regions[n])
         /\ \A s \in Children(n) : \E i \in DOMAIN Regions[n] : Regions[n][i] = s
<1>1. /\ Regions[n] \in Seq(Machines \cup Orthogonal) /\ ToSet(Regions[n]) = Children(n)
      /\ Machines \cup Orthogonal \subseteq States
  BY TreeAssumption
<1>2. Regions[n] \in Seq(States)
  BY <1>1
<1>3. QED
  BY <1>1, <1>2, RegionsOf DEF ToSet

\* The calls that leave all regions, and those that enter them, are in order.
LEMMA RegionsLeft ==
  ASSUME NEW n \in Orthogonal, NEW e \in Events \cup {None}
  PROVE  LET ops == Ops("exit", Reverse(Regions[n]), e) IN
         /\ ops \in Seq(Frame) /\ Pairwise(ops)
         /\ \A f \in ToSet(ops) : f \in Frame /\ f.op = "exit" /\ f.of \in Children(n)
         /\ \A s \in Children(n) : \E f \in ToSet(ops) : f.of = s
<1> DEFINE R == Regions[n]
           N == Len(R)
           ops == Ops("exit", Reverse(R), e)
           back(i) == (N - i) + 1
<1>1. /\ N \in Nat /\ DOMAIN R = 1..N /\ \A i \in 1..N : R[i] \in Children(n) /\ R[i] \in States
      /\ \A s \in Children(n) : \E i \in 1..N : R[i] = s
      /\ R \in Seq(States)
  BY RegionsSeq, RegionsOf
<1>2. \A i \in 1..N : back(i) \in 1..N /\ back(back(i)) = i
  BY <1>1
<1>3. \A i, j \in 1..N : i < j => back(i) > back(j)
  BY <1>1
<1>4. /\ Reverse(R) \in Seq(States) /\ DOMAIN Reverse(R) = 1..N
      /\ \A i \in 1..N : Reverse(R)[i] = R[back(i)]
  BY <1>1, ReverseFacts DEF Reverse
<1>5. DOMAIN ops = 1..N /\ \A i \in 1..N : ops[i] = Op("exit", R[back(i)], e)
  BY <1>4 DEF Ops
<1>6. ops \in Seq(Frame) /\ \A f \in ToSet(ops) : f \in Frame /\ f.op = "exit"
  BY <1>4, OpsFacts DEF OpNames
<1> HIDE DEF ops, N, back
<1>7. \A i \in 1..N : ops[i].op = "exit" /\ ops[i].of = R[back(i)] /\ ops[i] \in Frame
  BY <1>1, <1>2, <1>5, OpFrame DEF OpNames
<1>8. ASSUME NEW i \in DOMAIN ops, NEW j \in DOMAIN ops, i < j
      PROVE  Apart(ops[i], ops[j])
  <2> DEFINE f == ops[i]
             g == ops[j]
             s == R[back(i)]
             t == R[back(j)]
  <2>1. /\ f.op = "exit" /\ f.of = s /\ g.op = "exit" /\ g.of = t
        /\ back(i) \in 1..N /\ back(j) \in 1..N /\ back(i) > back(j)
    BY <1>2, <1>3, <1>5, <1>7, <1>8
  <2> HIDE DEF f, g
  <2>2. s \in Children(n) /\ t \in Children(n) /\ t \in States
    BY <1>1, <2>1
  <2>3. t \notin Below(s)
    <3>1. s # t
      <4>1. s = t => back(j) = back(i)
        BY <1>1, <2>1, PlaceOf
      <4>2. back(i) \in Nat /\ back(j) \in Nat
        BY <1>1, <2>1
      <4>3. QED
        BY <4>1, <4>2, <2>1
    <3>2. QED
      BY <2>2, <3>1, SiblingsApart, UpSelf
  <2>4. Exits(f) /\ Exits(g) /\ Reach(f) = Below(s)
    BY <2>1 DEF Exits, Reach
  <2>5. InOrder(f, g)
    <3> SUFFICES ASSUME NEW o \in Orthogonal, NEW p \in DOMAIN Regions[o], NEW q \in DOMAIN Regions[o],
                        s = Regions[o][p], t = Regions[o][q]
                 PROVE  p > q
      BY <2>1, <2>4, Kinds DEF InOrder
    <3>1. p = back(i) /\ q = back(j)
      BY <1>1, <2>1, PlaceOf
    <3>2. QED
      BY <2>1, <3>1
  <2>6. InPhase(f, g) /\ Nested(f, g) /\ Ending(f, g) /\ BeforeClear(f, g)
    BY <2>1, <2>3, <2>4, Kinds DEF InPhase, Nested, Ending, BeforeClear
  <2>7. QED
    BY <2>5, <2>6 DEF Apart, f, g
<1>9. \A f \in ToSet(ops) : f.of \in Children(n)
  <2> SUFFICES ASSUME NEW i \in 1..N PROVE ops[i].of \in Children(n)
    BY <1>5 DEF ToSet
  <2>1. QED
    BY <1>1, <1>2, <1>7
<1>10. ASSUME NEW s \in Children(n) PROVE \E f \in ToSet(ops) : f.of = s
  <2>1. PICK i \in 1..N : R[i] = s
    BY <1>1
  <2>2. back(i) \in DOMAIN ops /\ ops[back(i)].of = R[back(back(i))]
    BY <1>2, <1>5, <1>7
  <2>3. ops[back(i)] \in ToSet(ops) /\ ops[back(i)].of = s
    BY <1>2, <2>1, <2>2 DEF ToSet
  <2>4. QED
    BY <2>3
<1>11. QED
  BY <1>6, <1>8, <1>9, <1>10 DEF Pairwise, ops

LEMMA RegionsEntered ==
  ASSUME NEW n \in Orthogonal, NEW e \in Events \cup {None}
  PROVE  LET ops == Ops("enter", Regions[n], e) IN
         /\ ops \in Seq(Frame) /\ Pairwise(ops)
         /\ \A f \in ToSet(ops) : f \in Frame /\ f.op = "enter" /\ f.of \in Children(n)
         /\ \A s \in Children(n) : \E f \in ToSet(ops) : f.of = s
<1> DEFINE R == Regions[n]
           N == Len(R)
           ops == Ops("enter", R, e)
<1>1. /\ N \in Nat /\ DOMAIN R = 1..N /\ \A i \in 1..N : R[i] \in Children(n) /\ R[i] \in States
      /\ \A s \in Children(n) : \E i \in 1..N : R[i] = s
      /\ R \in Seq(States)
  BY RegionsSeq, RegionsOf
<1>5. DOMAIN ops = 1..N /\ \A i \in 1..N : ops[i] = Op("enter", R[i], e)
  BY <1>1 DEF Ops
<1>6. ops \in Seq(Frame) /\ \A f \in ToSet(ops) : f \in Frame /\ f.op = "enter"
  BY <1>1, OpsFacts DEF OpNames
<1> HIDE DEF ops, N
<1>7. \A i \in 1..N : ops[i].op = "enter" /\ ops[i].of = R[i] /\ ops[i] \in Frame
  BY <1>1, <1>5, OpFrame DEF OpNames
<1>8. ASSUME NEW i \in DOMAIN ops, NEW j \in DOMAIN ops, i < j
      PROVE  Apart(ops[i], ops[j])
  <2> DEFINE f == ops[i]
             g == ops[j]
             s == R[i]
             t == R[j]
  <2>1. /\ f.op = "enter" /\ f.of = s /\ g.op = "enter" /\ g.of = t
        /\ i \in 1..N /\ j \in 1..N
    BY <1>5, <1>7, <1>8
  <2> HIDE DEF f, g
  <2>2. s \in Children(n) /\ t \in Children(n) /\ t \in States /\ s \in States
    BY <1>1, <2>1
  <2>3. t \notin Below(s) /\ s \notin Below(t)
    <3>1. s # t
      <4>1. s = t => j = i
        BY <1>1, <2>1, PlaceOf
      <4>2. i \in Nat /\ j \in Nat
        BY <1>1, <2>1
      <4>3. QED
        BY <4>1, <4>2, <1>8
    <3>2. QED
      BY <2>2, <3>1, SiblingsApart, UpSelf
  <2>4. Enters(f) /\ Enters(g) /\ Reach(f) = Below(s)
    BY <2>1 DEF Enters, Reach
  <2>5. InOrder(f, g)
    <3> SUFFICES ASSUME NEW o \in Orthogonal, NEW p \in DOMAIN Regions[o], NEW q \in DOMAIN Regions[o],
                        s = Regions[o][p], t = Regions[o][q]
                 PROVE  p < q
      BY <2>1, <2>4, Kinds DEF InOrder
    <3>1. p = i /\ q = j
      BY <1>1, <2>1, PlaceOf
    <3>2. QED
      BY <1>8, <3>1
  <2>6. InPhase(f, g) /\ Nested(f, g) /\ Ending(f, g) /\ BeforeClear(f, g)
    BY <2>1, <2>3, <2>4, Kinds DEF InPhase, Nested, Ending, BeforeClear
  <2>7. QED
    BY <2>5, <2>6 DEF Apart, f, g
<1>9. \A f \in ToSet(ops) : f.of \in Children(n)
  <2> SUFFICES ASSUME NEW i \in 1..N PROVE ops[i].of \in Children(n)
    BY <1>5 DEF ToSet
  <2>1. QED
    BY <1>1, <1>7
<1>10. ASSUME NEW s \in Children(n) PROVE \E f \in ToSet(ops) : f.of = s
  <2>1. PICK i \in 1..N : R[i] = s
    BY <1>1
  <2>2. ops[i] \in ToSet(ops) /\ ops[i].of = s
    BY <1>5, <1>7, <2>1 DEF ToSet
  <2>3. QED
    BY <2>2
<1>11. QED
  BY <1>6, <1>8, <1>9, <1>10 DEF Pairwise, ops

\* The states that are left with a state.
Inner(n, c) ==
    {s \in Children(n) : n \in Machines => s = c[n]}

\* The calls that leave what is inside a state: which they are, and that they are in order.
LEMMA LeftWith ==
  ASSUME TypeOK, NEW n \in States, NEW e \in Events \cup {None}
  PROVE  LET ops == InnerExit(n, e) IN
         /\ ops \in Seq(Frame) /\ Pairwise(ops)
         /\ \A f \in ToSet(ops) : f \in Frame /\ f.op = "exit" /\ f.of \in Inner(n, current)
         /\ \A s \in Inner(n, current) : \E f \in ToSet(ops) : f.of = s
<1>1. CASE n \in Machines
  <2> DEFINE f == Op("exit", current[n], e)
  <2>1. InnerExit(n, e) = <<f>> /\ current[n] \in Children(n) /\ current[n] \in States
    BY <1>1, TreeAssumption DEF InnerExit, TypeOK
  <2>2. f \in Frame /\ f.op = "exit" /\ f.of = current[n]
    BY <2>1, OpFrame DEF OpNames
  <2> HIDE DEF f
  <2>3. <<f>> \in Seq(Frame) /\ ToSet(<<f>>) = {f} /\ Pairwise(<<f>>)
    BY <2>2, PairwiseOne
  <2>4. Inner(n, current) = {current[n]}
    BY <1>1, <2>1 DEF Inner
  <2>5. QED
    BY <2>1, <2>2, <2>3, <2>4
<1>2. CASE n \in Orthogonal
  <2>1. InnerExit(n, e) = Ops("exit", Reverse(Regions[n]), e) /\ n \notin Machines
    BY <1>2, TreeAssumption DEF InnerExit
  <2>2. Inner(n, current) = Children(n)
    BY <2>1 DEF Inner
  <2>3. QED
    BY <1>2, <2>1, <2>2, RegionsLeft
<1>3. CASE n \notin Machines /\ n \notin Orthogonal
  <2>1. InnerExit(n, e) = <<>>
    BY <1>3 DEF InnerExit
  <2>2. Children(n) = {}
    BY <1>3, TreeAssumption DEF Children
  <2>3. QED
    BY <2>1, <2>2, PairwiseNone DEF Inner
<1>4. QED
  BY <1>1, <1>2, <1>3

\* Leaving a state begins with what is inside it.
LEMMA ExitEntries ==
  ASSUME TypeOK, StackInv, EntryInv, ~failed, todo # <<>>, Head(todo).op = "exit",
         Do(InnerExit(Head(todo).of, Head(todo).event)
              \o <<Call("exit", Head(todo).of, 0, Head(todo).event)>>),
         UNCHANGED <<current, entered, throwing, failed>>
  PROVE  EntryInv'
<1> DEFINE h == Head(todo)
           n == h.of
           v == h.event
           T == ToSet(Tail(todo))
           inner == InnerExit(n, v)
           I == ToSet(inner)
           x == Call("exit", n, 0, v)
           F == {h} \cup T
           G == (I \cup {x}) \cup T
<1>1. /\ h \in Frame /\ h.op = "exit" /\ \A g \in T : Apart(h, g) /\ g \in Frame
      /\ Entries(F, current, entered) /\ Accountable(F, h, current, entered)
      /\ Tail(todo) \in Seq(Frame)
  <2>1. T \subseteq ToSet(todo) /\ ToSet(todo) \subseteq Frame
    BY FirstAndRest
  <2>2. QED
    BY <2>1, FirstAndRest
<1>2. n \in States /\ v \in Events \cup {None} /\ Exits(h) /\ Works(h) /\ Reach(h) = Below(n)
      /\ ~Enters(h) /\ ~LastExit(h)
  BY <1>1, FrameFields, Kinds DEF OpNames, Reach, LastExit
<1>3. n # Root /\ n \in DOMAIN Parent /\ n \in Below(n)
  BY <1>1, <1>2, UpSelf, TreeAssumption DEF Accountable, Left
<1>4. /\ inner \in Seq(Frame) /\ Pairwise(inner)
      /\ \A f \in I : f \in Frame /\ f.op = "exit" /\ f.of \in Inner(n, current)
      /\ \A s \in Inner(n, current) : \E f \in I : f.of = s
  BY <1>2, LeftWith
<1>5. x \in Frame /\ x.op = "call" /\ x.kind = "exit" /\ x.of = n
  BY <1>2, CallFrame DEF Call
<1>6. Do(inner \o <<x>>)
  OBVIOUS
<1>7. <<x>> \in Seq(Frame) /\ ToSet(<<x>>) = {x} /\ Pairwise(<<x>>)
  BY <1>5, PairwiseOne
<1> HIDE DEF h, n, v, T, inner, I, x
<1>8. \A s \in Inner(n, current) :
          /\ s \in Children(n) /\ s \in States /\ s # Root /\ Parent[s] = n
          /\ Below(s) \subseteq Below(n) \ {n} /\ s \in Below(s) /\ Up[s] = {s} \cup Up[n]
  BY BelowChild, UpSelf, UpStep, ParentInTree DEF Inner, Children
<1>9. /\ Exits(x) /\ LastExit(x) /\ Reach(x) = Below(n) /\ ~Enters(x)
      /\ \A f \in I : Exits(f) /\ Reach(f) = Below(f.of) /\ ~Enters(f) /\ ~LastExit(f)
  BY <1>4, <1>5, Kinds DEF Exits, Enters, LastExit, Reach
<1>10. \A g \in T : Keyed(g) /\ g.of \in Below(n) => Enters(g) /\ g.of = n
  BY <1>1, <1>2 DEF Apart, Nested, n
<1>11. \A f \in I : Apart(f, x)
  <2> SUFFICES ASSUME NEW f \in I PROVE Apart(f, x)
    OBVIOUS
  <2>1. f.of \in Inner(n, current) /\ f.op = "exit"
    BY <1>4
  <2>2. Nested(f, x)
    BY <1>5, <1>8, <1>9, <2>1, Kinds DEF Nested
  <2>3. InOrder(f, x)
    <3> SUFFICES ASSUME NEW o \in Orthogonal, NEW i \in DOMAIN Regions[o], NEW j \in DOMAIN Regions[o],
                        f.of = Regions[o][i], n = Regions[o][j]
                 PROVE  FALSE
      BY <1>5 DEF InOrder
    <3>1. Parent[f.of] = o /\ Parent[n] = o
      BY RegionsOf DEF Children
    <3>2. QED
      BY <1>2, <1>3, <1>8, <2>1, <3>1, TreeAssumption, UpSelf
  <2>4. InPhase(f, x) /\ Ending(f, x) /\ BeforeClear(f, x)
    BY <1>5, <1>9, <2>1, Kinds DEF InPhase, Ending, BeforeClear
  <2>5. QED
    BY <2>2, <2>3, <2>4 DEF Apart
<1>12. /\ inner \o <<x>> \in Seq(Frame) /\ Pairwise(inner \o <<x>>)
       /\ ToSet(inner \o <<x>>) = I \cup {x}
  <2>1. \A f \in ToSet(inner), g \in ToSet(<<x>>) : Apart(f, g)
    BY <1>7, <1>11 DEF I
  <2>2. QED
    BY <1>4, <1>7, <2>1, PairwiseConcat DEF I
<1>13. ASSUME NEW f \in I \cup {x}, NEW g \in T
       PROVE  Apart(f, g)
  <2>1. /\ f.of = n \/ f.of \in Inner(n, current)
        /\ Exits(f) /\ Reach(f) = Below(f.of) /\ f.op \in {"exit", "call"} /\ ~Enters(f)
    BY <1>4, <1>5, <1>9
  <2>2. Nested(f, g)
    BY <1>8, <1>10, <2>1, Kinds DEF Nested
  <2>3. InOrder(f, g)
    <3>1. CASE f.of = n
      BY <1>1, <1>2, <2>1, <3>1 DEF Apart, InOrder, n
    <3>2. CASE f.of \in Inner(n, current)
      <4> SUFFICES ASSUME NEW o \in Orthogonal, NEW i \in DOMAIN Regions[o], NEW j \in DOMAIN Regions[o],
                          f.of = Regions[o][i], g.of = Regions[o][j], Exits(g)
                   PROVE  FALSE
        BY <2>1 DEF InOrder
      <4>1. f.of \in Children(o) /\ g.of \in Children(o) /\ g.of \in States
        BY RegionsOf
      <4>2. o = n
        BY <1>8, <3>2, <4>1 DEF Children
      <4>3. g.of \in Below(n)
        BY <4>1, <4>2, BelowChild, UpSelf
      <4>4. QED
        BY <1>10, <4>3, Kinds
    <3>3. QED
      BY <2>1, <3>1, <3>2
  <2>4. InPhase(f, g) /\ Ending(f, g) /\ BeforeClear(f, g)
    BY <2>1, Kinds DEF InPhase, Ending, BeforeClear
  <2>5. QED
    BY <2>2, <2>3, <2>4 DEF Apart
<1>14. Pairwise(todo') /\ ToSet(todo') = G
  <2> DEFINE ops == inner \o <<x>>
  <2>1. ops \in Seq(Frame) /\ Pairwise(ops) /\ Do(ops)
        /\ \A f \in ToSet(ops), g \in ToSet(Tail(todo)) : Apart(f, g)
    BY <1>6, <1>12, <1>13 DEF T
  <2> HIDE DEF ops
  <2>2. Pairwise(todo') /\ ToSet(todo') = ToSet(ops) \cup ToSet(Tail(todo))
    BY <2>1, NewStack
  <2>3. QED
    BY <1>12, <2>2 DEF T, ops
<1>15. /\ \A u : Leaving(F, u) <=> u = n \/ Leaving(T, u)
       /\ \A u : Leaving(G, u) <=> u = n \/ u \in Inner(n, current) \/ Leaving(T, u)
       /\ \A u : Emptied(F, u) <=> Emptied(T, u)
       /\ \A u : Emptied(G, u) <=> u = n \/ Emptied(T, u)
       /\ \A u : (Entering(F, u) <=> Entering(T, u)) /\ (Entering(G, u) <=> Entering(T, u))
       /\ \A u : (Opening(F, u) <=> Opening(T, u)) /\ (Opening(G, u) <=> Opening(T, u))
  <2>1. \A u : Leaving(F, u) <=> u = n \/ Leaving(T, u)
    BY <1>2 DEF Leaving, n
  <2>2. \A u : Leaving(G, u) <=> u = n \/ u \in Inner(n, current) \/ Leaving(T, u)
    BY <1>4, <1>5, <1>9 DEF Leaving
  <2>3. \A u : Emptied(F, u) <=> Emptied(T, u)
    BY <1>2 DEF Emptied
  <2>4. \A u : Emptied(G, u) <=> u = n \/ Emptied(T, u)
    BY <1>5, <1>9 DEF Emptied
  <2>5. \A u : (Entering(F, u) <=> Entering(T, u)) /\ (Entering(G, u) <=> Entering(T, u))
    BY <1>2, <1>9 DEF Entering
  <2>6. \A u : (Opening(F, u) <=> Opening(T, u)) /\ (Opening(G, u) <=> Opening(T, u))
    BY <1>2, <1>9, Kinds DEF Opening
  <2>7. QED
    BY <2>1, <2>2, <2>3, <2>4, <2>5, <2>6
<1>16. /\ \A p : (Moving(F, p) <=> Moving(T, p)) /\ (Moving(G, p) <=> Moving(T, p))
       /\ \A p, u : (MovingTo(F, p, u) <=> MovingTo(T, p, u)) /\ (MovingTo(G, p, u) <=> MovingTo(T, p, u))
       /\ \A p : (Clearing(F, p) <=> Clearing(T, p)) /\ (Clearing(G, p) <=> Clearing(T, p))
  <2>1. h.op \notin {"set", "clear"} /\ \A f \in I \cup {x} : f.op \notin {"set", "clear"}
    BY <1>1, <1>4, <1>5
  <2>2. QED
    BY <2>1 DEF Moving, MovingTo, Clearing
<1>17. /\ \A u \in Below(n) : ~Leaving(T, u) /\ ~Moving(T, u) /\ ~Emptied(T, u)
       /\ \A u \in Below(n) \ {n} : ~Entering(T, u)
  BY <1>10, Kinds DEF Leaving, Moving, Emptied, Entering
<1>18. ASSUME NEW g \in T, g.op = "clear" PROVE g.of \notin Inner(n, current)
  <2>1. Vacated(F, g)
    BY <1>1 DEF Entries, Accountable
  <2>2. Moving(T, Parent[g.of])
    BY <1>16, <1>18, <2>1 DEF Vacated
  <2>3. QED
    BY <1>3, <1>8, <1>17, <2>2
<1>19. \A p : Renewed(G, p) <=> Renewed(F, p)
  <2>1. \A g \in T : g.op = "clear" => (Leaving(G, g.of) <=> Leaving(F, g.of))
    BY <1>15, <1>18
  <2>2. h.op # "clear" /\ \A f \in I \cup {x} : f.op # "clear"
    BY <1>1, <1>4, <1>5
  <2>3. QED
    BY <2>1, <2>2 DEF Renewed
<1>20. n \in Tracked => /\ entered[n] = 1 /\ ~Renewed(F, n) /\ Clearing(F, n)
                        /\ \A g \in F : g.op = "clear" /\ n \in Below(g.of) => Leaving(F, g.of)
  <2>1. n \in Tracked => entered[n] = 1
    BY <1>1, <1>3, <1>15 DEF Entries, Ruled
  <2>2. n \in Tracked => /\ Clearing(F, n)
                         /\ \A g \in F : g.op = "clear" /\ n \in Below(g.of) => Leaving(F, g.of)
    BY <1>1, <1>2 DEF Accountable, Left, n
  <2>3. QED
    BY <2>1, <2>2 DEF Renewed
<1>21. ASSUME NEW u \in Tracked, u \in Children(n)
       PROVE  /\ n \in Tracked /\ u \in Below(n) \ {n} /\ Parent[u] = n /\ u # Root
              /\ entered[u] = IF u \in Inner(n, current) THEN 1 ELSE 0
  <2>1. u # Root /\ Parent[u] = n /\ u \in States
    BY <1>21, ParentInTree DEF Children
  <2>2. n \in Tracked /\ u \in Below(n) \ {n}
    BY <1>21, <2>1, TrackedAround, BelowChild, UpSelf
  <2>3. /\ ~Leaving(F, u) /\ ~Entering(F, u) /\ ~Emptied(F, Parent[u]) /\ ~Moving(F, Parent[u])
        /\ ~Renewed(F, Parent[u]) /\ entered[Parent[u]] = 1
    BY <1>3, <1>15, <1>16, <1>17, <1>20, <2>1, <2>2
  <2>4. Entries(F, current, entered)
    BY <1>1
  <2> HIDE DEF F
  <2>5. entered[u] = IF Parent[u] \in Machines => current[Parent[u]] = u THEN 1 ELSE 0
    BY <2>1, <2>3, <2>4, Steady
  <2>6. QED
    BY <1>21, <2>1, <2>2, <2>5 DEF Inner
<1>22. ASSUME NEW f \in I PROVE Accountable(G, f, current, entered)
  <2>1. f.op = "exit" /\ f.of \in Inner(n, current)
    BY <1>4
  <2>2. Left(G, f)
    <3>1. f.of # Root /\ Emptied(G, Parent[f.of])
      BY <1>8, <1>15, <2>1
    <3>2. ASSUME f.of \in Tracked PROVE Clearing(G, f.of)
      <4>1. n \in Tracked
        BY <1>8, <1>21, <2>1, <3>2
      <4>2. PICK g \in T : g.op = "clear" /\ n \in Below(g.of)
        BY <1>16, <1>20, <4>1 DEF Clearing
      <4>3. f.of \in Below(g.of)
        BY <1>8, <2>1, <4>2 DEF Below
      <4>4. QED
        BY <4>2, <4>3 DEF Clearing
    <3>3. ASSUME f.of \in Tracked, NEW g \in G, g.op = "clear", f.of \in Below(g.of)
          PROVE  Leaving(G, g.of)
      <4>1. n \in Tracked
        BY <1>8, <1>21, <2>1, <3>3
      <4>2. g \in T
        BY <1>4, <1>5, <3>3
      <4>3. g.of # f.of
        BY <1>18, <2>1, <3>3, <4>2
      <4>4. n \in Below(g.of)
        BY <1>2, <1>8, <2>1, <3>3, <4>3 DEF Below
      <4>5. Leaving(F, g.of)
        BY <1>20, <3>3, <4>1, <4>2, <4>4
      <4>6. QED
        BY <1>15, <4>5
    <3>4. QED
      BY <3>1, <3>2, <3>3 DEF Left
  <2>3. Following(G, f)
    <3> SUFFICES ASSUME NEW o \in Orthogonal, NEW i \in DOMAIN Regions[o], NEW j \in DOMAIN Regions[o],
                        f.of = Regions[o][i]
                 PROVE  Leaving(G, Regions[o][j])
      BY <1>9 DEF Following
    <3>1. Regions[o][i] \in Children(o) /\ Regions[o][j] \in Children(o) /\ o \notin Machines
      BY RegionsOf, TreeAssumption
    <3>2. o = n
      BY <1>8, <2>1, <3>1 DEF Children
    <3>3. Regions[o][j] \in Inner(n, current)
      BY <3>1, <3>2 DEF Inner
    <3>4. QED
      BY <1>15, <3>3
  <2>4. QED
    BY <1>9, <2>1, <2>2, <2>3, Kinds DEF Accountable, Opened, Joined, Prepared, Vacated
<1>23. Accountable(G, x, current, entered)
  <2>1. Left(F, h) /\ Following(F, h)
    BY <1>1 DEF Accountable
  <2>2. Left(G, x)
    <3>1. \A g \in G : g.op = "clear" => g \in T
      BY <1>4, <1>5
    <3>2. QED
      BY <1>2, <1>5, <1>15, <1>16, <2>1, <3>1 DEF Left, n
  <2>3. Following(G, x)
    BY <1>2, <1>5, <1>9, <1>15, <2>1 DEF Following, n
  <2>4. QED
    BY <1>5, <1>9, <2>2, <2>3, Kinds DEF Accountable, Opened, Joined, Prepared, Vacated
<1>24. ASSUME NEW g \in T PROVE Accountable(G, g, current, entered)
  <2>1. Accountable(F, g, current, entered)
    BY <1>1 DEF Entries
  <2>2. Opened(G, g, entered) /\ Prepared(G, g) /\ Vacated(G, g) /\ Following(G, g)
    BY <1>15, <1>16, <2>1 DEF Accountable, Opened, Prepared, Vacated, Following
  <2>3. Joined(G, g, current, entered)
    BY <1>15, <1>16, <2>1 DEF Accountable, Joined, Begins
  <2>4. Left(G, g)
    <3>1. \A f \in G : f.op = "clear" => f \in T
      BY <1>4, <1>5
    <3>2. QED
      BY <1>15, <1>16, <2>1, <3>1 DEF Accountable, Left
  <2>5. QED
    BY <2>2, <2>3, <2>4 DEF Accountable
<1>25. ASSUME NEW u \in Tracked \ {Root} PROVE Ruled(G, current, entered, u)
  <2>1. Ruled(F, current, entered, u) /\ u \in Children(Parent[u])
    BY <1>1, TrackedAround DEF Entries
  <2>2. CASE u \in Children(n)
    <3>1. /\ u \in Below(n) \ {n} /\ Parent[u] = n
          /\ entered[u] = IF u \in Inner(n, current) THEN 1 ELSE 0
      BY <1>21, <2>2
    <3>2. (Leaving(G, u) <=> u \in Inner(n, current)) /\ ~Entering(G, u) /\ Emptied(G, Parent[u])
      BY <1>15, <1>17, <3>1
    <3>3. QED
      BY <3>1, <3>2 DEF Ruled, Inhabits
  <2>3. CASE u \notin Children(n)
    <3>1. Parent[u] # n /\ u \notin Inner(n, current)
      BY <1>8, <2>1, <2>3
    <3>2. Inhabits(G, current, entered, u) <=> Inhabits(F, current, entered, u)
      BY <1>15, <1>16, <1>19, <3>1 DEF Inhabits, Slot
    <3>3. QED
      BY <1>15, <2>1, <3>1, <3>2 DEF Ruled
  <2>4. QED
    BY <2>2, <2>3
<1>26. ASSUME NEW p \in Machines PROVE Fresh(G, current, entered, p)
  BY <1>1, <1>16 DEF Entries, Fresh
<1>27. QED
  <2>1. entered[Root] = 1
    BY <1>1 DEF Entries
  <2>2. Entries(G, current, entered)
    BY <1>22, <1>23, <1>24, <1>25, <1>26, <2>1 DEF Entries
  <2>3. ~throwing'
    BY DEF EntryInv
  <2> HIDE DEF G
  <2>4. Entries(ToSet(todo'), current', entered')
    BY <1>14, <2>2
  <2>5. QED
    BY <1>14, <2>3, <2>4 DEF EntryInv

\* The states that are entered with a state.
Opens(n) ==
    {s \in Children(n) : n \in Machines => s = Initial[n]}

\* The calls that enter what is inside a state: which they are, and that they are in order.
LEMMA EnteredAlong ==
  ASSUME NEW n \in States, NEW e \in Events \cup {None}
  PROVE  LET ops == InnerEnter(n, e) IN
         /\ ops \in Seq(Frame) /\ Pairwise(ops)
         /\ \A f \in ToSet(ops) :
               /\ f \in Frame
               /\ \/ f.op = "enter" /\ f.of \in Opens(n)
                  \/ f.op = "default" /\ f.of = n /\ n \in Machines
         /\ \A s \in Opens(n) : \E f \in ToSet(ops) : f.op = "enter" /\ f.of = s
<1>1. CASE n \in Machines
  <2> DEFINE f == Op("enter", Initial[n], e)
             g == Op("default", n, None)
  <2>1. InnerEnter(n, e) = <<f, g>> /\ Initial[n] \in Children(n) /\ Initial[n] \in States
    BY <1>1, TreeAssumption DEF InnerEnter
  <2>2. f \in Frame /\ f.op = "enter" /\ f.of = Initial[n] /\ g \in Frame /\ g.op = "default" /\ g.of = n
    BY <2>1, OpFrame DEF OpNames
  <2> HIDE DEF f, g
  <2>3. n \notin Below(Initial[n])
    BY <2>1, BelowChild
  <2>4. Apart(f, g)
    BY <2>2, <2>3 DEF Apart, InPhase, Nested, Ending, InOrder, BeforeClear, Reach, Exits, Enters
  <2>5. <<f, g>> \in Seq(Frame) /\ ToSet(<<f, g>>) = {f, g} /\ Pairwise(<<f, g>>)
    BY <2>2, <2>4, PairwiseTwo
  <2>6. Opens(n) = {Initial[n]}
    BY <1>1, <2>1 DEF Opens
  <2>7. QED
    BY <1>1, <2>1, <2>2, <2>5, <2>6
<1>2. CASE n \in Orthogonal
  <2>1. InnerEnter(n, e) = Ops("enter", Regions[n], e) /\ n \notin Machines
    BY <1>2, TreeAssumption DEF InnerEnter
  <2>2. Opens(n) = Children(n)
    BY <2>1 DEF Opens
  <2> DEFINE ops == Ops("enter", Regions[n], e)
  <2>3. /\ ops \in Seq(Frame) /\ Pairwise(ops)
        /\ \A f \in ToSet(ops) : f \in Frame /\ f.op = "enter" /\ f.of \in Children(n)
        /\ \A s \in Children(n) : \E f \in ToSet(ops) : f.of = s
    BY <1>2, RegionsEntered
  <2> HIDE DEF ops
  <2>4. InnerEnter(n, e) = ops
    BY <2>1 DEF ops
  <2>5. QED
    BY <2>2, <2>3, <2>4
<1>3. CASE n \notin Machines /\ n \notin Orthogonal
  <2>1. InnerEnter(n, e) = <<>>
    BY <1>3 DEF InnerEnter
  <2>2. Children(n) = {}
    BY <1>3, TreeAssumption DEF Children
  <2>3. QED
    BY <2>1, <2>2, PairwiseNone DEF Opens
<1>4. QED
  BY <1>1, <1>2, <1>3

\* Entering a state goes on to what is inside it.
LEMMA EnterEntries ==
  ASSUME TypeOK, StackInv, EntryInv, ~failed, todo # <<>>, Head(todo).op = "enter",
         Do(<<Call("enter", Head(todo).of, 0, Head(todo).event)>>
              \o InnerEnter(Head(todo).of, Head(todo).event)),
         UNCHANGED <<current, entered, throwing, failed>>
  PROVE  EntryInv'
<1> DEFINE h == Head(todo)
           n == h.of
           v == h.event
           T == ToSet(Tail(todo))
           inner == InnerEnter(n, v)
           I == ToSet(inner)
           x == Call("enter", n, 0, v)
           F == {h} \cup T
           G == ({x} \cup I) \cup T
<1>1. /\ h \in Frame /\ h.op = "enter" /\ \A g \in T : Apart(h, g) /\ g \in Frame
      /\ Entries(F, current, entered) /\ Accountable(F, h, current, entered)
      /\ Tail(todo) \in Seq(Frame)
  <2>1. T \subseteq ToSet(todo) /\ ToSet(todo) \subseteq Frame
    BY FirstAndRest
  <2>2. QED
    BY <2>1, FirstAndRest
<1>2. n \in States /\ v \in Events \cup {None} /\ Enters(h) /\ Works(h) /\ Reach(h) = Below(n)
      /\ ~Exits(h) /\ ~FirstEntry(h) /\ ~LastExit(h)
  BY <1>1, FrameFields, Kinds DEF OpNames, Reach, LastExit, FirstEntry
<1>3. n # Root /\ n \in DOMAIN Parent /\ n \in Below(n)
  BY <1>1, <1>2, UpSelf, TreeAssumption DEF Accountable, Joined
<1>4. /\ inner \in Seq(Frame) /\ Pairwise(inner)
      /\ \A f \in I : /\ f \in Frame
                      /\ \/ f.op = "enter" /\ f.of \in Opens(n)
                         \/ f.op = "default" /\ f.of = n /\ n \in Machines
      /\ \A s \in Opens(n) : \E f \in I : f.op = "enter" /\ f.of = s
  BY <1>2, EnteredAlong
<1>5. x \in Frame /\ x.op = "call" /\ x.kind = "enter" /\ x.of = n
  BY <1>2, CallFrame DEF Call
<1>6. Do(<<x>> \o inner)
  OBVIOUS
<1>7. <<x>> \in Seq(Frame) /\ ToSet(<<x>>) = {x} /\ Pairwise(<<x>>)
  BY <1>5, PairwiseOne
<1> HIDE DEF h, n, v, T, inner, I, x
<1>8. \A s \in Opens(n) :
          /\ s \in Children(n) /\ s \in States /\ s # Root /\ Parent[s] = n
          /\ Below(s) \subseteq Below(n) \ {n} /\ s \in Below(s) /\ Up[s] = {s} \cup Up[n]
          /\ n \in Machines => s = Initial[n]
  BY BelowChild, UpSelf, UpStep, ParentInTree DEF Opens, Children
<1>9. /\ Enters(x) /\ FirstEntry(x) /\ ~Works(x) /\ ~Exits(x)
      /\ \A f \in I : /\ ~Exits(f) /\ ~FirstEntry(f) /\ f.op \notin {"set", "clear"}
                      /\ f.op = "enter" => Reach(f) = Below(f.of) /\ Enters(f)
                      /\ f.op = "default" => Reach(f) = Below(f.of) \ {f.of} /\ ~Enters(f) /\ Spawns(f)
  BY <1>4, <1>5, Kinds DEF Exits, Enters, FirstEntry, Reach, Works, Spawns
<1>10. \A g \in T : /\ ~Exits(g)
                    /\ Keyed(g) => g.of \notin Below(n)
                    /\ Enters(g) => n \notin Below(g.of)
  BY <1>1, <1>2 DEF Apart, Nested, InPhase, n
<1>11. \A f \in I : Apart(x, f)
  <2> SUFFICES ASSUME NEW f \in I PROVE Apart(x, f)
    OBVIOUS
  <2>1. (f.op = "enter" /\ f.of \in Opens(n)) \/ (f.op = "default" /\ f.of = n)
    BY <1>4
  <2>2. Nested(x, f)
    BY <1>3, <1>5, <1>8, <1>9, <2>1 DEF Nested
  <2>3. InOrder(x, f)
    <3> SUFFICES ASSUME NEW o \in Orthogonal, NEW i \in DOMAIN Regions[o], NEW j \in DOMAIN Regions[o],
                        n = Regions[o][i], f.of = Regions[o][j], Enters(f)
                 PROVE  FALSE
      BY <1>5, <1>9 DEF InOrder
    <3>1. Parent[f.of] = o /\ Parent[n] = o
      BY RegionsOf DEF Children
    <3>2. f.of \in Opens(n)
      BY <1>9, <2>1
    <3>3. QED
      BY <1>2, <1>3, <1>8, <3>1, <3>2, TreeAssumption, UpSelf
  <2>4. InPhase(x, f) /\ Ending(x, f) /\ BeforeClear(x, f)
    BY <1>5, <1>9, <2>1 DEF InPhase, Ending, BeforeClear
  <2>5. QED
    BY <2>2, <2>3, <2>4 DEF Apart
<1>12. /\ <<x>> \o inner \in Seq(Frame) /\ Pairwise(<<x>> \o inner)
       /\ ToSet(<<x>> \o inner) = {x} \cup I
  <2>1. \A f \in ToSet(<<x>>), g \in ToSet(inner) : Apart(f, g)
    BY <1>7, <1>11 DEF I
  <2>2. <<x>> \o inner \in Seq(Frame) /\ Pairwise(<<x>> \o inner)
        /\ ToSet(<<x>> \o inner) = ToSet(<<x>>) \cup ToSet(inner)
    BY <1>4, <1>7, <2>1, PairwiseConcat
  <2>3. QED
    BY <1>7, <2>2 DEF I
<1>13. ASSUME NEW g \in T, g.op = "clear" PROVE g.of \notin Opens(n)
  <2>1. Vacated(F, g)
    BY <1>1 DEF Entries, Accountable
  <2>2. PICK f \in F : f.op = "set" /\ f.of = Parent[g.of]
    BY <1>13, <2>1 DEF Vacated, Moving
  <2>3. f \in T /\ Keyed(f)
    BY <1>1, <2>2, Kinds
  <2>4. QED
    BY <1>3, <1>8, <1>10, <2>2, <2>3
<1>14. ASSUME NEW f \in {x} \cup I, NEW g \in T
       PROVE  Apart(f, g)
  <2>1. /\ \/ f.of = n /\ (f = x \/ f.op = "default")
           \/ f.op = "enter" /\ f.of \in Opens(n)
        /\ f.op \in {"enter", "call", "default"} /\ Reach(f) \subseteq Below(n)
        /\ ~Exits(f) /\ f.of \in Below(n)
    <3>1. f = x => f.of = n /\ f.op = "call" /\ Reach(f) \subseteq Below(n)
      BY <1>5, <1>9 DEF Reach
    <3>2. QED
      BY <1>3, <1>4, <1>8, <1>9, <3>1
  <2>2. Nested(f, g)
    <3>1. ASSUME Enters(g), f.of \in Below(g.of) PROVE FALSE
      <4>1. Keyed(g) /\ n \notin Below(g.of) /\ g.of \notin Below(n)
        BY <1>10, <3>1, Kinds
      <4>2. f.of # n /\ f.of \in Opens(n)
        BY <2>1, <3>1, <4>1
      <4>3. g.of \in Up[f.of] /\ g.of # f.of
        BY <2>1, <3>1, <4>1 DEF Below
      <4>4. n \in Below(g.of)
        BY <1>2, <1>8, <4>2, <4>3 DEF Below
      <4>5. QED
        BY <4>1, <4>4
    <3>2. QED
      BY <1>10, <2>1, <3>1 DEF Nested
  <2>3. InOrder(f, g)
    <3>1. CASE f.of = n
      BY <1>1, <1>2, <1>10, <2>1, <3>1 DEF Apart, InOrder, n
    <3>2. CASE f.of \in Opens(n)
      <4> SUFFICES ASSUME NEW o \in Orthogonal, NEW i \in DOMAIN Regions[o], NEW j \in DOMAIN Regions[o],
                          f.of = Regions[o][i], g.of = Regions[o][j], Enters(g)
                   PROVE  FALSE
        BY <2>1 DEF InOrder
      <4>1. f.of \in Children(o) /\ g.of \in Children(o) /\ g.of \in States
        BY RegionsOf
      <4>2. o = n
        BY <1>8, <3>2, <4>1 DEF Children
      <4>3. g.of \in Below(n)
        BY <4>1, <4>2, BelowChild, UpSelf
      <4>4. QED
        BY <1>10, <4>3, Kinds
    <3>3. QED
      BY <2>1, <3>1, <3>2
  <2>4. BeforeClear(f, g)
    <3> SUFFICES ASSUME g.op = "clear", f.of \in Below(g.of), f.of \in Tracked
                 PROVE  f.of \in EnteredWith(g.of) /\ Repeats(g.of)
      BY <2>1 DEF BeforeClear
    <3>1. CASE f.of = n
      BY <1>1, <1>2, <3>1 DEF Apart, BeforeClear, n
    <3>2. CASE f.of \in Opens(n)
      <4>1. n \in Tracked /\ g.of \in States
        BY <1>1, <1>8, <3>2, TrackedAround, KindsOf
      <4>2. n \in Below(g.of)
        <5>1. g.of \in Up[f.of] /\ g.of # f.of
          BY <1>13, <3>2 DEF Below
        <5>2. QED
          BY <1>2, <1>8, <3>2, <5>1 DEF Below
      <4>3. n \in EnteredWith(g.of) /\ Repeats(g.of)
        BY <1>1, <1>2, <4>1, <4>2 DEF Apart, BeforeClear, n
      <4>4. QED
        BY <1>8, <3>2, <4>1, <4>3, EnteredFurther
    <3>3. QED
      BY <2>1, <3>1, <3>2
  <2>5. InPhase(f, g) /\ Ending(f, g)
    BY <1>10, <2>1 DEF InPhase, Ending
  <2>6. QED
    BY <2>2, <2>3, <2>4, <2>5 DEF Apart
<1>15. Pairwise(todo') /\ ToSet(todo') = G
  <2> DEFINE ops == <<x>> \o inner
  <2>1. ops \in Seq(Frame) /\ Pairwise(ops) /\ Do(ops)
        /\ \A f \in ToSet(ops), g \in ToSet(Tail(todo)) : Apart(f, g)
    BY <1>6, <1>12, <1>14 DEF T
  <2> HIDE DEF ops
  <2>2. Pairwise(todo') /\ ToSet(todo') = ToSet(ops) \cup ToSet(Tail(todo))
    BY <2>1, NewStack
  <2>3. QED
    BY <1>12, <2>2 DEF T, ops
<1>16. /\ \A u : Entering(F, u) <=> u = n \/ Entering(T, u)
       /\ \A u : Entering(G, u) <=> u = n \/ u \in Opens(n) \/ Entering(T, u)
       /\ \A u : Opening(F, u) <=> Opening(T, u)
       /\ \A u : Opening(G, u) <=> u = n \/ Opening(T, u)
       /\ \A u : ~Leaving(F, u) /\ ~Leaving(G, u) /\ ~Emptied(F, u) /\ ~Emptied(G, u)
  <2>1. \A u : Entering(F, u) <=> u = n \/ Entering(T, u)
    BY <1>2 DEF Entering, n
  <2>2. \A u : Entering(G, u) <=> u = n \/ u \in Opens(n) \/ Entering(T, u)
    BY <1>4, <1>5, <1>9 DEF Entering
  <2>3. \A u : Opening(F, u) <=> Opening(T, u)
    BY <1>2 DEF Opening
  <2>4. \A u : Opening(G, u) <=> u = n \/ Opening(T, u)
    BY <1>5, <1>9 DEF Opening
  <2>5. \A u : ~Leaving(F, u) /\ ~Leaving(G, u) /\ ~Emptied(F, u) /\ ~Emptied(G, u)
    BY <1>2, <1>9, <1>10, Kinds DEF Leaving, Emptied
  <2>6. QED
    BY <2>1, <2>2, <2>3, <2>4, <2>5
<1>17. /\ \A p : (Moving(F, p) <=> Moving(T, p)) /\ (Moving(G, p) <=> Moving(T, p))
       /\ \A p, u : (MovingTo(F, p, u) <=> MovingTo(T, p, u)) /\ (MovingTo(G, p, u) <=> MovingTo(T, p, u))
       /\ \A p : (Clearing(F, p) <=> Clearing(T, p)) /\ (Clearing(G, p) <=> Clearing(T, p))
       /\ \A p : Renewed(F, p) <=> Renewed(G, p)
  <2>1. h.op \notin {"set", "clear"} /\ \A f \in {x} \cup I : f.op \notin {"set", "clear"}
    BY <1>1, <1>5, <1>9
  <2>2. QED
    BY <1>16, <2>1 DEF Moving, MovingTo, Clearing, Renewed
<1>18. \A u \in Below(n) : ~Moving(T, u) /\ ~Entering(T, u)
  BY <1>10, Kinds DEF Moving, Entering
<1>19. n \in Tracked => entered[n] = 0
  BY <1>1, <1>3, <1>16 DEF Entries, Ruled
<1>20. ASSUME NEW f \in I PROVE Accountable(G, f, current, entered)
  <2>1. CASE f.op = "default"
    <3>1. f.of = n
      BY <1>4, <2>1
    <3>2. Opened(G, f, entered)
      BY <1>16, <2>1, <3>1 DEF Opened
    <3>3. QED
      BY <1>9, <2>1, <3>2 DEF Accountable, Left, Joined, Prepared, Vacated, Following
  <2>2. CASE f.op = "enter" /\ f.of \in Opens(n)
    <3>1. Joined(G, f, current, entered)
      <4>1. f.of # Root /\ Parent[f.of] = n /\ Opening(G, n)
        BY <1>8, <1>16, <2>2
      <4>2. ASSUME f.of \in Tracked, n \in Machines
            PROVE  f.of = Initial[n] /\ Begins(G, n, current)
        <5>1. f.of = Initial[n] /\ Firm(n) /\ n \in Tracked
          BY <1>8, <2>2, <4>1, <4>2, TrackedAround
        <5>2. current[n] = Initial[n] \/ Clearing(F, n)
          BY <1>1, <1>19, <4>2, <5>1 DEF Entries, Fresh
        <5>3. QED
          BY <1>3, <1>17, <1>18, <5>1, <5>2 DEF Begins
      <4>3. QED
        BY <4>1, <4>2 DEF Joined
    <3>2. Following(G, f)
      <4> SUFFICES ASSUME NEW o \in Orthogonal, NEW i \in DOMAIN Regions[o], NEW j \in DOMAIN Regions[o],
                          f.of = Regions[o][i]
                   PROVE  Entering(G, Regions[o][j])
        BY <1>9 DEF Following
      <4>1. Regions[o][i] \in Children(o) /\ Regions[o][j] \in Children(o) /\ o \notin Machines
        BY RegionsOf, TreeAssumption
      <4>2. o = n
        BY <1>8, <2>2, <4>1 DEF Children
      <4>3. Regions[o][j] \in Opens(n)
        BY <4>1, <4>2 DEF Opens
      <4>4. QED
        BY <1>16, <4>3
    <3>3. QED
      BY <1>9, <2>2, <3>1, <3>2 DEF Accountable, Opened, Left, Prepared, Vacated
  <2>3. QED
    BY <1>4, <2>1, <2>2
<1>21. Accountable(G, x, current, entered)
  <2>1. Joined(F, h, current, entered) /\ Following(F, h)
    BY <1>1 DEF Accountable
  <2>2. Joined(G, x, current, entered)
    BY <1>2, <1>5, <1>16, <1>17, <2>1 DEF Joined, Begins, n
  <2>3. Following(G, x)
    BY <1>2, <1>5, <1>9, <1>16, <2>1 DEF Following, n
  <2>4. Prepared(G, x)
    <3>1. n \in Machines => Initial[n] \in Opens(n)
      BY TreeAssumption DEF Opens
    <3>2. n \in Orthogonal => \A r \in ToSet(Regions[n]) : r \in Opens(n)
      BY TreeAssumption DEF Opens
    <3>3. QED
      BY <1>5, <1>16, <3>1, <3>2 DEF Prepared
  <2>5. QED
    BY <1>5, <1>9, <2>2, <2>3, <2>4 DEF Accountable, Opened, Left, Vacated
<1>22. ASSUME NEW g \in T PROVE Accountable(G, g, current, entered)
  <2>1. Accountable(F, g, current, entered) /\ ~Exits(g)
    BY <1>1, <1>10 DEF Entries
  <2>2. Opened(G, g, entered) /\ Prepared(G, g) /\ Vacated(G, g) /\ Following(G, g) /\ Left(G, g)
    BY <1>16, <1>17, <2>1 DEF Accountable, Opened, Prepared, Vacated, Following, Left
  <2>3. Joined(G, g, current, entered)
    BY <1>16, <1>17, <2>1 DEF Accountable, Joined, Begins
  <2>4. QED
    BY <2>2, <2>3 DEF Accountable
<1>23. ASSUME NEW u \in Tracked \ {Root} PROVE Ruled(G, current, entered, u)
  <2>1. Ruled(F, current, entered, u) /\ u \in Children(Parent[u])
    BY <1>1, TrackedAround DEF Entries
  <2>2. Inhabits(G, current, entered, u) <=> Inhabits(F, current, entered, u)
    BY <1>16, <1>17 DEF Inhabits, Slot
  <2>3. CASE u \in Opens(n)
    <3>1. n \in Tracked /\ Parent[u] = n /\ u \in Below(n) \ {n} /\ u # n
      BY <1>8, <2>3, TrackedAround
    <3>2. entered[n] = 0 /\ ~Entering(F, u)
      BY <1>16, <1>18, <1>19, <3>1
    <3>3. entered[u] = 0
      BY <1>16, <2>1, <3>1, <3>2 DEF Ruled, Inhabits
    <3>4. QED
      BY <1>16, <2>3, <3>3 DEF Ruled
  <2>4. CASE u \notin Opens(n)
    BY <1>16, <2>1, <2>2, <2>4 DEF Ruled
  <2>5. QED
    BY <2>3, <2>4
<1>24. ASSUME NEW p \in Machines PROVE Fresh(G, current, entered, p)
  BY <1>1, <1>17 DEF Entries, Fresh
<1>25. QED
  <2>1. entered[Root] = 1
    BY <1>1 DEF Entries
  <2>2. Entries(G, current, entered)
    BY <1>20, <1>21, <1>22, <1>23, <1>24, <2>1 DEF Entries
  <2>3. ~throwing'
    BY DEF EntryInv
  <2> HIDE DEF G
  <2>4. Entries(ToSet(todo'), current', entered')
    BY <1>15, <2>2
  <2>5. QED
    BY <1>15, <2>3, <2>4 DEF EntryInv

-----------------------------------------------------------------------------
(* on_exit and on_enter *)

\* A state around one that is counted is counted.
LEMMA TrackedUp ==
  ASSUME NEW n \in States, NEW u \in Below(n) \cap Tracked
  PROVE  n \in Tracked /\ u \in States
<1>1. u \in States /\ n \in Up[u] /\ (Up[u] \ {u}) \cap Stale = {}
  BY DEF Below, Tracked
<1>2. Up[u] \in Closed
  <2>1. \A s \in Up[u] \ {Root} : Parent[s] \in Up[u]
    BY <1>1, UpParent
  <2>2. QED
    BY <1>1, <2>1, UpSelf DEF Closed
<1>3. Up[n] \subseteq Up[u]
  BY <1>1, <1>2, UpLeast
<1>4. CASE n = u
  BY <1>1, <1>4 DEF Tracked
<1>5. CASE n # u
  <2>1. u \in DOMAIN Parent /\ n \in Up[Parent[u]] /\ u \notin Up[Parent[u]] /\ Parent[u] \in States
    <3>1. u # Root
      BY <1>1, <1>5, UpRoot
    <3>2. u \in DOMAIN Parent
      BY <1>1, <3>1, TreeAssumption
    <3>3. QED
      BY <1>1, <1>5, <3>2, UpStep, ParentInTree, TreeAssumption
  <2>2. Up[Parent[u]] \in Closed
    <3>1. \A s \in Up[Parent[u]] \ {Root} : Parent[s] \in Up[Parent[u]]
      BY <2>1, UpParent
    <3>2. QED
      BY <2>1, <3>1, UpSelf DEF Closed
  <2>3. Up[n] \subseteq Up[Parent[u]]
    BY <1>1, <2>1, <2>2, UpLeast
  <2>4. u \notin Up[n]
    BY <2>1, <2>3
  <2>5. QED
    BY <1>1, <1>3, <2>4 DEF Tracked
<1>6. QED
  BY <1>1, <1>4, <1>5

\* Nothing inside a state is entered any more when its on_exit is called.
LEMMA NothingInside ==
  ASSUME NEW F, NEW c, NEW e, Entries(F, c, e), NEW n \in States, Emptied(F, n),
         \A u \in Below(n) \ {n} : ~Leaving(F, u) /\ ~Entering(F, u)
  PROVE  \A u \in (Below(n) \cap Tracked) \ {n} : e[u] = 0
<1> DEFINE B == {u \in (Below(n) \cap Tracked) \ {n} : e[u] # 0}
<1>1. ASSUME NEW u \in B PROVE u # Root /\ Parent[u] \in B /\ u \in States
  <2>1. u \in States /\ n \in Up[u] /\ u # n /\ u \in Below(n) /\ u \in Tracked
    BY DEF Below
  <2>2. u # Root
    BY <2>1, UpRoot
  <2>3. Parent[u] \in Tracked /\ Parent[u] \in Below(n)
    BY <2>1, <2>2, TrackedAround, ParentBelow
  <2>4. Ruled(F, c, e, u) /\ ~Leaving(F, u) /\ ~Entering(F, u)
    BY <2>1, <2>2 DEF Entries
  <2>5. e[Parent[u]] = 1 /\ ~Emptied(F, Parent[u])
    BY <2>4 DEF Ruled, Inhabits
  <2>6. QED
    BY <2>1, <2>2, <2>3, <2>5
<1>2. B \in Closed
  BY <1>1 DEF Closed
<1>3. SUFFICES ASSUME NEW u \in B PROVE FALSE
  OBVIOUS
<1>4. u \in States /\ n \in Up[u]
  BY <1>1 DEF Below
<1>5. n \in B
  BY <1>2, <1>4, UpLeast
<1>6. QED
  BY <1>5

\* When on_exit is called the state is entered, and nothing inside it is any more.
LEMMA LastExitFacts ==
  ASSUME TypeOK, StackInv, EntryInv, ~failed, todo # <<>>, LastExit(Head(todo))
  PROVE  LET n == Head(todo).of
             F == {Head(todo)} \cup ToSet(Tail(todo))
         IN
         /\ n \in States /\ n # Root /\ n \in DOMAIN Parent
         /\ \A g \in ToSet(Tail(todo)) :
               /\ g \in Frame /\ Apart(Head(todo), g)
               /\ Keyed(g) /\ g.of \in Below(n) => Enters(g) /\ g.of = n
         /\ Left(F, Head(todo))
         /\ n \in Tracked => entered[n] = 1
         /\ \A u \in (Below(n) \cap Tracked) \ {n} : entered[u] = 0
         /\ \A u \in Below(n) \ {n} : ~Leaving(F, u) /\ ~Entering(F, u)
<1> DEFINE h == Head(todo)
           n == h.of
           T == ToSet(Tail(todo))
           F == {h} \cup T
<1>1. /\ h \in Frame /\ \A g \in T : Apart(h, g) /\ g \in Frame
      /\ Entries(F, current, entered) /\ Accountable(F, h, current, entered)
  <2>1. T \subseteq ToSet(todo) /\ ToSet(todo) \subseteq Frame
    BY FirstAndRest
  <2>2. QED
    BY <2>1, FirstAndRest
<1>2. Exits(h) /\ Works(h) /\ ~Enters(h) /\ n \in States /\ Reach(h) = Below(n)
  BY <1>1, Kinds, KindsOf DEF Reach
<1>3. n # Root /\ n \in DOMAIN Parent /\ Left(F, h)
  BY <1>1, <1>2, TreeAssumption DEF Accountable, Left
<1> HIDE DEF T, h
<1>4. \A g \in T : Keyed(g) /\ g.of \in Below(n) => Enters(g) /\ g.of = n
  BY <1>1, <1>2 DEF Apart, Nested
<1>5. \A u \in Below(n) \ {n} : ~Leaving(F, u) /\ ~Entering(F, u)
  BY <1>2, <1>4, Kinds DEF Leaving, Entering
<1>6. Emptied(F, n) /\ Leaving(F, n)
  BY <1>2 DEF Emptied, Leaving, h
<1>7. n \in Tracked => entered[n] = 1
  BY <1>1, <1>3, <1>6 DEF Entries, Ruled
<1>8. \A u \in (Below(n) \cap Tracked) \ {n} : entered[u] = 0
  <2> HIDE DEF F, n
  <2>1. QED
    BY <1>1, <1>2, <1>5, <1>6, NothingInside
<1>9. QED
  BY <1>1, <1>2, <1>3, <1>4, <1>5, <1>7, <1>8 DEF h, T

\* After on_exit the state is not entered, and no call will leave it.
LEMMA RunExitEntries ==
  ASSUME TypeOK, StackInv, EntryInv, ~failed, RunHandler, LastExit(Head(todo))
  PROVE  EntryInv'
<1> DEFINE h == Head(todo)
           n == h.of
           T == ToSet(Tail(todo))
           F == {h} \cup T
<1>1. /\ todo # <<>> /\ h.op = "call" /\ h.kind = "exit" /\ Do(<<>>)
      /\ UNCHANGED <<current, throwing, failed>>
      /\ entered' = IF n \in Tracked THEN [entered EXCEPT ![n] = @ - 1] ELSE entered
  BY DEF RunHandler, Doing, Counted, LastExit
<1>2. /\ n \in States /\ n # Root /\ n \in DOMAIN Parent
      /\ \A g \in T : /\ g \in Frame /\ Apart(h, g)
                      /\ Keyed(g) /\ g.of \in Below(n) => Enters(g) /\ g.of = n
      /\ Left(F, h)
      /\ n \in Tracked => entered[n] = 1
      /\ \A u \in (Below(n) \cap Tracked) \ {n} : entered[u] = 0
      /\ \A u \in Below(n) \ {n} : ~Leaving(F, u) /\ ~Entering(F, u)
  BY <1>1, LastExitFacts
<1>3. Entries(F, current, entered)
  BY <1>1, FirstAndRest
<1>4. Pairwise(todo') /\ ToSet(todo') = T
  BY <1>1, PairwiseNone, NewStack
<1>5. entered \in [States -> Int]
  BY DEF TypeOK
<1> HIDE DEF T, h
<1>6. /\ \A u \in States : u # n => entered'[u] = entered[u]
      /\ n \in Tracked => entered'[n] = 0
      /\ n \notin Tracked => entered' = entered
  <2> HIDE DEF n
  <2>1. CASE n \in Tracked
    <3>1. entered' = [entered EXCEPT ![n] = entered[n] - 1]
      BY <1>1, <2>1
    <3>2. entered[n] - 1 = 0
      BY <1>2, <2>1
    <3>3. QED
      BY <1>2, <1>5, <2>1, <3>1, <3>2
  <2>2. CASE n \notin Tracked
    BY <1>1, <2>2
  <2>3. QED
    BY <2>1, <2>2
<1>7. Exits(h) /\ ~Enters(h) /\ LastExit(h) /\ h.op \notin {"set", "clear"} /\ ~FirstEntry(h)
      /\ n \in Below(n)
  BY <1>1, <1>2, Kinds, UpSelf DEF LastExit, FirstEntry, Enters
<1>8. /\ \A u : Leaving(F, u) <=> u = n \/ Leaving(T, u)
      /\ \A u : Emptied(F, u) <=> u = n \/ Emptied(T, u)
      /\ \A u : (Entering(F, u) <=> Entering(T, u)) /\ (Opening(F, u) <=> Opening(T, u))
      /\ \A p : (Moving(F, p) <=> Moving(T, p)) /\ (Clearing(F, p) <=> Clearing(T, p))
      /\ \A p, u : MovingTo(F, p, u) <=> MovingTo(T, p, u)
  <2>1. \A u : Leaving(F, u) <=> u = n \/ Leaving(T, u)
    BY <1>7 DEF Leaving
  <2>2. \A u : Emptied(F, u) <=> u = n \/ Emptied(T, u)
    BY <1>7 DEF Emptied
  <2>3. \A u : (Entering(F, u) <=> Entering(T, u)) /\ (Opening(F, u) <=> Opening(T, u))
    BY <1>7 DEF Entering, Opening
  <2>4. \A p : (Moving(F, p) <=> Moving(T, p)) /\ (Clearing(F, p) <=> Clearing(T, p))
    BY <1>7 DEF Moving, Clearing
  <2>5. \A p, u : MovingTo(F, p, u) <=> MovingTo(T, p, u)
    BY <1>7 DEF MovingTo
  <2>6. QED
    BY <2>1, <2>2, <2>3, <2>4, <2>5
<1>9. \A u \in Below(n) : ~Leaving(T, u) /\ ~Emptied(T, u) /\ ~Moving(T, u)
  BY <1>2, Kinds DEF Leaving, Emptied, Moving
<1>10. ASSUME NEW g \in T PROVE Accountable(T, g, current, entered')
  <2>1. Accountable(F, g, current, entered) /\ g \in Frame
    BY <1>2, <1>3 DEF Entries
  <2>2. Opened(T, g, entered')
    <3> SUFFICES ASSUME g.of \in Tracked,
                        g.op \in {"dispatch", "region", "rows", "settle", "set", "default"}
                 PROVE  entered'[g.of] = entered[g.of]
      BY <1>8, <2>1 DEF Accountable, Opened
    <3>1. Keyed(g) /\ ~Enters(g)
      BY Kinds DEF Keyed, Spawns, Enters
    <3>2. g.of # n
      BY <1>2, <1>7, <3>1
    <3>3. QED
      BY <1>6, <3>2 DEF Tracked
  <2>3. Left(T, g)
    <3> SUFFICES ASSUME Exits(g) PROVE Left(T, g)
      BY DEF Left
    <3>1. Keyed(g) /\ ~Enters(g) /\ g.of \notin Below(n) /\ Left(F, g) /\ g.of \in States
      BY <1>2, <2>1, Kinds, KindsOf DEF Accountable
    <3>2. g.of # Root /\ Parent[g.of] # n
      <4>1. g.of # Root
        BY <3>1 DEF Left
      <4>2. g.of \in DOMAIN Parent
        BY <3>1, <4>1, TreeAssumption
      <4>3. Parent[g.of] = n => g.of \in Below(n)
        BY <3>1, <4>2, BelowChild, UpSelf DEF Children
      <4>4. QED
        BY <3>1, <4>1, <4>3
    <3>3. ASSUME g.of \in Tracked, NEW f \in T, f.op = "clear", g.of \in Below(f.of)
          PROVE  Leaving(T, f.of)
      <4>1. Leaving(F, f.of)
        BY <3>1, <3>3 DEF Left
      <4>2. f.of # n
        BY <3>1, <3>3
      <4>3. QED
        BY <1>8, <4>1, <4>2
    <3>4. QED
      BY <1>8, <3>1, <3>2, <3>3 DEF Left
  <2>4. Joined(T, g, current, entered')
    <3> SUFFICES ASSUME Enters(g) PROVE Joined(T, g, current, entered')
      BY DEF Joined
    <3>1. Keyed(g) /\ Joined(F, g, current, entered) /\ g.of \in States /\ g.of # Root
      BY <2>1, Kinds, KindsOf DEF Accountable, Joined
    <3>2. Parent[g.of] \in States /\ (Parent[g.of] # n)
      <4>1. g.of \in DOMAIN Parent
        BY <3>1, TreeAssumption
      <4>2. Parent[g.of] = n => g.of \in Below(n) \ {n}
        BY <3>1, <4>1, BelowChild, UpSelf DEF Children
      <4>3. QED
        BY <1>2, <3>1, <4>1, <4>2, ParentInTree
    <3>3. QED
      BY <1>6, <1>8, <3>1, <3>2 DEF Joined, Begins
  <2>5. Prepared(T, g) /\ Vacated(T, g)
    BY <1>8, <2>1 DEF Accountable, Prepared, Vacated
  <2>6. Following(T, g)
    <3> SUFFICES ASSUME NEW o \in Orthogonal, NEW i \in DOMAIN Regions[o], NEW j \in DOMAIN Regions[o],
                        g.of = Regions[o][i]
                 PROVE  /\ Enters(g) /\ i < j => Entering(T, Regions[o][j])
                        /\ Exits(g) /\ i > j => Leaving(T, Regions[o][j])
      BY DEF Following
    <3>1. /\ Enters(g) /\ i < j => Entering(F, Regions[o][j])
          /\ Exits(g) /\ i > j => Leaving(F, Regions[o][j])
      BY <2>1 DEF Accountable, Following
    <3>2. ASSUME Exits(g), i > j PROVE Regions[o][j] # n
      <4>1. SUFFICES ASSUME Regions[o][j] = n PROVE FALSE
        OBVIOUS
      <4>2. j > i
        BY <1>2, <1>7, <3>2, <4>1 DEF Apart, InOrder
      <4>3. i \in Nat /\ j \in Nat
        BY RegionsOf
      <4>4. QED
        BY <3>2, <4>2, <4>3
    <3>3. QED
      BY <1>8, <3>1, <3>2
  <2>7. QED
    BY <2>2, <2>3, <2>4, <2>5, <2>6 DEF Accountable
<1>11. ASSUME NEW u \in Tracked \ {Root} PROVE Ruled(T, current, entered', u)
  <2>1. /\ Ruled(F, current, entered, u) /\ u \in Children(Parent[u]) /\ u \in States
        /\ Parent[u] \in States /\ Parent[u] \in Tracked /\ u # Parent[u]
        /\ Up[u] = {u} \cup Up[Parent[u]]
    <3>1. u # Parent[u]
      BY TrackedAround, UpSelf
    <3>2. QED
      BY <1>3, <3>1, TrackedAround DEF Entries
  <2>2. CASE u = n
    <3>1. entered'[u] = 0 /\ ~Leaving(T, u)
      BY <1>6, <1>7, <1>9, <2>2
    <3>2. ~Entering(T, u) => ~Inhabits(T, current, entered', u)
      <4> SUFFICES ASSUME ~Entering(T, n), ~Emptied(T, Parent[n])
                   PROVE  Parent[n] \in Machines /\ ~Slot(T, current, Parent[n], n)
        BY <2>2 DEF Inhabits
      <4>1. Moving(F, Parent[n]) /\ ~MovingTo(F, Parent[n], n)
        BY <1>2, <1>7, <1>8, <2>1, <2>2 DEF Left
      <4>2. PICK f \in T : f.op = "set" /\ f.of = Parent[n]
        BY <1>8, <4>1 DEF Moving
      <4>3. Parent[n] \in Machines
        BY <1>2, <4>2, KindsOf
      <4>4. QED
        BY <1>8, <4>1, <4>3 DEF Slot
    <3>3. QED
      BY <3>1, <3>2 DEF Ruled
  <2>3. CASE u \in Below(n) \ {n}
    <3>1. n \in Tracked /\ entered'[u] = 0 /\ entered[u] = 0
      BY <1>2, <1>6, <2>1, <2>3, TrackedUp
    <3>2. ~Leaving(T, u) /\ ~Entering(T, u)
      BY <1>2, <1>8, <2>3
    <3>3. entered'[Parent[u]] = 0
      <4>1. CASE Parent[u] = n
        BY <1>6, <3>1, <4>1
      <4>2. CASE Parent[u] # n
        <5>1. Parent[u] \in Below(n)
          BY <1>2, <2>3, ParentBelow
        <5>2. QED
          BY <1>2, <1>6, <2>1, <4>2, <5>1
      <4>3. QED
        BY <4>1, <4>2
    <3>4. QED
      BY <3>1, <3>2, <3>3 DEF Ruled, Inhabits
  <2>4. CASE u \notin Below(n)
    <3>1. u # n /\ Parent[u] # n /\ Parent[u] \notin Below(n)
      BY <1>7, <2>1, <2>4, BelowChild, UpSelf DEF Below
    <3>2. entered'[u] = entered[u] /\ entered'[Parent[u]] = entered[Parent[u]]
      BY <1>6, <2>1, <3>1
    <3>3. Renewed(T, Parent[u]) <=> Renewed(F, Parent[u])
      <4>1. ASSUME NEW g \in T, Parent[u] \in Below(g.of)
            PROVE  Leaving(T, g.of) <=> Leaving(F, g.of)
        BY <1>8, <3>1, <4>1
      <4>2. QED
        BY <1>7, <4>1 DEF Renewed
    <3>4. Inhabits(T, current, entered', u) <=> Inhabits(F, current, entered, u)
      BY <1>8, <3>1, <3>2, <3>3 DEF Inhabits, Slot
    <3>5. QED
      BY <1>8, <2>1, <3>1, <3>2, <3>4 DEF Ruled
  <2>5. QED
    BY <2>2, <2>3, <2>4
<1>12. ASSUME NEW p \in Machines PROVE Fresh(T, current, entered', p)
  <2>1. CASE p = n
    <3>1. Firm(n) => n \in Tracked
      BY <1>2 DEF Firm, Tracked
    <3>2. n \in Tracked => Clearing(F, n)
      BY <1>2, <1>7 DEF Left
    <3>3. QED
      BY <1>8, <2>1, <3>1, <3>2 DEF Fresh
  <2>2. CASE p # n
    <3>1. entered'[p] = entered[p]
      BY <1>6, <2>2, TreeAssumption
    <3>2. QED
      BY <1>3, <1>8, <3>1 DEF Entries, Fresh
  <2>3. QED
    BY <2>1, <2>2
<1>13. entered'[Root] = 1
  BY <1>2, <1>3, <1>6, RootTracked DEF Entries
<1>14. QED
  <2>1. Entries(T, current, entered')
    BY <1>10, <1>11, <1>12, <1>13 DEF Entries
  <2>2. ~throwing'
    BY <1>1 DEF EntryInv
  <2>3. Entries(ToSet(todo'), current', entered')
    BY <1>1, <1>4, <2>1
  <2>4. QED
    BY <1>4, <2>2, <2>3 DEF EntryInv

\* When on_enter is called the state is not entered, the machine around it is, and the
\* state is the one that machine holds or will hold.
LEMMA FirstEntryFacts ==
  ASSUME TypeOK, StackInv, EntryInv, ~failed, todo # <<>>, FirstEntry(Head(todo))
  PROVE  LET n == Head(todo).of
             F == {Head(todo)} \cup ToSet(Tail(todo))
         IN
         /\ n \in States /\ n # Root /\ n \in DOMAIN Parent
         /\ \A g \in ToSet(Tail(todo)) :
               /\ g \in Frame /\ Apart(Head(todo), g) /\ ~Exits(g)
               /\ Enters(g) => n \notin Below(g.of)
         /\ Joined(F, Head(todo), current, entered)
         /\ Prepared(F, Head(todo)) /\ Following(F, Head(todo))
         /\ \A u : ~Leaving(F, u) /\ ~Emptied(F, u)
         /\ n \in Tracked => entered[n] = 0 /\ entered[Parent[n]] = 1 /\ ~Moving(F, n)
         /\ \A p : Renewed(F, p) <=> Clearing(F, p)
         /\ n \in Tracked /\ Parent[n] \in Machines => Slot(F, current, Parent[n], n)
<1> DEFINE h == Head(todo)
           n == h.of
           T == ToSet(Tail(todo))
           F == {h} \cup T
<1>1. /\ h \in Frame /\ \A g \in T : Apart(h, g) /\ g \in Frame
      /\ Entries(F, current, entered) /\ Accountable(F, h, current, entered)
  <2>1. T \subseteq ToSet(todo) /\ ToSet(todo) \subseteq Frame
    BY FirstAndRest
  <2>2. QED
    BY <2>1, FirstAndRest
<1>2. Enters(h) /\ ~Works(h) /\ ~Exits(h) /\ n \in States /\ FirstEntry(h)
  BY <1>1, Kinds, KindsOf
<1>3. n # Root /\ n \in DOMAIN Parent /\ Joined(F, h, current, entered) /\ Prepared(F, h)
      /\ Following(F, h)
  BY <1>1, <1>2, TreeAssumption DEF Accountable, Joined
<1> HIDE DEF T, h
<1>4. \A g \in T : ~Exits(g) /\ (Enters(g) => n \notin Below(g.of))
  BY <1>1, <1>2 DEF Apart, Nested, InPhase, n
<1>5. \A u : ~Leaving(F, u) /\ ~Emptied(F, u)
  BY <1>2, <1>4, Kinds DEF Leaving, Emptied
<1>6. \A p : Renewed(F, p) <=> Clearing(F, p)
  BY <1>5 DEF Renewed, Clearing
<1>7. ASSUME n \in Tracked
      PROVE  entered[n] = 0 /\ entered[Parent[n]] = 1 /\ ~Moving(F, n)
             /\ (Parent[n] \in Machines => Slot(F, current, Parent[n], n))
  <2>1. Entering(F, n)
    BY <1>2 DEF Entering, n
  <2>2. entered[n] = 0
    BY <1>1, <1>3, <1>5, <1>7, <2>1 DEF Entries, Ruled
  <2>3. ~Moving(F, n)
    <3>1. ASSUME NEW f \in F, f.op = "set", f.of = n PROVE FALSE
      <4>1. Opened(F, f, entered)
        BY <1>1, <3>1 DEF Entries, Accountable
      <4>2. QED
        BY <1>7, <2>2, <3>1, <4>1 DEF Opened
    <3>2. QED
      BY <3>1 DEF Moving
  <2>4. n \in Below(Parent[n]) /\ n # Parent[n]
    <3>1. n \in Children(Parent[n])
      BY <1>2, <1>3 DEF Children
    <3>2. QED
      BY <1>2, <3>1, BelowChild, UpSelf
  <2>5. ~Opening(F, Parent[n])
    <3>1. ASSUME NEW g \in F, FirstEntry(g), g.of = Parent[n] PROVE FALSE
      BY <1>4, <2>4, <3>1, Kinds DEF n
    <3>2. QED
      BY <3>1 DEF Opening
  <2>6. entered[Parent[n]] = 1
    BY <1>2, <1>3, <1>7, <2>5 DEF Joined, n
  <2>7. ASSUME Parent[n] \in Machines PROVE Slot(F, current, Parent[n], n)
    <3>1. \/ MovingTo(F, Parent[n], n)
          \/ n = Initial[Parent[n]] /\ Begins(F, Parent[n], current)
      BY <1>2, <1>3, <1>7, <2>7 DEF Joined, n
    <3>2. MovingTo(F, Parent[n], n) => Moving(F, Parent[n])
      BY DEF Moving, MovingTo
    <3>3. QED
      BY <1>6, <3>1, <3>2 DEF Slot, Begins
  <2>8. QED
    BY <2>2, <2>3, <2>6, <2>7
<1>8. QED
  BY <1>1, <1>2, <1>3, <1>4, <1>5, <1>6, <1>7 DEF h, T

\* After on_enter the state is entered, and what is inside it still to be entered.
LEMMA RunEnterEntries ==
  ASSUME TypeOK, StackInv, EntryInv, ~failed, RunHandler, FirstEntry(Head(todo))
  PROVE  EntryInv'
<1> DEFINE h == Head(todo)
           n == h.of
           T == ToSet(Tail(todo))
           F == {h} \cup T
<1>1. /\ todo # <<>> /\ h.op = "call" /\ h.kind = "enter" /\ Do(<<>>)
      /\ UNCHANGED <<current, throwing, failed>>
      /\ entered' = IF n \in Tracked THEN [entered EXCEPT ![n] = @ + 1] ELSE entered
  BY DEF RunHandler, Doing, Counted, FirstEntry
<1>2. /\ n \in States /\ n # Root /\ n \in DOMAIN Parent
      /\ \A g \in T : /\ g \in Frame /\ Apart(h, g) /\ ~Exits(g)
                      /\ Enters(g) => n \notin Below(g.of)
      /\ Joined(F, h, current, entered) /\ Prepared(F, h)
      /\ \A u : ~Leaving(F, u) /\ ~Emptied(F, u)
      /\ n \in Tracked => entered[n] = 0 /\ entered[Parent[n]] = 1 /\ ~Moving(F, n)
      /\ \A p : Renewed(F, p) <=> Clearing(F, p)
      /\ n \in Tracked /\ Parent[n] \in Machines => Slot(F, current, Parent[n], n)
  BY <1>1, FirstEntryFacts
<1>3. Entries(F, current, entered)
  BY <1>1, FirstAndRest
<1>4. Pairwise(todo') /\ ToSet(todo') = T
  BY <1>1, PairwiseNone, NewStack
<1>5. entered \in [States -> Int]
  BY DEF TypeOK
<1> HIDE DEF T, h
<1>6. /\ \A u \in States : u # n => entered'[u] = entered[u]
      /\ n \in Tracked => entered'[n] = 1
      /\ n \notin Tracked => entered' = entered
  <2> HIDE DEF n
  <2>1. CASE n \in Tracked
    <3>1. entered' = [entered EXCEPT ![n] = entered[n] + 1]
      BY <1>1, <2>1
    <3>2. entered[n] + 1 = 1
      BY <1>2, <2>1
    <3>3. QED
      BY <1>2, <1>5, <2>1, <3>1, <3>2
  <2>2. CASE n \notin Tracked
    BY <1>1, <2>2
  <2>3. QED
    BY <2>1, <2>2
<1>7. Enters(h) /\ ~Exits(h) /\ ~LastExit(h) /\ h.op \notin {"set", "clear"} /\ FirstEntry(h)
      /\ n \in Below(n)
  BY <1>1, <1>2, Kinds, UpSelf DEF LastExit, FirstEntry, Exits
<1>8. /\ \A u : Entering(F, u) <=> u = n \/ Entering(T, u)
      /\ \A u : Opening(F, u) <=> u = n \/ Opening(T, u)
      /\ \A u : ~Leaving(T, u) /\ ~Emptied(T, u)
      /\ \A p : (Moving(F, p) <=> Moving(T, p)) /\ (Clearing(F, p) <=> Clearing(T, p))
      /\ \A p, u : MovingTo(F, p, u) <=> MovingTo(T, p, u)
      /\ \A p : Renewed(T, p) <=> Renewed(F, p)
  <2>1. \A u : Entering(F, u) <=> u = n \/ Entering(T, u)
    BY <1>7 DEF Entering
  <2>2. \A u : Opening(F, u) <=> u = n \/ Opening(T, u)
    BY <1>7 DEF Opening
  <2>3. \A u : ~Leaving(T, u) /\ ~Emptied(T, u)
    BY <1>2 DEF Leaving, Emptied
  <2>4. \A p : (Moving(F, p) <=> Moving(T, p)) /\ (Clearing(F, p) <=> Clearing(T, p))
    BY <1>7 DEF Moving, Clearing
  <2>5. \A p, u : MovingTo(F, p, u) <=> MovingTo(T, p, u)
    BY <1>7 DEF MovingTo
  <2>6. \A p : Renewed(T, p) <=> Renewed(F, p)
    BY <1>2, <2>3, <2>4 DEF Renewed, Clearing
  <2>7. QED
    BY <2>1, <2>2, <2>3, <2>4, <2>5, <2>6
<1>9. ~Entering(T, n)
  BY <1>2, <1>7 DEF Entering
<1>10. ASSUME NEW g \in T PROVE Accountable(T, g, current, entered')
  <2>1. Accountable(F, g, current, entered) /\ g \in Frame /\ ~Exits(g)
    BY <1>2, <1>3 DEF Entries
  <2>2. Opened(T, g, entered')
    <3> SUFFICES ASSUME g.of \in Tracked PROVE Opened(T, g, entered')
      BY DEF Opened
    <3>1. CASE g.of = n
      BY <1>2, <1>6, <2>1, <3>1 DEF Accountable, Opened
    <3>2. CASE g.of # n
      <4>1. entered'[g.of] = entered[g.of]
        BY <1>6, <3>2 DEF Tracked
      <4>2. QED
        BY <1>8, <2>1, <3>2, <4>1 DEF Accountable, Opened
    <3>3. QED
      BY <3>1, <3>2
  <2>3. Left(T, g)
    BY <2>1 DEF Left
  <2>4. Joined(T, g, current, entered')
    <3> SUFFICES ASSUME Enters(g) PROVE Joined(T, g, current, entered')
      BY DEF Joined
    <3>1. Joined(F, g, current, entered) /\ g.of \in States /\ g.of # Root
      BY <2>1, KindsOf DEF Accountable, Joined
    <3>2. g.of \in DOMAIN Parent /\ Parent[g.of] \in States
      BY <3>1, ParentInTree, TreeAssumption
    <3>3. ASSUME g.of \in Tracked
          PROVE  entered'[Parent[g.of]] = 1 \/ Opening(T, Parent[g.of])
      <4>1. CASE Parent[g.of] = n
        <5>1. n \in Tracked
          BY <3>1, <3>3, <4>1, TrackedAround
        <5>2. QED
          BY <1>6, <4>1, <5>1
      <4>2. CASE Parent[g.of] # n
        BY <1>6, <1>8, <3>1, <3>2, <3>3, <4>2 DEF Joined
      <4>3. QED
        BY <4>1, <4>2
    <3>4. QED
      BY <1>8, <3>1, <3>3 DEF Joined, Begins
  <2>5. Prepared(T, g)
    <3> SUFFICES ASSUME FirstEntry(g), Firm(g.of) PROVE Prepared(T, g)
      BY DEF Prepared
    <3>1. n \notin Children(g.of)
      <4>1. n \notin Below(g.of)
        BY <1>2, Kinds
      <4>2. QED
        BY <1>2, <4>1, BelowChild, UpSelf
    <3>2. g.of \in Machines => Initial[g.of] # n
      BY <3>1, TreeAssumption
    <3>3. g.of \in Orthogonal => n \notin ToSet(Regions[g.of])
      BY <3>1, TreeAssumption
    <3>4. QED
      BY <1>8, <2>1, <3>2, <3>3 DEF Accountable, Prepared
  <2>6. Vacated(T, g)
    BY <1>8, <2>1 DEF Accountable, Vacated
  <2>7. Following(T, g)
    <3> SUFFICES ASSUME NEW o \in Orthogonal, NEW i \in DOMAIN Regions[o], NEW j \in DOMAIN Regions[o],
                        g.of = Regions[o][i], Enters(g), i < j
                 PROVE  Entering(T, Regions[o][j])
      BY <2>1 DEF Following
    <3>1. Entering(F, Regions[o][j])
      BY <2>1 DEF Accountable, Following
    <3>2. Regions[o][j] # n
      <4>1. SUFFICES ASSUME Regions[o][j] = n PROVE FALSE
        OBVIOUS
      <4>2. j < i
        BY <1>2, <1>7, <4>1 DEF Apart, InOrder
      <4>3. i \in Nat /\ j \in Nat
        BY RegionsOf
      <4>4. QED
        BY <4>2, <4>3
    <3>3. QED
      BY <1>8, <3>1, <3>2
  <2>8. QED
    BY <2>2, <2>3, <2>4, <2>5, <2>6, <2>7 DEF Accountable
<1>11. ASSUME NEW u \in Tracked \ {Root} PROVE Ruled(T, current, entered', u)
  <2>1. /\ Ruled(F, current, entered, u) /\ u \in Children(Parent[u]) /\ u \in States
        /\ Parent[u] \in States /\ Parent[u] \in Tracked /\ u # Parent[u] /\ Firm(Parent[u])
        /\ Parent[u] \in Machines \cup Orthogonal
    <3>1. u # Parent[u]
      BY TrackedAround, UpSelf
    <3>2. QED
      BY <1>3, <3>1, TrackedAround DEF Entries
  <2>2. CASE u = n
    <3>1. entered'[n] = 1 /\ entered'[Parent[n]] = 1
      BY <1>2, <1>6, <2>1, <2>2
    <3>2. Inhabits(T, current, entered', n)
      BY <1>2, <1>8, <2>2, <3>1 DEF Inhabits, Slot
    <3>3. QED
      BY <1>8, <1>9, <2>2, <3>1, <3>2 DEF Ruled
  <2>3. CASE u # n /\ Parent[u] = n
    <3>1. entered'[u] = entered[u] /\ entered[n] = 0 /\ ~Moving(F, n) /\ (Entering(F, u) <=> Entering(T, u))
      BY <1>2, <1>6, <1>8, <2>1, <2>3
    <3>2. entered[u] = 0
      BY <1>2, <2>1, <2>3, <3>1 DEF Ruled, Inhabits
    <3>3. ASSUME ~Entering(T, u) PROVE ~Inhabits(T, current, entered', u)
      <4>1. n \notin Orthogonal
        <5>1. n \in Orthogonal => u \in ToSet(Regions[n])
          BY <2>1, <2>3, TreeAssumption
        <5>2. n \in Orthogonal => Entering(F, u)
          BY <1>2, <1>7, <2>1, <2>3, <5>1 DEF Prepared
        <5>3. QED
          BY <3>1, <3>3, <5>2
      <4>2. n \in Machines /\ Entering(F, Initial[n])
        BY <1>2, <1>7, <2>1, <2>3, <4>1 DEF Prepared
      <4>3. u # Initial[n]
        BY <3>1, <3>3, <4>2
      <4>4. current[n] = Initial[n] \/ Clearing(F, n)
        BY <1>3, <2>1, <2>3, <3>1, <4>2 DEF Entries, Fresh
      <4>5. ~Slot(T, current, n, u)
        BY <1>2, <1>8, <3>1, <4>3, <4>4 DEF Slot
      <4>6. QED
        BY <2>3, <4>2, <4>5 DEF Inhabits
    <3>4. QED
      BY <1>8, <3>1, <3>2, <3>3 DEF Ruled
  <2>4. CASE u # n /\ Parent[u] # n
    <3>1. entered'[u] = entered[u] /\ entered'[Parent[u]] = entered[Parent[u]]
      BY <1>6, <2>1, <2>4
    <3>2. Inhabits(T, current, entered', u) <=> Inhabits(F, current, entered, u)
      BY <1>2, <1>8, <3>1 DEF Inhabits, Slot
    <3>3. QED
      BY <1>2, <1>8, <2>1, <2>4, <3>1, <3>2 DEF Ruled
  <2>5. QED
    BY <2>2, <2>3, <2>4
<1>12. ASSUME NEW p \in Machines PROVE Fresh(T, current, entered', p)
  <2>1. CASE p = n
    <3>1. Firm(n) => entered'[n] = 1
      BY <1>2, <1>6 DEF Firm, Tracked
    <3>2. QED
      BY <2>1, <3>1 DEF Fresh
  <2>2. CASE p # n
    <3>1. entered'[p] = entered[p]
      BY <1>6, <2>2, TreeAssumption
    <3>2. QED
      BY <1>3, <1>8, <3>1 DEF Entries, Fresh
  <2>3. QED
    BY <2>1, <2>2
<1>13. entered'[Root] = 1
  BY <1>2, <1>3, <1>6, RootTracked DEF Entries
<1>14. QED
  <2>1. Entries(T, current, entered')
    BY <1>10, <1>11, <1>12, <1>13 DEF Entries
  <2>2. ~throwing'
    BY <1>1 DEF EntryInv
  <2>3. Entries(ToSet(todo'), current', entered')
    BY <1>1, <1>4, <2>1
  <2>4. QED
    BY <1>4, <2>2, <2>3 DEF EntryInv

-----------------------------------------------------------------------------
(* The last steps of a transition *)

\* What is cleared has been left, and entered again at most with its initial states.
LEMMA ClearEntries ==
  ASSUME TypeOK, StackInv, EntryInv, ~failed, ClearSource
  PROVE  EntryInv'
<1> DEFINE h == Head(todo)
           n == h.of
           T == ToSet(Tail(todo))
           F == {h} \cup T
           inside == IF n \in History THEN {} ELSE Below(n)
<1>1. /\ todo # <<>> /\ h.op = "clear" /\ Do(<<>>)
      /\ UNCHANGED <<entered, throwing, failed>>
      /\ current' = [m \in Machines |-> IF m \in inside THEN Initial[m] ELSE current[m]]
  BY DEF ClearSource, Doing, history
<1>2. /\ h \in Frame /\ \A g \in T : Apart(h, g) /\ g \in Frame
      /\ Entries(F, current, entered)
  <2>1. T \subseteq ToSet(todo) /\ ToSet(todo) \subseteq Frame
    BY <1>1, FirstAndRest
  <2>2. QED
    BY <1>1, <2>1, FirstAndRest
<1>3. Pairwise(todo') /\ ToSet(todo') = T
  BY <1>1, PairwiseNone, NewStack
<1>4. ~Exits(h) /\ ~Enters(h) /\ n \in States
  BY <1>1, <1>2, Kinds, KindsOf
<1> HIDE DEF T, h
<1>5. \A g \in T : ~Exits(g)
  BY <1>2, <1>4, NoExitsLater
<1>6. /\ \A u : ~Leaving(F, u) /\ ~Emptied(F, u) /\ ~Leaving(T, u) /\ ~Emptied(T, u)
      /\ \A u : (Entering(F, u) <=> Entering(T, u)) /\ (Opening(F, u) <=> Opening(T, u))
      /\ \A p : Moving(F, p) <=> Moving(T, p)
      /\ \A p, u : MovingTo(F, p, u) <=> MovingTo(T, p, u)
      /\ \A p : Clearing(F, p) <=> p \in Below(n) \/ Clearing(T, p)
  <2>1. \A u : ~Leaving(F, u) /\ ~Emptied(F, u) /\ ~Leaving(T, u) /\ ~Emptied(T, u)
    BY <1>4, <1>5, Kinds DEF Leaving, Emptied
  <2>2. \A u : (Entering(F, u) <=> Entering(T, u)) /\ (Opening(F, u) <=> Opening(T, u))
    BY <1>4, Kinds DEF Entering, Opening
  <2>3. \A p : Moving(F, p) <=> Moving(T, p)
    BY <1>1 DEF Moving
  <2>4. \A p, u : MovingTo(F, p, u) <=> MovingTo(T, p, u)
    BY <1>1 DEF MovingTo
  <2>5. \A p : Clearing(F, p) <=> p \in Below(n) \/ Clearing(T, p)
    BY <1>1 DEF Clearing
  <2>6. QED
    BY <2>1, <2>2, <2>3, <2>4, <2>5
<1>7. \A p : (Renewed(F, p) <=> Clearing(F, p)) /\ (Renewed(T, p) <=> Clearing(T, p))
  BY <1>6 DEF Renewed, Clearing
<1>8. ASSUME NEW p \in Machines
      PROVE  /\ Firm(p) /\ p \in Below(n) => current'[p] = Initial[p]
             /\ p \notin Below(n) => current'[p] = current[p]
  <2>1. Firm(p) /\ p \in Below(n) => n \notin History
    BY DEF Firm, Stale, Below
  <2>2. QED
    BY <1>1, <2>1
<1>9. ASSUME NEW g \in T PROVE Accountable(T, g, current', entered)
  <2>1. Accountable(F, g, current, entered) /\ g \in Frame
    BY <1>2 DEF Entries
  <2>2. Opened(T, g, entered) /\ Left(T, g) /\ Prepared(T, g) /\ Vacated(T, g) /\ Following(T, g)
    BY <1>5, <1>6, <2>1 DEF Accountable, Opened, Left, Prepared, Vacated, Following
  <2>3. Joined(T, g, current', entered)
    <3> SUFFICES ASSUME Enters(g) PROVE Joined(T, g, current', entered)
      BY DEF Joined
    <3>1. Joined(F, g, current, entered) /\ g.of # Root
      BY <2>1 DEF Accountable, Joined
    <3>2. ASSUME g.of \in Tracked, Parent[g.of] \in Machines, Begins(F, Parent[g.of], current)
          PROVE  Begins(T, Parent[g.of], current')
      <4>1. Firm(Parent[g.of])
        BY <3>1, <3>2, TrackedAround
      <4>2. QED
        BY <1>6, <1>8, <3>2, <4>1 DEF Begins
    <3>3. QED
      BY <1>6, <3>1, <3>2 DEF Joined
  <2>4. QED
    BY <2>2, <2>3 DEF Accountable
<1>10. ASSUME NEW u \in Tracked \ {Root} PROVE Ruled(T, current', entered, u)
  <2>1. Ruled(F, current, entered, u) /\ Firm(Parent[u])
    BY <1>2, TrackedAround DEF Entries
  <2>2. ASSUME Parent[u] \in Machines
        PROVE  Slot(T, current', Parent[u], u) <=> Slot(F, current, Parent[u], u)
    BY <1>6, <1>7, <1>8, <2>1, <2>2 DEF Slot
  <2>3. Inhabits(T, current', entered, u) <=> Inhabits(F, current, entered, u)
    BY <1>6, <2>2 DEF Inhabits
  <2>4. QED
    BY <1>6, <2>1, <2>3 DEF Ruled
<1>11. ASSUME NEW p \in Machines PROVE Fresh(T, current', entered, p)
  BY <1>2, <1>6, <1>8 DEF Entries, Fresh
<1>12. QED
  <2>1. Entries(T, current', entered)
    BY <1>2, <1>9, <1>10, <1>11 DEF Entries
  <2>2. ~throwing'
    BY <1>1 DEF EntryInv
  <2>3. Entries(ToSet(todo'), current', entered')
    BY <1>1, <1>3, <2>1
  <2>4. QED
    BY <1>3, <2>2, <2>3 DEF EntryInv

\* The state that becomes current is the one that has been entered.
LEMMA CompleteEntries ==
  ASSUME TypeOK, StackInv, EntryInv, ~failed, CompleteTransition
  PROVE  EntryInv'
<1> DEFINE h == Head(todo)
           m == h.of
           t == h.to
           T == ToSet(Tail(todo))
           F == {h} \cup T
<1>1. /\ todo # <<>> /\ h.op = "set" /\ Do(<<>>)
      /\ UNCHANGED <<entered, throwing, failed>>
      /\ current' = [current EXCEPT ![m] = t]
  BY DEF CompleteTransition, Doing, Return
<1>2. /\ h \in Frame /\ \A g \in T : Apart(h, g) /\ g \in Frame
      /\ Entries(F, current, entered) /\ Accountable(F, h, current, entered)
      /\ todo \in Seq(Frame)
  <2>1. T \subseteq ToSet(todo) /\ ToSet(todo) \subseteq Frame
    BY <1>1, FirstAndRest
  <2>2. QED
    BY <1>1, <2>1, FirstAndRest
<1>3. Pairwise(todo') /\ ToSet(todo') = T
  BY <1>1, PairwiseNone, NewStack
<1>4. ~Exits(h) /\ ~Enters(h) /\ m \in Machines /\ m \in States
  BY <1>1, <1>2, Kinds, KindsOf
<1>5. \A g \in T : g.op = "set" => g.of # m
  <2> SUFFICES ASSUME NEW g \in T, g.op = "set" PROVE g.of # m
    OBVIOUS
  <2>1. PICK j \in DOMAIN Tail(todo) : g = Tail(todo)[j]
    BY DEF ToSet
  <2>2. j + 1 \in DOMAIN todo /\ g = todo[j + 1] /\ j \in Nat \ {0} /\ 1 \in DOMAIN todo /\ h = todo[1]
    BY <1>1, <1>2, <2>1, TailFacts
  <2>3. Scope(h) \cap Relies(g) = {}
    <3>1. 1 < j + 1 /\ Confined(todo)
      BY <2>2 DEF StackInv, Stacked
    <3>2. QED
      BY <2>2, <3>1 DEF Confined
  <2>4. Scope(h) = {m} /\ Relies(g) = {g.of}
    BY <1>1 DEF Scope, Relies
  <2>5. QED
    BY <2>3, <2>4
<1>6. current \in [Machines -> States]
  BY DEF TypeOK
<1> HIDE DEF T, h
<1>7. current'[m] = t /\ \A p \in Machines : p # m => current'[p] = current[p]
  BY <1>1, <1>4, <1>6
<1>8. \A g \in T : ~Exits(g)
  BY <1>2, <1>4, NoExitsLater
<1>9. \A g \in T : Enters(g) \/ g.op = "clear" => g.of \notin Children(m)
  BY <1>1, <1>2 DEF Apart, Ending
<1>10. m \in Tracked => entered[m] = 1
  BY <1>1, <1>2 DEF Accountable, Opened
<1>11. Firm(m) => m \in Tracked /\ ~Clearing(T, m)
  BY <1>1, <1>2, <1>4 DEF Apart, BeforeClear, Clearing, Firm, Tracked, m
<1>12. /\ \A u : ~Leaving(F, u) /\ ~Emptied(F, u) /\ ~Leaving(T, u) /\ ~Emptied(T, u)
       /\ \A u : (Entering(F, u) <=> Entering(T, u)) /\ (Opening(F, u) <=> Opening(T, u))
       /\ \A p : Moving(F, p) <=> p = m \/ Moving(T, p)
       /\ \A p, u : MovingTo(F, p, u) <=> (p = m /\ u = t) \/ MovingTo(T, p, u)
       /\ \A p : Clearing(F, p) <=> Clearing(T, p)
       /\ ~Moving(T, m)
  <2>1. \A u : ~Leaving(F, u) /\ ~Emptied(F, u) /\ ~Leaving(T, u) /\ ~Emptied(T, u)
    BY <1>4, <1>8, Kinds DEF Leaving, Emptied
  <2>2. \A u : (Entering(F, u) <=> Entering(T, u)) /\ (Opening(F, u) <=> Opening(T, u))
    BY <1>4, Kinds DEF Entering, Opening
  <2>3. \A p : Moving(F, p) <=> p = m \/ Moving(T, p)
    BY <1>1 DEF Moving
  <2>4. \A p, u : MovingTo(F, p, u) <=> (p = m /\ u = t) \/ MovingTo(T, p, u)
    BY <1>1 DEF MovingTo
  <2>5. \A p : Clearing(F, p) <=> Clearing(T, p)
    BY <1>1 DEF Clearing
  <2>6. ~Moving(T, m)
    BY <1>5 DEF Moving
  <2>7. QED
    BY <2>1, <2>2, <2>3, <2>4, <2>5, <2>6
<1>13. \A p : (Renewed(F, p) <=> Clearing(F, p)) /\ (Renewed(T, p) <=> Clearing(T, p))
  BY <1>12 DEF Renewed, Clearing
<1>14. ASSUME NEW g \in T PROVE Accountable(T, g, current', entered)
  <2>1. Accountable(F, g, current, entered) /\ g \in Frame
    BY <1>2 DEF Entries
  <2>2. ASSUME Enters(g) \/ g.op = "clear", g.of # Root PROVE Parent[g.of] # m
    <3>1. g.of \in DOMAIN Parent
      BY <2>1, <2>2, KindsOf, TreeAssumption
    <3>2. QED
      BY <1>9, <2>2, <3>1 DEF Children
  <2>3. Opened(T, g, entered) /\ Left(T, g) /\ Prepared(T, g) /\ Following(T, g)
    BY <1>8, <1>12, <2>1 DEF Accountable, Opened, Left, Prepared, Following
  <2>4. Vacated(T, g)
    BY <1>12, <2>1, <2>2 DEF Accountable, Vacated
  <2>5. Joined(T, g, current', entered)
    BY <1>7, <1>12, <2>1, <2>2 DEF Accountable, Joined, Begins
  <2>6. QED
    BY <2>3, <2>4, <2>5 DEF Accountable
<1>15. ASSUME NEW u \in Tracked \ {Root} PROVE Ruled(T, current', entered, u)
  <2>1. Ruled(F, current, entered, u) /\ Firm(Parent[u]) /\ u \in Children(Parent[u])
    BY <1>2, TrackedAround DEF Entries
  <2>2. CASE Parent[u] = m
    <3>1. Slot(F, current, m, u) <=> u = t
      <4>1. ~MovingTo(T, m, u)
        BY <1>12 DEF Moving, MovingTo
      <4>2. QED
        BY <1>12, <4>1 DEF Slot
    <3>2. Slot(T, current', m, u) <=> u = t
      BY <1>7, <1>11, <1>12, <1>13, <2>1, <2>2 DEF Slot
    <3>3. Inhabits(T, current', entered, u) <=> Inhabits(F, current, entered, u)
      BY <1>12, <2>2, <3>1, <3>2 DEF Inhabits
    <3>4. QED
      BY <1>12, <2>1, <3>3 DEF Ruled
  <2>3. CASE Parent[u] # m
    <3>1. Inhabits(T, current', entered, u) <=> Inhabits(F, current, entered, u)
      BY <1>7, <1>12, <1>13, <2>3 DEF Inhabits, Slot
    <3>2. QED
      BY <1>12, <2>1, <3>1 DEF Ruled
  <2>4. QED
    BY <2>2, <2>3
<1>16. ASSUME NEW p \in Machines PROVE Fresh(T, current', entered, p)
  <2>1. Fresh(F, current, entered, p)
    BY <1>2 DEF Entries
  <2>2. CASE p = m
    <3>1. Firm(p) => entered[p] # 0
      BY <1>10, <1>11, <2>2
    <3>2. QED
      BY <3>1 DEF Fresh
  <2>3. CASE p # m
    <3>1. current'[p] = current[p] /\ (Clearing(T, p) <=> Clearing(F, p))
      BY <1>7, <1>12, <2>3
    <3>2. QED
      BY <2>1, <3>1 DEF Fresh
  <2>4. QED
    BY <2>2, <2>3
<1>17. QED
  <2>1. Entries(T, current', entered)
    BY <1>2, <1>14, <1>15, <1>16 DEF Entries
  <2>2. ~throwing'
    BY <1>1 DEF EntryInv
  <2>3. Entries(ToSet(todo'), current', entered')
    BY <1>1, <1>3, <2>1
  <2>4. QED
    BY <1>3, <2>2, <2>3 DEF EntryInv

-----------------------------------------------------------------------------
(* Every step *)

\* Every kind of step, from the lemmas before.
LEMMA TestRowEntries ==
  ASSUME TypeOK, StackInv, EntryInv, ~failed, TestRow
  PROVE  EntryInv'
<1> DEFINE f == Head(todo)
           i == First(Candidates(f))
<1>1. /\ Doing("rows") /\ todo # <<>> /\ f.op = "rows" /\ Candidates(f) # {}
      /\ UNCHANGED <<current, entered, throwing, failed>>
      /\ \/ Do(Transition(f.of, f.event, i))
         \/ Do(<<Rows(f.of, f.event, i + 1)>>)
  BY DEF TestRow, Doing, tree, history
<1>2. f \in Frame /\ f.row >= 1
  BY <1>1, FirstCall DEF Fits, FitsDispatch
<1>3. /\ i \in DOMAIN Table[f.of] /\ i \in Nat /\ Table[f.of][i].event = Kind(f.event)
      /\ Table[f.of][i].from = current[f.of]
  BY <1>1, <1>2, FirstCandidate
<1>4. CASE Do(Transition(f.of, f.event, i))
  <2> HIDE DEF i
  <2>1. QED
    BY <1>1, <1>3, <1>4, TransitionEntries
<1>5. CASE Do(<<Rows(f.of, f.event, i + 1)>>)
  BY <1>1, <1>5, SkipRowEntries
<1>6. QED
  BY <1>1, <1>4, <1>5

LEMMA ExitOrEnterEntries ==
  ASSUME TypeOK, StackInv, EntryInv, ~failed, ExitOrEnter
  PROVE  EntryInv'
<1>1. UNCHANGED <<current, entered, throwing, failed>>
  BY DEF ExitOrEnter, tree, history
<1>2. \/ /\ Doing("exit")
         /\ Do(InnerExit(Head(todo).of, Head(todo).event)
                 \o <<Call("exit", Head(todo).of, 0, Head(todo).event)>>)
      \/ /\ Doing("enter")
         /\ Do(<<Call("enter", Head(todo).of, 0, Head(todo).event)>>
                 \o InnerEnter(Head(todo).of, Head(todo).event))
  BY DEF ExitOrEnter
<1>3. QED
  BY <1>1, <1>2, ExitEntries, EnterEntries DEF Doing

LEMMA RunHandlerEntries ==
  ASSUME TypeOK, StackInv, EntryInv, ~failed, RunHandler
  PROVE  EntryInv'
<1>1. todo # <<>> /\ Head(todo).op = "call"
  BY DEF RunHandler, Doing
<1>2. CASE Head(todo).kind = "exit"
  BY <1>1, <1>2, RunExitEntries DEF LastExit
<1>3. CASE Head(todo).kind = "enter"
  BY <1>1, <1>3, RunEnterEntries DEF FirstEntry
<1>4. CASE Head(todo).kind \notin {"enter", "exit"}
  BY <1>4, RunActionEntries
<1>5. QED
  BY <1>2, <1>3, <1>4

\* After an exception nothing is said of entries any more.
LEMMA StaysFailed ==
  ASSUME TypeOK, failed, [Next]_vars
  PROVE  failed'
BY DEF Next, Step, Receive, Dispatch, NextRegion, NoMoreRows, TestRow, TestInternalRow, Settle,
       CheckDefault, GiveAnswer, ExitOrEnter, ClearSource, CompleteTransition, LeaveTry,
       RunHandler, HandlerThrows, GuardThrows, ThrowNow, Escape, Catch, Stuck, vars, history

\* A state is active if what is around it is, and it is its current state.
LEMMA ActiveStep ==
  ASSUME NEW n \in Tracked \ {Root}, NEW c
  PROVE  n \in Active(c) <=>
            Parent[n] \in Active(c) /\ (Parent[n] \in Machines => c[Parent[n]] = n)
<1>1. /\ n \in States /\ n \in DOMAIN Parent /\ n \in Children(Parent[n]) /\ Parent[n] \in States
      /\ n # Root
  BY TrackedAround
<1>2. ASSUME n \in Active(c)
      PROVE  Parent[n] \in Active(c) /\ (Parent[n] \in Machines => c[Parent[n]] = n)
  BY <1>1, <1>2, UpStep, UpSelf DEF Active
<1>3. ASSUME Parent[n] \in Active(c), Parent[n] \in Machines => c[Parent[n]] = n
      PROVE  n \in Active(c)
  BY <1>1, <1>3, ActiveChild
<1>4. QED
  BY <1>2, <1>3

\* A new machine is in its initial states.
LEMMA InitEntries ==
  ASSUME Init
  PROVE  EntryInv
<1>1. /\ ~throwing /\ ToSet(todo) = {} /\ Pairwise(todo) /\ current = Initial
      /\ entered = [n \in States |-> IF n \in Active(Initial) THEN 1 ELSE 0]
  BY PairwiseNone DEF Init
<1>2. entered[Root] = 1
  BY <1>1, RootActive, RootTracked
<1>3. \A n : ~Leaving({}, n) /\ ~Entering({}, n) /\ ~Emptied({}, n) /\ ~Moving({}, n) /\ ~Renewed({}, n)
  BY DEF Leaving, Entering, Emptied, Moving, Renewed
<1>4. ASSUME NEW n \in Tracked \ {Root} PROVE Ruled({}, current, entered, n)
  <2>1. /\ n \in States /\ n \in DOMAIN Parent /\ n \in Children(Parent[n]) /\ Parent[n] \in States
    BY <1>4, TrackedAround
  <2>2. n \in Active(Initial) <=>
           Parent[n] \in Active(Initial) /\ (Parent[n] \in Machines => Initial[Parent[n]] = n)
    BY ActiveStep
  <2>3. Inhabits({}, current, entered, n) <=> n \in Active(Initial)
    BY <1>1, <1>3, <2>1, <2>2 DEF Inhabits, Slot
  <2>4. QED
    BY <1>1, <1>3, <2>1, <2>3 DEF Ruled
<1>5. \A m \in Machines : Fresh({}, current, entered, m)
  BY <1>1 DEF Fresh
<1>6. QED
  BY <1>1, <1>2, <1>4, <1>5 DEF EntryInv, Entries

LEMMA NextEntries ==
  ASSUME TypeOK, StackInv, EntryInv, [Next]_vars
  PROVE  EntryInv'
<1>1. CASE failed
  BY <1>1, StaysFailed DEF EntryInv
<1>2. CASE ~failed
  <2>1. ~throwing
    BY <1>2 DEF EntryInv
  <2>2. ASSUME NEW e \in Events, Receive(e) PROVE EntryInv'
    BY <1>2, <2>2, ReceiveEntries
  <2>3. ASSUME Dispatch \/ NextRegion PROVE EntryInv'
    BY <1>2, <2>3, DispatchEntries, NextRegionEntries
  <2>4. ASSUME NoMoreRows \/ TestRow \/ TestInternalRow PROVE EntryInv'
    BY <1>2, <2>4, NoMoreRowsEntries, TestRowEntries, TestInternalRowEntries
  <2>5. ASSUME Settle \/ CheckDefault \/ GiveAnswer \/ LeaveTry PROVE EntryInv'
    BY <1>2, <2>5, SettleEntries, CheckDefaultEntries, GiveAnswerEntries
  <2>6. ASSUME ExitOrEnter \/ ClearSource \/ CompleteTransition PROVE EntryInv'
    BY <1>2, <2>6, ExitOrEnterEntries, ClearEntries, CompleteEntries
  <2>7. ASSUME RunHandler PROVE EntryInv'
    BY <1>2, <2>7, RunHandlerEntries
  <2>8. ASSUME HandlerThrows \/ GuardThrows PROVE EntryInv'
    BY <2>8 DEF HandlerThrows, GuardThrows, ThrowNow, EntryInv
  <2>9. ASSUME Escape \/ Catch \/ Stuck PROVE EntryInv'
    BY <2>1, <2>9 DEF Escape, Catch, Stuck, Escaped
  <2>10. ASSUME UNCHANGED vars PROVE EntryInv'
    <3>1. UNCHANGED <<todo, current, entered, throwing, failed>>
      BY <2>10 DEF vars, tree, control, history
    <3>2. QED
      BY <3>1 DEF EntryInv, Pairwise
  <2>11. QED
    BY <2>2, <2>3, <2>4, <2>5, <2>6, <2>7, <2>8, <2>9, <2>10 DEF Next, Step
<1>3. QED
  BY <1>1, <1>2

\* What the calls in progress have left to enter and to leave accounts for what
\* has been entered: the invariant behind the two theorems below.
THEOREM EntryInvariant == Spec => [](TypeOK /\ StackInv /\ EntryInv)
<1>1. Init => TypeOK /\ StackInv /\ EntryInv
  BY InitStack, InitEntries
<1>2. TypeOK /\ StackInv /\ EntryInv /\ [Next]_vars => TypeOK' /\ StackInv' /\ EntryInv'
  BY NextStack, NextEntries
<1>3. QED
  BY <1>1, <1>2, PTL DEF Spec

\* At rest nothing is left to enter or to leave: a state is entered if and only
\* if the machine around it is and it is the current state of that.
LEMMA RestingEntries ==
  ASSUME EntryInv
  PROVE  EntriesMatch
<1> SUFFICES ASSUME Resting, ~failed, NEW n \in Tracked
             PROVE  entered[n] = IF n \in Active(current) THEN 1 ELSE 0
  BY DEF EntriesMatch
<1>1. ToSet(todo) = {} /\ Entries({}, current, entered)
  BY PairwiseNone DEF EntryInv, Resting
<1> DEFINE Right(s) == entered[s] = IF s \in Active(current) THEN 1 ELSE 0
           Wrong == {s \in Tracked : ~Right(s)}
<1>2. Right(Root) /\ Root \in Tracked
  BY <1>1, RootActive, RootTracked DEF Entries
<1>3. \A s : ~Leaving({}, s) /\ ~Entering({}, s) /\ ~Emptied({}, s) /\ ~Moving({}, s) /\ ~Renewed({}, s)
  BY DEF Leaving, Entering, Emptied, Moving, Renewed
<1>4. ASSUME NEW s \in Tracked \ {Root}, Right(Parent[s]) PROVE Right(s)
  <2>1. Ruled({}, current, entered, s)
    BY <1>1, <1>4 DEF Entries
  <2>2. s \in Active(current) <=>
           Parent[s] \in Active(current) /\ (Parent[s] \in Machines => current[Parent[s]] = s)
    BY <1>4, ActiveStep
  <2>3. Inhabits({}, current, entered, s) <=> s \in Active(current)
    BY <1>3, <1>4, <2>2 DEF Inhabits, Slot
  <2>4. QED
    BY <1>3, <2>1, <2>3 DEF Ruled
<1> HIDE DEF Right
<1>5. Wrong \in Closed
  <2>1. Wrong \subseteq States
    BY DEF Tracked
  <2>2. ASSUME NEW s \in Wrong \ {Root} PROVE Parent[s] \in Wrong
    BY <1>4, <2>2, TrackedAround
  <2>3. QED
    BY <2>1, <2>2 DEF Closed
<1>6. n \notin Wrong
  <2> SUFFICES ASSUME n \in Wrong PROVE FALSE
    OBVIOUS
  <2>1. n \in States /\ Root \in Up[n]
    BY TreeAssumption DEF Tracked
  <2>2. Up[n] \subseteq Wrong
    BY <1>5, <2>1, UpLeast
  <2>3. QED
    BY <1>2, <2>1, <2>2
<1>7. QED
  BY <1>6 DEF Right

\* Between two events exactly the active states have been entered and not left,
\* whatever transitions led there, in every tree and with every table, unless
\* something has thrown (make_transition, inner_state_machine::state_enter and
\* state_exit, regions_stack).
THEOREM EntriesMatchStates == Spec => []EntriesMatch
  BY EntryInvariant, RestingEntries, PTL

-----------------------------------------------------------------------------
(* The order of entries and exits *)

\* The place of a region.
Place(o, s) == SelectInSeq(Regions[o], LAMBDA x : x = s)

LEMMA Placed ==
  ASSUME NEW o \in Orthogonal, NEW i \in DOMAIN Regions[o], NEW s, Regions[o][i] = s
  PROVE  Place(o, s) = i
<1> DEFINE I == {k \in 1..Len(Regions[o]) : Regions[o][k] = s}
<1>1. DOMAIN Regions[o] = 1..Len(Regions[o]) /\ i \in Nat
  BY RegionsSeq
<1>2. I = {i}
  BY <1>1, PlaceOf
<1>3. Min(I) = i
  BY <1>1, <1>2 DEF Min
<1>4. QED
  BY <1>2, <1>3 DEF SelectInSeq, Place

\* A region has one place.
LEMMA InPlace ==
  ASSUME NEW n \in DOMAIN Parent, Parent[n] \in Orthogonal
  PROVE  \E i \in DOMAIN Regions[Parent[n]] : Regions[Parent[n]][i] = n
<1>1. n \in ToSet(Regions[Parent[n]])
  BY TreeAssumption DEF Children
<1>2. QED
  BY <1>1 DEF ToSet

\* A machine makes one transition at a time.
LEMMA OneTarget ==
  ASSUME TypeOK, StackInv, NEW m, NEW s, NEW t,
         MovingTo(ToSet(todo), m, s), MovingTo(ToSet(todo), m, t)
  PROVE  s = t
<1>1. PICK i \in DOMAIN todo : todo[i].op = "set" /\ todo[i].of = m /\ todo[i].to = s
  BY DEF MovingTo, ToSet
<1>2. PICK j \in DOMAIN todo : todo[j].op = "set" /\ todo[j].of = m /\ todo[j].to = t
  BY DEF MovingTo, ToSet
<1>3. /\ Scope(todo[i]) = {m} /\ Relies(todo[i]) = {m}
      /\ Scope(todo[j]) = {m} /\ Relies(todo[j]) = {m}
  BY <1>1, <1>2 DEF Scope, Relies
<1>4. todo \in Seq(Frame) /\ Confined(todo)
  BY DEF TypeOK, StackInv, Stacked
<1>5. i = j
  <2>1. i \in Int /\ j \in Int
    BY <1>4
  <2>2. ~(i < j) /\ ~(j < i)
    BY <1>3, <1>4 DEF Confined
  <2>3. QED
    BY <2>1, <2>2
<1>6. QED
  BY <1>1, <1>2, <1>5

\* on_enter is called in order, and on_exit is.
LEMMA EntersOrdered ==
  ASSUME TypeOK, StackInv, EntryInv, ~failed, todo # <<>>, FirstEntry(Head(todo)),
         Head(todo).of \in Tracked
  PROVE  EntersInOrder(Head(todo).of)
<1> DEFINE h == Head(todo)
           n == h.of
           T == ToSet(Tail(todo))
           F == {h} \cup T
           p == Parent[n]
<1>1. /\ n # Root /\ n \in DOMAIN Parent /\ \A g \in T : Apart(h, g) /\ ~Exits(g)
      /\ Following(F, h) /\ \A u : ~Leaving(F, u) /\ ~Emptied(F, u)
      /\ entered[n] = 0 /\ entered[p] = 1 /\ (p \in Machines => Slot(F, current, p, n))
  BY FirstEntryFacts
<1>2. F = ToSet(todo) /\ Entries(F, current, entered) /\ Enters(h) /\ ~Exits(h)
  BY FirstAndRest, Kinds DEF EntryInv, FirstEntry, Enters
<1> HIDE DEF T, h
<1>3. \A s \in Tracked \cap Children(p) : s # Root /\ Parent[s] = p /\ s \in DOMAIN Parent
  BY TreeAssumption DEF Children
<1>4. ASSUME p \in Machines, NEW s \in Tracked \cap Children(p) PROVE entered[s] = 0
  <2>1. Ruled(F, current, entered, s) /\ ~Leaving(F, s)
    BY <1>1, <1>2, <1>3 DEF Entries
  <2>2. CASE s = n
    BY <1>1, <2>2
  <2>3. CASE s # n
    <3>1. ~Slot(F, current, p, s)
      BY <1>1, <1>2, <1>4, <2>3, OneTarget DEF Slot
    <3>2. ~Inhabits(F, current, entered, s)
      BY <1>3, <1>4, <3>1 DEF Inhabits
    <3>3. QED
      BY <2>1, <3>2 DEF Ruled
  <2>4. QED
    BY <2>2, <2>3
<1>5. ASSUME p \notin Machines, NEW s \in Tracked \cap Children(p)
      PROVE  entered[s] = 1 <=> Place(p, s) < Place(p, n)
  <2>1. p \in Orthogonal
    BY <1>1, <1>5, TreeAssumption
  <2>2. PICK i \in DOMAIN Regions[p] : Regions[p][i] = n
    BY <1>1, <2>1, InPlace
  <2>3. PICK j \in DOMAIN Regions[p] : Regions[p][j] = s
    BY <1>3, <2>1, InPlace
  <2>4. /\ Place(p, n) = i
        /\ Place(p, s) = j
        /\ i \in Nat /\ j \in Nat
    BY <2>1, <2>2, <2>3, Placed, RegionsSeq
  <2>5. entered[s] = 1 <=> ~Entering(F, s)
    <3>1. Ruled(F, current, entered, s) /\ ~Leaving(F, s)
      BY <1>1, <1>2, <1>3 DEF Entries
    <3>2. Inhabits(F, current, entered, s)
      BY <1>1, <1>3, <1>5 DEF Inhabits
    <3>3. QED
      BY <3>1, <3>2 DEF Ruled
  <2>6. Entering(F, s) <=> i <= j
    <3>1. i < j => Entering(F, s)
      BY <1>1, <1>2, <2>1, <2>2, <2>3, <2>4 DEF Following, n
    <3>2. i = j => Entering(F, s)
      BY <1>2, <2>2, <2>3 DEF Entering, n
    <3>3. ASSUME Entering(F, s), j < i PROVE FALSE
      <4>1. PICK g \in F : Enters(g) /\ g.of = s
        BY <3>3 DEF Entering
      <4>2. s # n
        BY <2>1, <2>2, <2>3, <2>4, <3>3, PlaceOf
      <4>3. g \in T /\ InOrder(h, g)
        BY <1>1, <4>1, <4>2 DEF Apart, n
      <4>4. i < j
        BY <1>2, <2>1, <2>2, <2>3, <4>1, <4>3 DEF InOrder, n
      <4>5. QED
        BY <2>4, <3>3, <4>4
    <3>4. QED
      BY <1>1, <2>4, <3>1, <3>2, <3>3
  <2>7. QED
    BY <2>4, <2>5, <2>6
<1>6. QED
  BY <1>1, <1>4, <1>5 DEF EntersInOrder, Place, h

LEMMA LeavesOrdered ==
  ASSUME TypeOK, StackInv, EntryInv, ~failed, todo # <<>>, LastExit(Head(todo)),
         Head(todo).of \in Tracked
  PROVE  LeavesInOrder(Head(todo).of)
<1> DEFINE h == Head(todo)
           n == h.of
           T == ToSet(Tail(todo))
           F == {h} \cup T
           p == Parent[n]
<1>1. /\ n # Root /\ n \in DOMAIN Parent /\ \A g \in T : g \in Frame /\ Apart(h, g)
      /\ Left(F, h) /\ \A u \in (Below(n) \cap Tracked) \ {n} : entered[u] = 0
  BY LastExitFacts
<1>2. /\ F = ToSet(todo) /\ Entries(F, current, entered) /\ Exits(h) /\ ~Enters(h)
      /\ h \in Frame /\ Following(F, h)
  <2>1. F = ToSet(todo) /\ Entries(F, current, entered) /\ Exits(h) /\ ~Enters(h) /\ h \in Frame
    BY FirstAndRest, Kinds DEF EntryInv, LastExit, Exits
  <2>2. QED
    BY <2>1 DEF Entries, Accountable
<1> HIDE DEF T, h
<1>3. \A s \in Tracked \cap Children(p) : s # Root /\ Parent[s] = p /\ s \in DOMAIN Parent
  BY TreeAssumption DEF Children
<1>4. ASSUME p \in Orthogonal, NEW s \in Tracked \cap Children(p)
      PROVE  entered[s] = 1 <=> Place(p, s) <= Place(p, n)
  <2>1. p \notin Machines
    BY <1>4, TreeAssumption
  <2>2. PICK i \in DOMAIN Regions[p] : Regions[p][i] = n
    BY <1>1, <1>4, InPlace
  <2>3. PICK j \in DOMAIN Regions[p] : Regions[p][j] = s
    BY <1>3, <1>4, InPlace
  <2>4. /\ Place(p, n) = i
        /\ Place(p, s) = j
        /\ i \in Nat /\ j \in Nat
    BY <1>4, <2>2, <2>3, Placed, RegionsSeq
  <2>5. Emptied(F, p)
    <3>1. ~Moving(F, p)
      BY <1>1, <1>2, <2>1, KindsOf DEF Moving
    <3>2. QED
      BY <1>1, <1>2, <3>1 DEF Left, n
  <2>6. entered[s] = 1 <=> Leaving(F, s)
    <3>1. Ruled(F, current, entered, s)
      BY <1>2, <1>3 DEF Entries
    <3>2. ~Inhabits(F, current, entered, s)
      BY <1>3, <2>5 DEF Inhabits
    <3>3. QED
      BY <3>1, <3>2 DEF Ruled
  <2>7. Leaving(F, s) <=> j <= i
    <3>1. j < i => Leaving(F, s)
      BY <1>2, <1>4, <2>2, <2>3, <2>4 DEF Following, n
    <3>2. i = j => Leaving(F, s)
      BY <1>2, <2>2, <2>3 DEF Leaving, n
    <3>3. ASSUME Leaving(F, s), i < j PROVE FALSE
      <4>1. PICK g \in F : Exits(g) /\ g.of = s
        BY <3>3 DEF Leaving
      <4>2. s # n
        BY <1>4, <2>2, <2>3, <2>4, <3>3, PlaceOf
      <4>3. g \in T /\ InOrder(h, g)
        BY <1>1, <4>1, <4>2 DEF Apart, n
      <4>4. i > j
        BY <1>2, <1>4, <2>2, <2>3, <4>1, <4>3 DEF InOrder, n
      <4>5. QED
        BY <2>4, <3>3, <4>4
    <3>4. QED
      BY <2>4, <3>1, <3>2, <3>3
  <2>8. QED
    BY <2>4, <2>6, <2>7
<1>5. QED
  BY <1>1, <1>4 DEF LeavesInOrder, Place, h

\* What a step may do to the entries.
EntersOrLeavesInOrder ==
    failed' \/ \A n \in Tracked :
        /\ entered'[n] > entered[n] => EntersInOrder(n)
        /\ entered'[n] < entered[n] => LeavesInOrder(n)

\* No other step changes the entries, until something throws.
LEMMA StepOrder ==
  ASSUME TypeOK, StackInv, EntryInv, [Next]_vars
  PROVE  EntersOrLeavesInOrder
<1> SUFFICES ASSUME ~failed', NEW n \in Tracked
             PROVE  /\ entered'[n] > entered[n] => EntersInOrder(n)
                    /\ entered'[n] < entered[n] => LeavesInOrder(n)
  BY DEF EntersOrLeavesInOrder
<1>1. ~failed /\ entered \in [States -> Int] /\ n \in States /\ entered[n] \in Int
  BY StaysFailed DEF TypeOK, Tracked
<1>2. entered' = entered \/ RunHandler
  BY DEF Next, Step, Receive, Dispatch, NextRegion, NoMoreRows, TestRow, TestInternalRow, Settle,
         CheckDefault, GiveAnswer, ExitOrEnter, ClearSource, CompleteTransition, LeaveTry,
         HandlerThrows, GuardThrows, ThrowNow, Escape, Catch, Stuck, vars, history
<1>3. CASE entered' = entered
  BY <1>1, <1>3
<1>4. CASE RunHandler
  <2> DEFINE h == Head(todo)
  <2>1. todo # <<>> /\ h.op = "call" /\ entered' = Counted(h)
    BY <1>4 DEF RunHandler, Doing
  <2>2. CASE h.kind = "enter" /\ h.of = n
    <3>1. entered'[n] = entered[n] + 1
      BY <1>1, <2>1, <2>2 DEF Counted
    <3>2. EntersInOrder(n)
      BY <1>1, <2>1, <2>2, EntersOrdered DEF FirstEntry
    <3>3. QED
      BY <1>1, <3>1, <3>2
  <2>3. CASE h.kind = "exit" /\ h.of = n
    <3>1. entered'[n] = entered[n] - 1
      BY <1>1, <2>1, <2>3 DEF Counted
    <3>2. LeavesInOrder(n)
      BY <1>1, <2>1, <2>3, LeavesOrdered DEF LastExit
    <3>3. QED
      BY <1>1, <3>1, <3>2
  <2>4. CASE h.kind \notin {"enter", "exit"} \/ h.of # n
    <3>1. entered'[n] = entered[n]
      BY <1>1, <2>1, <2>4 DEF Counted
    <3>2. QED
      BY <1>1, <3>1
  <2>5. QED
    BY <2>2, <2>3, <2>4
<1>5. QED
  BY <1>2, <1>3, <1>4

\* A state is entered after the machine around it and after the regions before
\* it, when no other state of its table is; it is left after all that is inside
\* it and after the later regions: in every tree, however transitions nest,
\* until something throws (make_transition, regions_stack::enter and exit).
THEOREM EntriesInOrder == Spec => EntryOrder
<1>1. TypeOK /\ StackInv /\ EntryInv /\ [Next]_vars => [EntersOrLeavesInOrder]_vars
  BY StepOrder
<1>2. Spec => [][EntersOrLeavesInOrder]_vars
  BY <1>1, EntryInvariant, PTL DEF Spec
<1>3. QED
  BY <1>2 DEF EntryOrder, EntersOrLeavesInOrder

-----------------------------------------------------------------------------
(* What is inactive is as new *)

\* A handler writes to what it is called with: its state and the machine around
\* it, and by that those further out; an action the two states of its row as well.
\* (get_state of a machine is public, so other handlers can be written.)
WritesInPlace ==
    \A h \in Handlers :
        Writes(h) \subseteq Up[h[2]] \cup
            IF h[1] = "action" THEN {Table[h[2]][h[3]].from, Table[h[2]][h[3]].to} ELSE {}

\* The calls that come to handlers of a state itself, other than its entry and
\* exit; and all that come to any of it or of what is inside it.
Later(f) == f.op = "internal" \/ (f.op = "call" /\ f.kind \in {"action", "internal"})
Makes(f) == Keyed(f) \/ Later(f)

\* None of the former is left behind by an entry, an exit or a dispatch inside
\* which it would be.
Spares(f, g) == Works(f) /\ Later(g) => g.of \notin Reach(f)
InTurns(s) == \A i, j \in DOMAIN s : i < j => Spares(s[i], s[j])

\* An action is followed by the entry of its target and the clearing of its source.
Awaits(s, j, name, n) == \E k \in DOMAIN s : k > j /\ s[k].op = name /\ s[k].of = n
Acts(f) == f.op = "call" /\ f.kind = "action"
Completed(s) ==
    \A j \in DOMAIN s : Acts(s[j]) =>
        /\ Awaits(s, j, "enter", Table[s[j].of][s[j].row].to)
        /\ Awaits(s, j, "clear", Table[s[j].of][s[j].row].from)

\* The state is entered, or will be; so is everything around a call.
Here(F, e, a) == e[a] = 1 \/ Entering(F, a)
Housed(F, f, e) ==
    Makes(f) => \A a \in Up[f.of] \cap Tracked : a # f.of \/ Later(f) => Here(F, e, a)

\* Data that has been changed is that of a state which is entered or will be, or
\* which will be cleared.
Claimed(F, e, d) == \A n \in d : Firm(n) => Here(F, e, n) \/ Clearing(F, n)

DataInv ==
    \/ failed
    \/ /\ InTurns(todo) /\ Completed(todo)
       /\ \A f \in ToSet(todo) : Housed(ToSet(todo), f, entered)
       /\ Claimed(ToSet(todo), entered, dirty)

\* Two stacks, one put on the other.
LEMMA InTurnsConcat ==
  ASSUME NEW s \in Seq(Frame), NEW t \in Seq(Frame), InTurns(s), InTurns(t),
         \A f \in ToSet(s), g \in ToSet(t) : Spares(f, g)
  PROVE  InTurns(s \o t)
<1> DEFINE n == Len(s)
           st == s \o t
<1>1. /\ n \in Nat /\ DOMAIN s = 1..n /\ Len(t) \in Nat /\ DOMAIN t = 1..Len(t)
      /\ st \in Seq(Frame) /\ DOMAIN st = 1..(n + Len(t))
      /\ \A i \in 1..n : st[i] = s[i]
      /\ \A i \in (n + 1)..(n + Len(t)) : st[i] = t[i - n]
  OBVIOUS
<1> HIDE DEF n, st
<1>2. ASSUME NEW i \in DOMAIN st, NEW j \in DOMAIN st, i < j
      PROVE  Spares(st[i], st[j])
  <2>1. CASE j <= n
    <3>1. i \in DOMAIN s /\ j \in DOMAIN s /\ st[i] = s[i] /\ st[j] = s[j]
      BY <1>1, <1>2, <2>1
    <3>2. QED
      BY <1>2, <3>1 DEF InTurns
  <2>2. CASE i > n
    <3>1. /\ i - n \in DOMAIN t /\ j - n \in DOMAIN t /\ i - n < j - n
          /\ st[i] = t[i - n] /\ st[j] = t[j - n]
      BY <1>1, <1>2, <2>2
    <3>2. QED
      BY <3>1 DEF InTurns
  <2>3. CASE i <= n /\ j > n
    <3>1. i \in DOMAIN s /\ j - n \in DOMAIN t /\ st[i] = s[i] /\ st[j] = t[j - n]
      BY <1>1, <1>2, <2>3
    <3>2. st[i] \in ToSet(s) /\ st[j] \in ToSet(t)
      BY <3>1 DEF ToSet
    <3>3. QED
      BY <3>2
  <2>4. QED
    BY <1>1, <1>2, <2>1, <2>2, <2>3
<1>3. QED
  BY <1>2 DEF InTurns, st

LEMMA CompletedConcat ==
  ASSUME NEW s \in Seq(Frame), NEW t \in Seq(Frame), Completed(s), Completed(t)
  PROVE  Completed(s \o t)
<1> DEFINE n == Len(s)
           st == s \o t
<1>1. /\ n \in Nat /\ DOMAIN s = 1..n /\ Len(t) \in Nat /\ DOMAIN t = 1..Len(t)
      /\ st \in Seq(Frame) /\ DOMAIN st = 1..(n + Len(t))
      /\ \A i \in 1..n : st[i] = s[i]
      /\ \A i \in 1..Len(t) : st[i + n] = t[i]
      /\ \A i \in (n + 1)..(n + Len(t)) : st[i] = t[i - n]
  OBVIOUS
<1> HIDE DEF n, st
<1>2. ASSUME NEW j \in DOMAIN s, NEW name, NEW u, Awaits(s, j, name, u)
      PROVE  Awaits(st, j, name, u)
  <2>1. PICK k \in DOMAIN s : k > j /\ s[k].op = name /\ s[k].of = u
    BY <1>2 DEF Awaits
  <2>2. k \in DOMAIN st /\ st[k] = s[k]
    BY <1>1
  <2>3. QED
    BY <2>1, <2>2 DEF Awaits
<1>3. ASSUME NEW j \in DOMAIN t, NEW name, NEW u, Awaits(t, j, name, u)
      PROVE  Awaits(st, j + n, name, u)
  <2>1. PICK k \in DOMAIN t : k > j /\ t[k].op = name /\ t[k].of = u
    BY <1>3 DEF Awaits
  <2>2. k + n \in DOMAIN st /\ st[k + n] = t[k] /\ k + n > j + n
    BY <1>1, <2>1
  <2>3. QED
    BY <2>1, <2>2 DEF Awaits
<1>4. ASSUME NEW j \in DOMAIN st, Acts(st[j])
      PROVE  /\ Awaits(st, j, "enter", Table[st[j].of][st[j].row].to)
             /\ Awaits(st, j, "clear", Table[st[j].of][st[j].row].from)
  <2>1. CASE j <= n
    <3>1. j \in DOMAIN s /\ st[j] = s[j]
      BY <1>1, <2>1
    <3>2. QED
      BY <1>2, <1>4, <3>1 DEF Completed
  <2>2. CASE j > n
    <3>1. j - n \in DOMAIN t /\ st[j] = t[j - n] /\ (j - n) + n = j
      BY <1>1, <2>2
    <3>2. /\ Awaits(t, j - n, "enter", Table[st[j].of][st[j].row].to)
          /\ Awaits(t, j - n, "clear", Table[st[j].of][st[j].row].from)
      BY <1>4, <3>1 DEF Completed
    <3>3. /\ Awaits(st, (j - n) + n, "enter", Table[st[j].of][st[j].row].to)
          /\ Awaits(st, (j - n) + n, "clear", Table[st[j].of][st[j].row].from)
      BY <1>3, <3>1, <3>2
    <3>4. QED
      BY <3>1, <3>3
  <2>3. QED
    BY <1>1, <2>1, <2>2
<1>5. QED
  BY <1>4 DEF Completed, st

\* The rest of a stack, and what the first call and the rest say of each other.
LEMMA DataTail ==
  ASSUME NEW s \in Seq(Frame), s # <<>>, InTurns(s), Completed(s)
  PROVE  /\ InTurns(Tail(s)) /\ Completed(Tail(s))
         /\ \A g \in ToSet(Tail(s)) : Spares(Head(s), g)
         /\ Acts(Head(s)) =>
              /\ \E g \in ToSet(Tail(s)) :
                    g.op = "enter" /\ g.of = Table[Head(s).of][Head(s).row].to
              /\ \E g \in ToSet(Tail(s)) :
                    g.op = "clear" /\ g.of = Table[Head(s).of][Head(s).row].from
<1> DEFINE t == Tail(s)
<1>1. /\ Head(s) = s[1] /\ 1 \in DOMAIN s /\ t \in Seq(Frame) /\ DOMAIN t \subseteq Nat \ {0}
      /\ DOMAIN s \subseteq Nat \ {0}
      /\ \A i \in DOMAIN t : i + 1 \in DOMAIN s /\ t[i] = s[i + 1]
      /\ \A k \in DOMAIN s : k > 1 => k - 1 \in DOMAIN t /\ t[k - 1] = s[k]
  <2>1. /\ Len(s) \in Nat \ {0} /\ Len(t) = Len(s) - 1 /\ DOMAIN s = 1..Len(s) /\ t \in Seq(Frame)
        /\ DOMAIN t = 1..Len(t)
    BY TailFacts
  <2>2. \A k \in 1..Len(s) : k > 1 => k - 1 \in 1..Len(t) /\ (k - 1) + 1 = k
    BY <2>1
  <2> HIDE DEF t
  <2>3. QED
    BY <2>1, <2>2, TailFacts DEF t
<1> HIDE DEF t
<1>2. ASSUME NEW i \in DOMAIN t, NEW j \in DOMAIN t, i < j PROVE Spares(t[i], t[j])
  <2>1. i + 1 < j + 1
    BY <1>1, <1>2
  <2>2. QED
    BY <1>1, <2>1 DEF InTurns
<1>3. ASSUME NEW g \in ToSet(t) PROVE Spares(s[1], g)
  <2>1. PICK j \in DOMAIN t : g = t[j]
    BY DEF ToSet
  <2>2. 1 < j + 1
    BY <1>1
  <2>3. QED
    BY <1>1, <2>1, <2>2 DEF InTurns
<1>4. ASSUME NEW j \in DOMAIN s, NEW name, NEW u, Awaits(s, j, name, u)
      PROVE  Awaits(t, j - 1, name, u)
  <2>1. PICK k \in DOMAIN s : k > j /\ s[k].op = name /\ s[k].of = u
    BY <1>4 DEF Awaits
  <2>2. k - 1 \in DOMAIN t /\ t[k - 1] = s[k] /\ k - 1 > j - 1
    BY <1>1, <2>1
  <2>3. QED
    BY <2>1, <2>2 DEF Awaits
<1>5. ASSUME NEW j \in DOMAIN t, Acts(t[j])
      PROVE  /\ Awaits(t, j, "enter", Table[t[j].of][t[j].row].to)
             /\ Awaits(t, j, "clear", Table[t[j].of][t[j].row].from)
  <2>1. j + 1 \in DOMAIN s /\ t[j] = s[j + 1] /\ (j + 1) - 1 = j
    BY <1>1
  <2>2. /\ Awaits(s, j + 1, "enter", Table[t[j].of][t[j].row].to)
        /\ Awaits(s, j + 1, "clear", Table[t[j].of][t[j].row].from)
    BY <1>5, <2>1 DEF Completed
  <2>3. /\ Awaits(t, (j + 1) - 1, "enter", Table[t[j].of][t[j].row].to)
        /\ Awaits(t, (j + 1) - 1, "clear", Table[t[j].of][t[j].row].from)
    BY <1>4, <2>1, <2>2
  <2>4. QED
    BY <2>1, <2>3
<1>6. ASSUME Acts(s[1])
      PROVE  /\ \E g \in ToSet(t) : g.op = "enter" /\ g.of = Table[s[1].of][s[1].row].to
             /\ \E g \in ToSet(t) : g.op = "clear" /\ g.of = Table[s[1].of][s[1].row].from
  <2>1. \A k \in DOMAIN t : t[k] \in ToSet(t)
    BY DEF ToSet
  <2>2. /\ Awaits(s, 1, "enter", Table[s[1].of][s[1].row].to)
        /\ Awaits(s, 1, "clear", Table[s[1].of][s[1].row].from)
    BY <1>1, <1>6 DEF Completed
  <2>3. QED
    BY <1>1, <2>1, <2>2 DEF Awaits
<1>7. QED
  BY <1>1, <1>2, <1>3, <1>5, <1>6 DEF InTurns, Completed, t

\* The calls of a step, as a set, when none of them would make another one later
\* inside it; and when none is an action.
LEMMA InTurnsAll ==
  ASSUME NEW s, \A f, g \in ToSet(s) : Spares(f, g)
  PROVE  InTurns(s)
  BY DEF InTurns, ToSet

LEMMA CompletedWithout ==
  ASSUME NEW s, \A f \in ToSet(s) : ~Acts(f)
  PROVE  Completed(s)
  BY DEF Completed, ToSet

\* The first call and the others.
LEMMA DataFirst ==
  ASSUME TypeOK, EntryInv, DataInv, ~failed, todo # <<>>
  PROVE  LET h == Head(todo)
             T == ToSet(Tail(todo))
         IN
         /\ InTurns(Tail(todo)) /\ Completed(Tail(todo)) /\ \A g \in T : Spares(h, g)
         /\ Acts(h) =>
              /\ \E g \in T : g.op = "enter" /\ g.of = Table[h.of][h.row].to
              /\ \E g \in T : g.op = "clear" /\ g.of = Table[h.of][h.row].from
         /\ \A f \in {h} \cup T : Housed({h} \cup T, f, entered)
         /\ Claimed({h} \cup T, entered, dirty)
<1>1. /\ todo \in Seq(Frame) /\ ToSet(todo) = {Head(todo)} \cup ToSet(Tail(todo))
      /\ InTurns(todo) /\ Completed(todo)
      /\ \A f \in ToSet(todo) : Housed(ToSet(todo), f, entered)
      /\ Claimed(ToSet(todo), entered, dirty)
  BY FirstAndRest DEF DataInv
<1>2. /\ InTurns(Tail(todo)) /\ Completed(Tail(todo)) /\ \A g \in ToSet(Tail(todo)) : Spares(Head(todo), g)
      /\ Acts(Head(todo)) =>
           /\ \E g \in ToSet(Tail(todo)) :
                 g.op = "enter" /\ g.of = Table[Head(todo).of][Head(todo).row].to
           /\ \E g \in ToSet(Tail(todo)) :
                 g.op = "clear" /\ g.of = Table[Head(todo).of][Head(todo).row].from
  BY <1>1, DataTail
<1>3. QED
  BY <1>1, <1>2

\* A call of f instead of h, in the state of h or immediately inside it, needs
\* only h's state to be entered, or to be about to be, besides what h needs.
Replaces(F, h, f, e) ==
    /\ Works(f) => Works(h) /\ Reach(f) \subseteq Reach(h)
    /\ Makes(f) =>
          /\ Makes(h) /\ h.of \in States
          /\ f.of = h.of \/ (f.of \in Children(h.of) /\ ~Later(f))
          /\ (f.of = h.of /\ ~Later(f)) \/ Later(h) \/ (h.of \in Tracked => Here(F, e, h.of))

\* A step that makes further calls, and changes no data.
LEMMA DataDo ==
  ASSUME TypeOK, EntryInv, DataInv, ~failed, todo # <<>>, NEW ops \in Seq(Frame), Do(ops),
         Completed(ops), \A f, g \in ToSet(ops) : Spares(f, g),
         \A f \in ToSet(ops) :
             Replaces(ToSet(ops) \cup ToSet(Tail(todo)), Head(todo), f, entered),
         Enters(Head(todo)) => Entering(ToSet(ops), Head(todo).of), Head(todo).op # "clear",
         UNCHANGED <<dirty, entered, failed>>
  PROVE  DataInv'
<1> DEFINE h == Head(todo)
           T == ToSet(Tail(todo))
           B == ToSet(ops)
           F == {h} \cup T
           G == B \cup T
<1>1. /\ InTurns(Tail(todo)) /\ Completed(Tail(todo)) /\ \A g \in T : Spares(h, g)
      /\ \A f \in F : Housed(F, f, entered)
      /\ Claimed(F, entered, dirty)
  BY DataFirst
<1>2. Tail(todo) \in Seq(Frame)
  BY FirstAndRest
<1>3. todo' = ops \o Tail(todo) /\ ToSet(todo') = G
  BY <1>2, ConcatFacts DEF Do
<1>4. InTurns(todo') /\ Completed(todo')
  <2>1. InTurns(ops)
    BY InTurnsAll
  <2>2. \A f \in B, g \in T : Spares(f, g)
    BY <1>1 DEF Spares, Replaces
  <2>3. QED
    BY <1>1, <1>2, <1>3, <2>1, <2>2, InTurnsConcat, CompletedConcat
<1>5. ASSUME NEW a, Here(F, entered, a) PROVE Here(G, entered, a)
  BY <1>5, Presence DEF Here, Entering
<1>6. ASSUME NEW m, Clearing(F, m) PROVE Clearing(G, m)
  BY <1>6 DEF Clearing
<1>7. \A f \in B : Replaces(G, h, f, entered)
  OBVIOUS
<1> HIDE DEF h, T, B, F, G
<1>8. Claimed(G, entered, dirty)
  BY <1>1, <1>5, <1>6 DEF Claimed
<1>9. ASSUME NEW f \in T PROVE Housed(G, f, entered)
  BY <1>1, <1>5, <1>9 DEF Housed, F
<1>10. ASSUME NEW f \in B PROVE Housed(G, f, entered)
  <2> SUFFICES ASSUME Makes(f), NEW a \in Up[f.of] \cap Tracked, a # f.of \/ Later(f)
               PROVE  Here(G, entered, a)
    BY DEF Housed
  <2>1. /\ Makes(h) /\ h.of \in States
        /\ f.of = h.of \/ (f.of \in Children(h.of) /\ ~Later(f))
        /\ (f.of = h.of /\ ~Later(f)) \/ Later(h) \/ (h.of \in Tracked => Here(G, entered, h.of))
    BY <1>7 DEF Replaces
  <2>2. a \in Up[h.of]
    <3>1. CASE f.of \in Children(h.of) /\ ~Later(f)
      <4>1. f.of \in DOMAIN Parent /\ Parent[f.of] = h.of
        BY <3>1 DEF Children
      <4>2. Up[f.of] = {f.of} \cup Up[h.of]
        BY <4>1, UpStep
      <4>3. QED
        BY <3>1, <4>2
    <3>2. QED
      BY <2>1, <3>1
  <2>3. CASE a # h.of \/ Later(h)
    <3>1. Here(F, entered, a)
      BY <1>1, <2>1, <2>2, <2>3 DEF Housed, F
    <3>2. QED
      BY <1>5, <3>1
  <2>4. CASE a = h.of /\ ~Later(h)
    BY <2>1, <2>4
  <2>5. QED
    BY <2>3, <2>4
<1>11. \A f \in G : Housed(G, f, entered)
  BY <1>9, <1>10 DEF G
<1>12. /\ \A f \in ToSet(todo') : Housed(ToSet(todo'), f, entered')
       /\ Claimed(ToSet(todo'), entered', dirty')
  BY <1>3, <1>8, <1>11
<1>13. QED
  BY <1>4, <1>12 DEF DataInv

\* The ends of calls.
LEMMA DataEnd ==
  ASSUME TypeOK, EntryInv, DataInv, ~failed, todo # <<>>, Do(<<>>),
         ~Enters(Head(todo)), Head(todo).op # "clear", UNCHANGED <<dirty, entered, failed>>
  PROVE  DataInv'
<1>1. <<>> \in Seq(Frame) /\ ToSet(<<>>) = {}
  BY PairwiseNone
<1>2. Completed(<<>>)
  BY <1>1, CompletedWithout
<1>3. QED
  BY <1>1, <1>2, DataDo

\* The state of a call that dispatches is entered, but for a default transition
\* to which the entry of its machine leads: then it will be.
LEMMA SpawnHoused ==
  ASSUME TypeOK, EntryInv, ~failed, todo # <<>>, Spawns(Head(todo)), Head(todo).of \in Tracked,
         NEW B
  PROVE  Here(B \cup ToSet(Tail(todo)), entered, Head(todo).of)
<1> DEFINE h == Head(todo)
           T == ToSet(Tail(todo))
<1>1. Opened({h} \cup T, h, entered) /\ ~Enters(h)
  BY FirstAndRest, SpawnsQuiet DEF Accountable
<1> HIDE DEF h, T
<1>2. CASE h.op = "default"
  <2>1. Opening({h} \cup T, h.of) => Entering(T, h.of)
    BY <1>1 DEF Opening, Entering, FirstEntry, Enters
  <2>2. Entering(T, h.of) => Entering(B \cup T, h.of)
    BY DEF Entering
  <2>3. QED
    BY <1>1, <1>2, <2>1, <2>2 DEF Opened, Here, h, T
<1>3. CASE h.op # "default"
  BY <1>1, <1>3 DEF Opened, Here, Spawns, h
<1>4. QED
  BY <1>2, <1>3

\* A step of a call that dispatches: what is made by it is made in the same state
\* or immediately inside it.
LEMMA DataSpawn ==
  ASSUME TypeOK, EntryInv, DataInv, ~failed, todo # <<>>, NEW ops \in Seq(Frame), Do(ops),
         Spawns(Head(todo)), Head(todo).of \in States,
         Completed(ops), \A f, g \in ToSet(ops) : Spares(f, g),
         \A f \in ToSet(ops) :
             /\ Works(f) => Reach(f) \subseteq Reach(Head(todo))
             /\ Makes(f) => f.of = Head(todo).of \/ (f.of \in Children(Head(todo).of) /\ ~Later(f)),
         UNCHANGED <<dirty, entered, failed>>
  PROVE  DataInv'
<1> DEFINE h == Head(todo)
           T == ToSet(Tail(todo))
<1>1. Works(h) /\ Makes(h) /\ ~Enters(h) /\ h.op # "clear"
  BY SpawnsQuiet DEF Makes
<1>2. h.of \in Tracked => Here(ToSet(ops) \cup T, entered, h.of)
  BY SpawnHoused
<1>3. \A f \in ToSet(ops) : Replaces(ToSet(ops) \cup T, h, f, entered)
  BY <1>1, <1>2 DEF Replaces
<1>4. QED
  BY <1>1, <1>3, DataDo

\* Calls of a dispatch, in turn.
LEMMA DispatchData ==
  ASSUME TypeOK, StackInv, EntryInv, DataInv, ~failed, Dispatch
  PROVE  DataInv'
<1> DEFINE h == Head(todo)
           n == h.of
<1>1. /\ todo # <<>> /\ h.op = "dispatch" /\ h \in Frame
      /\ UNCHANGED <<dirty, entered, failed>>
  BY FirstAndRest DEF Dispatch, Doing, tree, history
<1>2. n \in States /\ event \in Events /\ Spawns(h) /\ Reach(h) = Below(n) /\ n \in Below(n)
  BY <1>1, FirstCall, FrameFields, UpSelf DEF OpNames, Spawns, Reach
<1>3. ~Enters(h)
  BY <1>2, SpawnsQuiet
<1>4. CASE Do(<<>>)
  BY <1>1, <1>3, <1>4, DataEnd
<1>5. ASSUME NEW ops \in Seq(Frame), Do(ops),
             \A f \in ToSet(ops) :
                 \/ f.op = "dispatch" /\ f.of \in Children(n)
                 \/ f.op \in {"rows", "settle", "region", "internal"} /\ f.of = n
      PROVE  DataInv'
  <2>1. \A f \in ToSet(ops) :
            /\ Works(f) => Reach(f) \subseteq Below(n) /\ n \notin Reach(f)
            /\ Makes(f) => f.of = n \/ (f.of \in Children(n) /\ ~Later(f))
            /\ Later(f) => f.of = n
            /\ ~Acts(f)
    <3> SUFFICES ASSUME NEW f \in ToSet(ops)
                 PROVE  /\ Works(f) => Reach(f) \subseteq Below(n) /\ n \notin Reach(f)
                        /\ Makes(f) => f.of = n \/ (f.of \in Children(n) /\ ~Later(f))
                        /\ Later(f) => f.of = n
                        /\ ~Acts(f)
      OBVIOUS
    <3> HIDE DEF n
    <3>1. CASE f.op = "dispatch" /\ f.of \in Children(n)
      <4>1. Below(f.of) \subseteq Below(n) \ {n}
        BY <1>2, <3>1, BelowChild
      <4>2. QED
        BY <3>1, <4>1 DEF Reach, Later, Acts
    <3>2. CASE f.op \in {"rows", "settle", "region", "internal"} /\ f.of = n
      BY <3>2 DEF Reach, Exits, Works, Spawns, Acts
    <3>3. QED
      BY <1>5, <3>1, <3>2
  <2>2. Completed(ops)
    BY <2>1, CompletedWithout
  <2>3. \A f, g \in ToSet(ops) : Spares(f, g)
    BY <2>1 DEF Spares
  <2>4. QED
    BY <1>1, <1>2, <1>5, <2>1, <2>2, <2>3, DataSpawn
<1>6. CASE n \in Machines /\ Do(MachineDispatch(n))
  <2> DEFINE a == Op("dispatch", current[n], event)
             b == Rows(n, event, 1)
             d == Op("settle", n, None)
             i == InternalRows(n, 1)
             ops == <<a, b, d, i>>
  <2>1. current[n] \in Children(n) /\ current[n] \in States
    BY <1>6 DEF TypeOK
  <2>2. /\ a \in Frame /\ a.op = "dispatch" /\ a.of = current[n]
        /\ b \in Frame /\ b.op = "rows" /\ b.of = n
        /\ d \in Frame /\ d.op = "settle" /\ d.of = n
        /\ i \in Frame /\ i.op = "internal" /\ i.of = n
    BY <1>2, <1>6, <2>1, OpFrame, RowsFrame, InternalFrame DEF OpNames
  <2>3. MachineDispatch(n) = ops
    BY DEF MachineDispatch
  <2> HIDE DEF a, b, d, i
  <2>4. ops \in Seq(Frame) /\ ToSet(ops) = {a, b, d, i}
    <3>1. ops \in Seq(Frame) /\ DOMAIN ops = {1, 2, 3, 4}
          /\ ops[1] = a /\ ops[2] = b /\ ops[3] = d /\ ops[4] = i
      BY <2>2
    <3> HIDE DEF ops
    <3>2. QED
      BY <3>1 DEF ToSet
  <2> HIDE DEF ops
  <2>5. QED
    BY <1>5, <1>6, <2>1, <2>2, <2>3, <2>4
<1>7. CASE n \in Orthogonal /\ Do(RegionsDispatch(n))
  <2> DEFINE b == Region(n, 1, "refuse")
             i == InternalRows(n, 1)
             ops == <<b, i>>
  <2>1. /\ b \in Frame /\ b.op = "region" /\ b.of = n
        /\ i \in Frame /\ i.op = "internal" /\ i.of = n
    BY <1>2, <1>7, RegionFrame, InternalFrame DEF Answers
  <2>2. RegionsDispatch(n) = ops
    BY DEF RegionsDispatch
  <2> HIDE DEF b, i
  <2>3. ops \in Seq(Frame) /\ ToSet(ops) = {b, i}
    BY <2>1, ToSetTwo
  <2> HIDE DEF ops
  <2>4. QED
    BY <1>5, <1>7, <2>1, <2>2, <2>3
<1>8. CASE Do(StateDispatch(n))
  <2> DEFINE i == InternalRows(n, 1)
  <2>1. i \in Frame /\ i.op = "internal" /\ i.of = n
    BY <1>2, InternalFrame
  <2>2. StateDispatch(n) = <<i>>
    BY DEF StateDispatch
  <2> HIDE DEF i
  <2>3. <<i>> \in Seq(Frame) /\ ToSet(<<i>>) = {i}
    BY <2>1, PairwiseOne
  <2>4. QED
    BY <1>5, <1>8, <2>1, <2>2, <2>3
<1>9. \/ Do(<<>>) \/ (n \in Machines /\ Do(MachineDispatch(n)))
      \/ (n \in Orthogonal /\ Do(RegionsDispatch(n))) \/ Do(StateDispatch(n))
  BY DEF Dispatch, DispatchTo, Return
<1>10. QED
  BY <1>4, <1>6, <1>7, <1>8, <1>9

LEMMA NextRegionData ==
  ASSUME TypeOK, StackInv, EntryInv, DataInv, ~failed, NextRegion
  PROVE  DataInv'
<1> DEFINE h == Head(todo)
           n == h.of
           k == h.row
           best == Better(h.best, res)
<1>1. /\ todo # <<>> /\ h.op = "region" /\ h \in Frame
      /\ UNCHANGED <<dirty, entered, failed>>
  BY FirstAndRest DEF NextRegion, Doing, tree, history
<1>2. n \in Orthogonal /\ n \in States /\ k \in Nat /\ event \in Events /\ k >= 1
      /\ h.best \in Answers /\ res \in Answers
  BY <1>1, FirstCall, FrameFields, TreeAssumption DEF Fits, FitsDispatch
<1>3. Spawns(h) /\ ~Enters(h) /\ Reach(h) = Below(n) \ {n}
  BY <1>1, SpawnsQuiet DEF Spawns, Reach, Exits
<1>4. CASE k > Len(Regions[n])
  <2>1. Do(<<>>)
    BY <1>4 DEF NextRegion, Return
  <2>2. QED
    BY <1>1, <1>3, <2>1, DataEnd
<1>5. CASE ~(k > Len(Regions[n]))
  <2> DEFINE r == Regions[n][k]
             a == Op("dispatch", r, event)
             b == Region(n, k + 1, best)
  <2>1. Do(<<a, b>>)
    BY <1>5 DEF NextRegion
  <2>2. r \in Children(n) /\ r \in States
    BY <1>2, <1>5, RegionsOf
  <2>3. best \in Answers
    BY <1>2 DEF Better
  <2>4. /\ a \in Frame /\ a.op = "dispatch" /\ a.of = r
        /\ b \in Frame /\ b.op = "region" /\ b.of = n
    BY <1>2, <2>2, <2>3, OpFrame, RegionFrame DEF OpNames
  <2> HIDE DEF a, b
  <2>5. ~Later(a) /\ ~Later(b) /\ ~Acts(a) /\ ~Acts(b)
    BY <2>4 DEF Later, Acts
  <2>6. Below(r) \subseteq Below(n) \ {n} /\ Reach(a) = Below(r) /\ Reach(b) = Below(n) \ {n}
    BY <1>2, <2>2, <2>4, BelowChild DEF Reach, Exits
  <2>7. <<a, b>> \in Seq(Frame) /\ ToSet(<<a, b>>) = {a, b}
    BY <2>4, ToSetTwo
  <2>8. Completed(<<a, b>>) /\ \A f, g \in {a, b} : Spares(f, g)
    BY <2>5, <2>7, CompletedWithout DEF Spares
  <2>9. QED
    BY <1>1, <1>2, <1>3, <2>1, <2>2, <2>4, <2>5, <2>6, <2>7, <2>8, DataSpawn
<1>6. QED
  BY <1>4, <1>5

LEMMA EndsData ==
  ASSUME TypeOK, EntryInv, DataInv, ~failed,
         NoMoreRows \/ GiveAnswer \/ LeaveTry \/ CompleteTransition
  PROVE  DataInv'
<1>1. todo # <<>> /\ Head(todo).op \in {"rows", "internal", "answer", "try", "set"} /\ Do(<<>>)
      /\ UNCHANGED <<dirty, entered, failed>>
  BY DEF NoMoreRows, GiveAnswer, LeaveTry, CompleteTransition, Return, Doing, tree, history
<1>2. ~Enters(Head(todo)) /\ Head(todo).op # "clear"
  BY <1>1 DEF Enters
<1>3. QED
  BY <1>1, <1>2, DataEnd

LEMMA TestInternalRowData ==
  ASSUME TypeOK, StackInv, EntryInv, DataInv, ~failed, TestInternalRow
  PROVE  DataInv'
<1> DEFINE h == Head(todo)
           n == h.of
           i == First(InternalCandidates(h))
<1>1. /\ todo # <<>> /\ h.op = "internal" /\ h \in Frame /\ InternalCandidates(h) # {}
      /\ UNCHANGED <<dirty, entered, failed>>
  BY FirstAndRest DEF TestInternalRow, Doing, tree, history
<1>2. n \in States /\ h.row >= 1 /\ event \in Events
  BY <1>1, FirstCall, FrameFields DEF Fits, FitsDispatch
<1>3. i \in Nat /\ i + 1 \in Nat
  BY <1>1, <1>2, FirstInternalCandidate
<1>4. ~Enters(h) /\ h.op # "clear" /\ Later(h) /\ Makes(h)
  BY <1>1 DEF Enters, Later, Makes
<1>5. ASSUME NEW ops \in Seq(Frame), Do(ops),
             \A f \in ToSet(ops) : ~Works(f) /\ ~Acts(f) /\ (Makes(f) => f.of = n)
      PROVE  DataInv'
  <2>1. Completed(ops) /\ \A f, g \in ToSet(ops) : Spares(f, g)
    BY <1>5, CompletedWithout DEF Spares
  <2>2. \A f \in ToSet(ops) : Replaces(ToSet(ops) \cup ToSet(Tail(todo)), h, f, entered)
    BY <1>2, <1>4, <1>5 DEF Replaces
  <2>3. QED
    BY <1>1, <1>4, <1>5, <2>1, <2>2, DataDo
<1>6. CASE Do(<<InternalRows(n, i + 1)>>)
  <2> DEFINE a == InternalRows(n, i + 1)
  <2>1. a \in Frame /\ a.op = "internal" /\ a.of = n
    BY <1>2, <1>3, InternalFrame
  <2>2. Do(<<a>>)
    BY <1>6
  <2> HIDE DEF a
  <2>3. ~Works(a) /\ ~Acts(a)
    BY <2>1, IdleFacts DEF Idle, Acts
  <2>4. <<a>> \in Seq(Frame) /\ ToSet(<<a>>) = {a}
    BY <2>1, PairwiseOne
  <2>5. QED
    BY <1>5, <2>1, <2>2, <2>3, <2>4
<1>7. CASE Do(<<Call("internal", n, i, event), Answer("in_state")>>)
  <2> DEFINE a == Call("internal", n, i, event)
             b == Answer("in_state")
  <2>1. a \in Frame /\ a.op = "call" /\ a.kind = "internal" /\ a.of = n /\ b \in Frame /\ b.op = "answer"
    BY <1>2, <1>3, CallFrame, AnswerFrame DEF Call, Answers
  <2>2. Do(<<a, b>>)
    BY <1>7
  <2> HIDE DEF a, b
  <2>3. ~Works(a) /\ ~Acts(a) /\ ~Works(b) /\ ~Acts(b) /\ ~Makes(b)
    BY <2>1 DEF Works, Spawns, Exits, Acts, Makes, Keyed, Enters, Later
  <2>4. <<a, b>> \in Seq(Frame) /\ ToSet(<<a, b>>) = {a, b}
    BY <2>1, ToSetTwo
  <2>5. QED
    BY <1>5, <2>1, <2>2, <2>3, <2>4
<1>8. QED
  BY <1>6, <1>7 DEF TestInternalRow

LEMMA SettleData ==
  ASSUME TypeOK, EntryInv, DataInv, ~failed, Settle
  PROVE  DataInv'
<1> DEFINE h == Head(todo)
           n == h.of
           a == Op("default", n, None)
           b == Answer("process")
<1>1. /\ todo # <<>> /\ h.op = "settle" /\ h \in Frame /\ UNCHANGED <<dirty, entered, failed>>
  BY FirstAndRest DEF Settle, Doing, tree, history
<1>2. n \in States
  BY <1>1, FrameFields DEF OpNames
<1>3. Spawns(h) /\ ~Enters(h) /\ Reach(h) = Below(n) \ {n}
  BY <1>1, SpawnsQuiet DEF Spawns, Reach, Exits
<1>4. a \in Frame /\ a.op = "default" /\ a.of = n /\ b \in Frame /\ b.op = "answer"
  BY <1>2, OpFrame, AnswerFrame DEF OpNames, Answers
<1>5. Do(<<a, b>>) \/ Do(<<>>)
  BY DEF Settle
<1> HIDE DEF a, b
<1>6. Reach(a) = Below(n) \ {n} /\ ~Works(b) /\ ~Makes(b) /\ ~Later(a) /\ ~Later(b)
      /\ ~Acts(a) /\ ~Acts(b)
  BY <1>4 DEF Reach, Works, Spawns, Exits, Acts, Makes, Keyed, Enters, Later
<1>7. CASE Do(<<a, b>>)
  <2>1. <<a, b>> \in Seq(Frame) /\ ToSet(<<a, b>>) = {a, b}
    BY <1>4, ToSetTwo
  <2>2. Completed(<<a, b>>) /\ \A f, g \in {a, b} : Spares(f, g)
    BY <1>6, <2>1, CompletedWithout DEF Spares
  <2>3. QED
    BY <1>1, <1>2, <1>3, <1>4, <1>6, <1>7, <2>1, <2>2, DataSpawn
<1>8. CASE Do(<<>>)
  BY <1>1, <1>3, <1>8, DataEnd
<1>9. QED
  BY <1>5, <1>7, <1>8

\* The rows of the machine that is asked.
LEMMA RowsData ==
  ASSUME TypeOK, EntryInv, DataInv, ~failed, todo # <<>>, Head(todo).op \in {"default", "rows"},
         Head(todo).of \in Machines, NEW e \in Events \cup {None}, NEW i \in Nat,
         Do(<<Rows(Head(todo).of, e, i)>>), UNCHANGED <<dirty, entered, failed>>
  PROVE  DataInv'
<1> DEFINE h == Head(todo)
           n == h.of
           a == Rows(n, e, i)
<1>1. n \in States /\ Spawns(h) /\ Reach(h) = Below(n) \ {n}
  BY TreeAssumption DEF Spawns, Reach, Exits
<1>2. Do(<<a>>) /\ n \in Machines /\ e \in Events \cup {None} /\ i \in Nat /\ a = Rows(n, e, i)
  OBVIOUS
<1>3. a \in Frame /\ a.op = "rows" /\ a.of = n
  <2> HIDE DEF n, a
  <2>1. QED
    BY <1>2, RowsFrame
<1> HIDE DEF a
<1>4. Reach(a) = Below(n) \ {n} /\ ~Later(a) /\ ~Acts(a)
  BY <1>3 DEF Reach, Exits, Acts, Later
<1>5. <<a>> \in Seq(Frame) /\ ToSet(<<a>>) = {a}
  BY <1>3, PairwiseOne
<1>6. Completed(<<a>>) /\ \A f, g \in {a} : Spares(f, g)
  BY <1>4, <1>5, CompletedWithout DEF Spares
<1>7. QED
  BY <1>1, <1>2, <1>3, <1>4, <1>5, <1>6, DataSpawn

LEMMA CheckDefaultData ==
  ASSUME TypeOK, StackInv, EntryInv, DataInv, ~failed, CheckDefault
  PROVE  DataInv'
<1>1. /\ todo # <<>> /\ Head(todo).op = "default" /\ Head(todo) \in Frame
      /\ Do(<<Rows(Head(todo).of, None, 1)>>) /\ UNCHANGED <<dirty, entered, failed>>
  BY FirstAndRest DEF CheckDefault, Doing, tree, history
<1>2. Head(todo).of \in Machines
  BY <1>1, FirstCall DEF Fits, FitsTransition
<1>3. QED
  BY <1>1, <1>2, RowsData

LEMMA TriedCalls ==
  ASSUME TypeOK, NEW m \in Machines, NEW e \in Events \cup {None}, NEW i \in Nat
  PROVE  Tried(m, e, i) \in Seq(Frame) /\ \A f \in ToSet(Tried(m, e, i)) : f.op = "try"
<1> DEFINE y == Try(m, e, i)
<1>1. y \in Frame /\ y.op = "try"
  BY DEF TypeOK, Try, Frame
<1> HIDE DEF y
<1>2. <<y>> \in Seq(Frame) /\ ToSet(<<y>>) = {y}
  BY <1>1, PairwiseOne
<1>3. <<>> \in Seq(Frame) /\ ToSet(<<>>) = {}
  BY PairwiseNone
<1>4. Tried(m, e, i) \in {<<>>, <<y>>}
  BY DEF Tried, y
<1>5. QED
  BY <1>1, <1>2, <1>3, <1>4

\* The action of a transition is called outside of what is left and entered.
LEMMA TransitionData ==
  ASSUME TypeOK, StackInv, EntryInv, DataInv, ~failed, todo # <<>>, Head(todo).op = "rows",
         NEW i \in DOMAIN Table[Head(todo).of], i \in Nat,
         Table[Head(todo).of][i].event = Kind(Head(todo).event),
         Do(Transition(Head(todo).of, Head(todo).event, i)),
         UNCHANGED <<dirty, entered, failed>>
  PROVE  DataInv'
<1> DEFINE h == Head(todo)
           m == h.of
           v == h.event
           s0 == Table[m][i].from
           t == Table[m][i].to
           x == Op("exit", s0, v)
           a == Call("action", m, i, v)
           n == Op("enter", t, v)
           k == Op("clear", s0, v)
           s == SetCurrent(m, t)
           five == <<x, a, n, k, s>>
           tried == Tried(m, v, i)
<1>1. h \in Frame /\ m \in Machines /\ m \in States /\ Spawns(h) /\ Reach(h) = Below(m) \ {m}
  BY FirstAndRest, FrameFields, TreeAssumption DEF Spawns, Reach, Exits
<1>2. /\ s0 \in Children(m) /\ t \in Children(m) /\ s0 \in States /\ t \in States
      /\ v \in Events \cup {None}
  <2>1. v \in Events \cup {None}
    BY <1>1, FrameFields
  <2>2. s0 \in Children(m) /\ t \in Children(m)
    BY <1>1, TableAssumption
  <2>3. QED
    BY <2>1, <2>2, ParentInTree DEF Children
<1>3. Below(s0) \subseteq Below(m) \ {m} /\ Below(t) \subseteq Below(m) \ {m}
  <2> HIDE DEF s0, t, m
  <2>1. QED
    BY <1>1, <1>2, BelowChild
<1>4. /\ x \in Frame /\ x.op = "exit" /\ x.of = s0
      /\ a \in Frame /\ a.op = "call" /\ a.kind = "action" /\ a.of = m /\ a.row = i
      /\ n \in Frame /\ n.op = "enter" /\ n.of = t
      /\ k \in Frame /\ k.op = "clear" /\ k.of = s0
      /\ s \in Frame /\ s.op = "set" /\ s.of = m
  <2> HIDE DEF s0, t, m, v
  <2>1. x \in Frame /\ x.op = "exit" /\ x.of = s0 /\ k \in Frame /\ k.op = "clear" /\ k.of = s0
    BY <1>2, OpFrame DEF OpNames
  <2>2. n \in Frame /\ n.op = "enter" /\ n.of = t
    BY <1>2, OpFrame DEF OpNames
  <2>3. a \in Frame /\ a.op = "call" /\ a.kind = "action" /\ a.of = m /\ a.row = i
    BY <1>1, <1>2, CallFrame DEF Call
  <2>4. s \in Frame /\ s.op = "set" /\ s.of = m
    BY <1>1, <1>2, SetFrame
  <2>5. QED
    BY <2>1, <2>2, <2>3, <2>4
<1>5. tried \in Seq(Frame) /\ \A f \in ToSet(tried) : f.op = "try"
  <2> HIDE DEF m, v
  <2>1. QED
    BY <1>1, <1>2, TriedCalls
<1>6. Do(five \o tried)
  BY DEF Transition
<1>7. /\ five \in Seq(Frame) /\ DOMAIN five = {1, 2, 3, 4, 5}
      /\ five[1] = x /\ five[2] = a /\ five[3] = n /\ five[4] = k /\ five[5] = s
  <2> HIDE DEF x, a, n, k, s
  <2>1. QED
    BY <1>4
<1> HIDE DEF h, m, v, x, a, n, k, s, five, tried
<1>8. ToSet(five) = {x, a, n, k, s}
  BY <1>7 DEF ToSet
<1>9. /\ \A f \in {x, n, k, s} : ~Later(f) /\ ~Acts(f)
      /\ \A f \in ToSet(tried) : ~Later(f) /\ ~Acts(f) /\ ~Works(f) /\ ~Makes(f)
      /\ ~Works(a) /\ ~Works(k) /\ ~Works(s) /\ ~Makes(k)
      /\ Reach(x) = Below(s0) /\ Reach(n) = Below(t)
  BY <1>4, <1>5 DEF Later, Acts, Works, Spawns, Exits, Makes, Keyed, Enters, Reach
<1>10. Completed(five)
  <2> SUFFICES ASSUME NEW j \in DOMAIN five, Acts(five[j])
               PROVE  /\ Awaits(five, j, "enter", Table[five[j].of][five[j].row].to)
                      /\ Awaits(five, j, "clear", Table[five[j].of][five[j].row].from)
    BY DEF Completed
  <2>1. j = 2
    BY <1>7, <1>9
  <2>2. Table[five[j].of][five[j].row].to = t /\ Table[five[j].of][five[j].row].from = s0
    BY <1>4, <1>7, <2>1
  <2> HIDE DEF s0, t
  <2>3. Awaits(five, 2, "enter", t) /\ Awaits(five, 2, "clear", s0)
    BY <1>4, <1>7 DEF Awaits
  <2>4. QED
    BY <2>1, <2>2, <2>3
<1> HIDE DEF s0, t
<1>11. Completed(five \o tried)
  BY <1>5, <1>7, <1>9, <1>10, CompletedWithout, CompletedConcat
<1>12. five \o tried \in Seq(Frame) /\ ToSet(five \o tried) = {x, a, n, k, s} \cup ToSet(tried)
  BY <1>5, <1>7, <1>8, ConcatFacts
<1>13. ASSUME NEW f \in ToSet(five \o tried), NEW g \in ToSet(five \o tried) PROVE Spares(f, g)
  <2>1. Later(g) => g = a
    BY <1>9, <1>12
  <2>2. Works(f) => f = x \/ f = n
    BY <1>9, <1>12
  <2>3. m \notin Reach(x) /\ m \notin Reach(n)
    BY <1>3, <1>9
  <2>4. QED
    BY <1>4, <2>1, <2>2, <2>3 DEF Spares
<1>14. ASSUME NEW f \in ToSet(five \o tried)
       PROVE  /\ Works(f) => Reach(f) \subseteq Reach(h)
              /\ Makes(f) => f.of = m \/ (f.of \in Children(m) /\ ~Later(f))
  <2>1. Works(f) => f = x \/ f = n
    BY <1>9, <1>12
  <2>2. Makes(f) => f \in {x, a, n, s}
    BY <1>9, <1>12
  <2>3. QED
    BY <1>1, <1>2, <1>3, <1>4, <1>9, <2>1, <2>2
<1>15. QED
  BY <1>1, <1>6, <1>11, <1>12, <1>13, <1>14, DataSpawn DEF h, m

LEMMA TestRowData ==
  ASSUME TypeOK, StackInv, EntryInv, DataInv, ~failed, TestRow
  PROVE  DataInv'
<1> DEFINE f == Head(todo)
           i == First(Candidates(f))
<1>1. /\ Doing("rows") /\ todo # <<>> /\ f.op = "rows" /\ Candidates(f) # {}
      /\ UNCHANGED <<dirty, entered, failed>>
      /\ \/ Do(Transition(f.of, f.event, i))
         \/ Do(<<Rows(f.of, f.event, i + 1)>>)
  BY DEF TestRow, Doing, tree, history
<1>2. f \in Frame /\ f.row >= 1 /\ f.of \in Machines /\ f.event \in Events \cup {None}
  BY <1>1, FirstCall, FrameFields DEF Fits, FitsDispatch
<1>3. i \in DOMAIN Table[f.of] /\ i \in Nat /\ i + 1 \in Nat /\ Table[f.of][i].event = Kind(f.event)
  BY <1>1, <1>2, FirstCandidate
<1> HIDE DEF i
<1>4. CASE Do(Transition(f.of, f.event, i))
  BY <1>1, <1>3, <1>4, TransitionData
<1>5. CASE Do(<<Rows(f.of, f.event, i + 1)>>)
  BY <1>1, <1>2, <1>3, <1>5, RowsData
<1>6. QED
  BY <1>1, <1>4, <1>5

\* Leaving a state, and entering one, with what is inside it.
LEMMA ExitOrEnterData ==
  ASSUME TypeOK, EntryInv, DataInv, ~failed, ExitOrEnter
  PROVE  DataInv'
<1> DEFINE h == Head(todo)
           n == h.of
           v == h.event
           T == ToSet(Tail(todo))
<1>1. todo # <<>> /\ UNCHANGED <<dirty, entered, failed>> /\ h \in Frame
      /\ Entries({h} \cup T, current, entered) /\ Accountable({h} \cup T, h, current, entered)
  BY FirstAndRest DEF ExitOrEnter, Doing, tree, history
<1>2. ASSUME h.op \in {"exit", "enter"}
      PROVE  /\ n \in States /\ v \in Events \cup {None} /\ n \in Below(n) /\ Works(h) /\ Makes(h)
             /\ Reach(h) = Below(n) /\ h.op # "clear"
             /\ \A s \in Children(n) : Below(s) \subseteq Below(n)
  <2>1. n \in States /\ v \in Events \cup {None}
    BY <1>1, <1>2, FrameFields DEF OpNames
  <2>2. Works(h) /\ Makes(h) /\ Reach(h) = Below(n) /\ h.op # "clear"
    BY <1>2 DEF Works, Makes, Keyed, Exits, Enters, Reach
  <2> HIDE DEF n
  <2>3. QED
    BY <2>1, <2>2, BelowChild, UpSelf
<1>3. ASSUME h.op \in {"exit", "enter"}, NEW ops \in Seq(Frame), Do(ops),
             \A f \in ToSet(ops) :
                 \/ f.op \in {"exit", "enter"} /\ f.of \in Children(n)
                 \/ f.op = "call" /\ f.kind \in {"exit", "enter"} /\ f.of = n
                 \/ f.op = "default" /\ f.of = n,
             h.op = "enter" => Entering(ToSet(ops), n)
      PROVE  DataInv'
  <2>1. \A f \in ToSet(ops) : ~Later(f) /\ ~Acts(f)
    BY <1>3 DEF Later, Acts
  <2>2. \A f \in ToSet(ops) : Works(f) => Reach(f) \subseteq Below(n)
    BY <1>2, <1>3 DEF Works, Spawns, Exits, Reach
  <2>3. Completed(ops) /\ \A f, g \in ToSet(ops) : Spares(f, g)
    BY <2>1, CompletedWithout DEF Spares
  <2>4. n \in Tracked => Here(ToSet(ops) \cup T, entered, n)
    <3>1. CASE h.op = "enter"
      BY <1>3, <3>1 DEF Here, Entering
    <3>2. CASE h.op = "exit" /\ n \in Tracked
      <4>1. Leaving({h} \cup T, n) /\ n # Root
        BY <1>1, <3>2 DEF Leaving, Exits, Accountable, Left
      <4>2. entered[n] = 1
        BY <1>1, <3>2, <4>1 DEF Entries, Ruled
      <4>3. QED
        BY <4>2 DEF Here
    <3>3. QED
      BY <1>3, <3>1, <3>2
  <2>5. \A f \in ToSet(ops) : Replaces(ToSet(ops) \cup T, h, f, entered)
    BY <1>2, <1>3, <2>1, <2>2, <2>4 DEF Replaces
  <2>6. Enters(h) => Entering(ToSet(ops), n)
    BY <1>3 DEF Enters
  <2>7. QED
    BY <1>1, <1>2, <1>3, <2>3, <2>5, <2>6, DataDo
<1>4. CASE Doing("exit") /\ Do(InnerExit(n, v) \o <<Call("exit", n, 0, v)>>)
  <2> DEFINE inner == InnerExit(n, v)
             x == Call("exit", n, 0, v)
  <2>1. h.op = "exit"
    BY <1>4 DEF Doing
  <2>2. inner \in Seq(Frame) /\ \A f \in ToSet(inner) : f.op = "exit" /\ f.of \in Children(n)
    BY <1>2, <2>1, LeftWith DEF Inner
  <2>3. x \in Frame /\ x.op = "call" /\ x.kind = "exit" /\ x.of = n
    BY <1>2, <2>1, CallFrame DEF Call
  <2>4. Do(inner \o <<x>>)
    BY <1>4
  <2> HIDE DEF inner, x
  <2>5. <<x>> \in Seq(Frame) /\ ToSet(<<x>>) = {x}
    BY <2>3, PairwiseOne
  <2>6. inner \o <<x>> \in Seq(Frame) /\ ToSet(inner \o <<x>>) = ToSet(inner) \cup {x}
    <3>1. inner \in Seq(Frame) /\ <<x>> \in Seq(Frame)
      BY <2>2, <2>5
    <3>2. inner \o <<x>> \in Seq(Frame)
      BY <3>1
    <3>3. ToSet(inner \o <<x>>) = ToSet(inner) \cup ToSet(<<x>>)
      BY <3>1, ConcatFacts
    <3>4. QED
      BY <2>5, <3>2, <3>3
  <2>7. QED
    BY <1>3, <2>1, <2>2, <2>3, <2>4, <2>6
<1>5. CASE Doing("enter") /\ Do(<<Call("enter", n, 0, v)>> \o InnerEnter(n, v))
  <2> DEFINE inner == InnerEnter(n, v)
             x == Call("enter", n, 0, v)
  <2>1. h.op = "enter"
    BY <1>5 DEF Doing
  <2>2. /\ inner \in Seq(Frame)
        /\ \A f \in ToSet(inner) : \/ f.op = "enter" /\ f.of \in Children(n)
                                   \/ f.op = "default" /\ f.of = n
    BY <1>2, <2>1, EnteredAlong DEF Opens
  <2>3. x \in Frame /\ x.op = "call" /\ x.kind = "enter" /\ x.of = n
    BY <1>2, <2>1, CallFrame DEF Call
  <2>4. Do(<<x>> \o inner)
    BY <1>5
  <2> HIDE DEF inner, x
  <2>5. <<x>> \in Seq(Frame) /\ ToSet(<<x>>) = {x}
    BY <2>3, PairwiseOne
  <2>6. <<x>> \o inner \in Seq(Frame) /\ ToSet(<<x>> \o inner) = {x} \cup ToSet(inner)
    <3>1. inner \in Seq(Frame) /\ <<x>> \in Seq(Frame)
      BY <2>2, <2>5
    <3>2. <<x>> \o inner \in Seq(Frame)
      BY <3>1
    <3>3. ToSet(<<x>> \o inner) = ToSet(<<x>>) \cup ToSet(inner)
      BY <3>1, ConcatFacts
    <3>4. QED
      BY <2>5, <3>2, <3>3
  <2>7. Entering(ToSet(<<x>> \o inner), n)
    BY <2>3, <2>6 DEF Entering, Enters
  <2>8. QED
    BY <1>3, <2>1, <2>2, <2>3, <2>4, <2>6, <2>7
<1>6. QED
  BY <1>4, <1>5 DEF ExitOrEnter

\* What was to be cleared is as new now.
LEMMA ClearData ==
  ASSUME TypeOK, EntryInv, DataInv, ~failed, ClearSource
  PROVE  DataInv'
<1> DEFINE h == Head(todo)
           n == h.of
           T == ToSet(Tail(todo))
           F == {h} \cup T
           inside == IF n \in History THEN {} ELSE Below(n)
<1>1. /\ todo # <<>> /\ h.op = "clear" /\ Do(<<>>) /\ UNCHANGED <<entered, failed>>
      /\ dirty' = dirty \ inside
  BY DEF ClearSource, Doing, history
<1>2. /\ InTurns(Tail(todo)) /\ Completed(Tail(todo))
      /\ \A f \in F : Housed(F, f, entered)
      /\ Claimed(F, entered, dirty)
  BY <1>1, DataFirst
<1>3. todo' = Tail(todo) /\ ~Enters(h)
  <2>1. Tail(todo) \in Seq(Frame)
    BY <1>1, FirstAndRest
  <2>2. QED
    BY <1>1, <2>1 DEF Do, Enters
<1> HIDE DEF h, T
<1>4. \A a : Here(F, entered, a) => Here(T, entered, a)
  BY <1>3 DEF Here, Entering
<1>5. \A f \in T : Housed(T, f, entered)
  BY <1>2, <1>4 DEF Housed
<1>6. ASSUME NEW d \in dirty \ inside, Firm(d) PROVE Here(T, entered, d) \/ Clearing(T, d)
  <2>1. Here(F, entered, d) \/ Clearing(F, d)
    BY <1>2, <1>6 DEF Claimed
  <2>2. d \in Below(n) => n \notin History
    BY <1>6 DEF Firm, Stale, Below
  <2>3. d \notin Below(n)
    BY <1>6, <2>2
  <2>4. Clearing(F, d) => Clearing(T, d)
    BY <2>3 DEF Clearing
  <2>5. QED
    BY <1>4, <2>1, <2>4
<1>7. Claimed(T, entered, dirty \ inside)
  BY <1>6 DEF Claimed
<1> HIDE DEF inside, F
<1>8. QED
  BY <1>1, <1>2, <1>3, <1>5, <1>7 DEF DataInv, T

\* What a handler writes is the data of states that are entered or will be, or that
\* will be cleared: its own state when that is left, and the source of its row.
LEMMA HandlerData ==
  ASSUME WritesInPlace, TypeOK, StackInv, EntryInv, DataInv, ~failed, RunHandler
  PROVE  DataInv'
<1> DEFINE h == Head(todo)
           n == h.of
           T == ToSet(Tail(todo))
           F == {h} \cup T
           W == Writes(Handler(h))
<1>1. /\ todo # <<>> /\ h.op = "call" /\ Do(<<>>) /\ UNCHANGED failed
      /\ dirty' = dirty \cup W /\ entered' = Counted(h)
  BY DEF RunHandler, Doing
<1>2. /\ InTurns(Tail(todo)) /\ Completed(Tail(todo)) /\ \A g \in T : Spares(h, g)
      /\ Acts(h) =>
           /\ \E g \in T : g.op = "enter" /\ g.of = Table[n][h.row].to
           /\ \E g \in T : g.op = "clear" /\ g.of = Table[n][h.row].from
      /\ \A f \in F : Housed(F, f, entered)
      /\ Claimed(F, entered, dirty)
  BY <1>1, DataFirst
<1>3. todo' = Tail(todo) /\ entered \in [States -> Int]
  <2>1. Tail(todo) \in Seq(Frame)
    BY <1>1, FirstAndRest
  <2>2. QED
    BY <1>1, <2>1 DEF Do, TypeOK
<1>4. /\ h \in Frame /\ n \in States /\ h.kind \in {"enter", "exit", "action", "internal"}
      /\ Handler(h) \in Handlers
  <2>1. h \in Frame /\ Fits(h, event, current, Begun)
    BY <1>1, FirstCall
  <2>2. h.kind \in {"enter", "exit", "action", "internal"}
    BY <1>1, <2>1 DEF Frame
  <2>3. QED
    BY <1>1, <2>1, <2>2, FrameFields DEF Fits, FitsTransition
<1>5. CASE h.kind \in {"action", "internal"}
  <2>1. entered' = entered
    BY <1>1, <1>5 DEF Counted
  <2>2. ~Enters(h) /\ Later(h) /\ Makes(h) /\ h.op # "clear"
    BY <1>1, <1>5 DEF Enters, Later, Makes
  <2>3. W \subseteq Up[n] \cup IF h.kind = "action" THEN {Table[n][h.row].from, Table[n][h.row].to} ELSE {}
    BY <1>4 DEF WritesInPlace, Handler
  <2> HIDE DEF h, T, W
  <2>4. \A a : (Here(F, entered, a) => Here(T, entered, a)) /\ (Clearing(F, a) => Clearing(T, a))
    BY <2>2 DEF Here, Entering, Clearing
  <2>5. \A f \in T : Housed(T, f, entered)
    BY <1>2, <2>4 DEF Housed
  <2>6. ASSUME NEW d \in dirty \cup W, Firm(d) PROVE Here(T, entered, d) \/ Clearing(T, d)
    <3>1. CASE d \in dirty
      BY <1>2, <2>4, <2>6, <3>1 DEF Claimed
    <3>2. CASE d \in W /\ d \in Up[n]
      <4>1. d \in Tracked
        <5>1. d \in States
          BY <1>4, <3>2, UpSelf
        <5>2. QED
          BY <2>6, <5>1 DEF Firm, Tracked
      <4>2. QED
        BY <1>2, <2>2, <2>4, <3>2, <4>1 DEF Housed
    <3>3. CASE h.kind = "action" /\ d = Table[n][h.row].from
      <4>1. PICK g \in T : g.op = "clear" /\ g.of = d
        BY <1>1, <1>2, <3>3 DEF Acts, h
      <4>2. g \in Frame
        <5>1. T \subseteq ToSet(todo) /\ ToSet(todo) \subseteq Frame
          BY <1>1, FirstAndRest DEF T
        <5>2. QED
          BY <5>1
      <4>3. d \in States
        BY <4>1, <4>2, KindsOf
      <4>4. d \in Below(d)
        BY <4>3, UpSelf
      <4>5. QED
        BY <4>1, <4>4 DEF Clearing
    <3>4. CASE h.kind = "action" /\ d = Table[n][h.row].to
      BY <1>1, <1>2, <3>4 DEF Acts, h, Here, Entering, Enters
    <3>5. QED
      BY <2>3, <2>6, <3>1, <3>2, <3>3, <3>4
  <2>7. Claimed(T, entered, dirty \cup W)
    BY <2>6 DEF Claimed
  <2>8. QED
    BY <1>1, <1>2, <1>3, <2>1, <2>5, <2>7 DEF DataInv, T
<1>6. CASE h.kind \in {"enter", "exit"}
  <2>1. Keyed(h) /\ Makes(h) /\ h.op # "clear" /\ ~Later(h)
    BY <1>1, <1>6 DEF Keyed, Exits, Enters, Makes, Later
  <2>2. W \subseteq Up[n]
    BY <1>4, <1>6 DEF WritesInPlace, Handler
  <2>3. /\ \A a \in States : a # n => entered'[a] = entered[a]
        /\ h.kind = "enter" /\ n \in Tracked => entered'[n] = 1
    <3>1. h.kind = "enter" /\ n \in Tracked => entered[n] = 0
      BY <1>1, FirstEntryFacts DEF FirstEntry
    <3> HIDE DEF n
    <3>2. CASE n \in Tracked
      <4>1. entered' = [entered EXCEPT ![n] = IF h.kind = "enter" THEN @ + 1 ELSE @ - 1]
        BY <1>1, <1>6, <3>2 DEF Counted, n
      <4>2. QED
        BY <1>3, <1>4, <3>1, <4>1
    <3>3. CASE n \notin Tracked
      BY <1>1, <3>3 DEF Counted, n
    <3>4. QED
      BY <3>2, <3>3
  <2>4. ASSUME h.kind = "exit"
        PROVE  /\ \A g \in T : Makes(g) /\ n \in Up[g.of] => Enters(g) /\ g.of = n /\ ~Later(g)
               /\ n \in Tracked => Clearing(F, n)
    <3>1. LastExit(h) /\ Exits(h) /\ Works(h) /\ Reach(h) = Below(n)
      BY <1>1, <2>4 DEF LastExit, Exits, Works, Reach
    <3>2. /\ \A g \in T : g \in Frame /\ (Keyed(g) /\ g.of \in Below(n) => Enters(g) /\ g.of = n)
          /\ Left(F, h)
      BY <1>1, <3>1, LastExitFacts
    <3>3. ASSUME NEW g \in T, Makes(g), n \in Up[g.of] PROVE Enters(g) /\ g.of = n /\ ~Later(g)
      <4>1. g.of \in States
        <5>1. g.op \in OpNames \cup {"call", "rows", "internal", "region", "set"}
          BY <3>3 DEF Makes, Keyed, Spawns, Exits, Enters, Later, OpNames
        <5>2. QED
          BY <3>2, <5>1, FrameFields, TreeAssumption
      <4>2. g.of \in Below(n)
        BY <3>3, <4>1 DEF Below
      <4>3. ~Later(g)
        BY <1>2, <3>1, <4>2 DEF Spares
      <4>4. QED
        BY <3>2, <3>3, <4>2, <4>3 DEF Makes
    <3>4. n \in Tracked => Clearing(F, n)
      BY <3>1, <3>2 DEF Left
    <3>5. QED
      BY <3>3, <3>4
  <2> HIDE DEF h, T, W
  <2>5. ASSUME NEW a \in Tracked, Here(F, entered, a), h.kind = "exit" => a # n
        PROVE  Here(T, entered', a)
    <3>1. a \in States
      BY DEF Tracked
    <3>2. CASE a = n
      BY <1>6, <2>3, <2>5, <3>2 DEF Here
    <3>3. CASE a # n
      <4>1. Entering(F, a) => Entering(T, a)
        BY <3>3 DEF Entering
      <4>2. QED
        BY <2>3, <2>5, <3>1, <3>3, <4>1 DEF Here
    <3>4. QED
      BY <3>2, <3>3
  <2>6. ASSUME NEW a, Clearing(F, a) PROVE Clearing(T, a)
    BY <2>1, <2>6 DEF Clearing
  <2>7. ASSUME NEW f \in T PROVE Housed(T, f, entered')
    <3> SUFFICES ASSUME Makes(f), NEW a \in Up[f.of] \cap Tracked, a # f.of \/ Later(f)
                 PROVE  Here(T, entered', a)
      BY DEF Housed
    <3>1. Here(F, entered, a)
      BY <1>2, <2>7 DEF Housed
    <3>2. h.kind = "exit" => a # n
      BY <2>4, <2>7
    <3>3. QED
      BY <2>5, <3>1, <3>2
  <2>8. ASSUME NEW d \in dirty \cup W, Firm(d) PROVE Here(T, entered', d) \/ Clearing(T, d)
    <3>1. d \in States
      BY <1>4, <2>2, UpSelf DEF TypeOK
    <3>2. d \in Tracked
      BY <2>8, <3>1 DEF Firm, Tracked
    <3>3. CASE h.kind = "exit" /\ d = n
      BY <2>4, <2>6, <3>2, <3>3
    <3>4. CASE h.kind = "enter" /\ d = n
      BY <2>3, <3>2, <3>4 DEF Here
    <3>5. CASE d # n
      <4>1. Here(F, entered, d) \/ Clearing(F, d)
        <5>1. CASE d \in dirty
          BY <1>2, <2>8, <5>1 DEF Claimed
        <5>2. CASE d \in W
          BY <1>2, <2>1, <2>2, <3>2, <3>5, <5>2 DEF Housed
        <5>3. QED
          BY <2>8, <5>1, <5>2
      <4>2. QED
        BY <2>5, <2>6, <3>2, <3>5, <4>1
    <3>6. QED
      BY <1>6, <3>3, <3>4, <3>5
  <2>9. Claimed(T, entered', dirty \cup W)
    BY <2>8 DEF Claimed
  <2>10. QED
    BY <1>1, <1>2, <1>3, <2>7, <2>9 DEF DataInv, T
<1>7. QED
  BY <1>4, <1>5, <1>6

LEMMA ReceiveData ==
  ASSUME TypeOK, EntryInv, DataInv, ~failed, NEW e \in Events, Receive(e)
  PROVE  DataInv'
<1> DEFINE a == Op("dispatch", Root, e)
<1>1. todo = <<>> /\ todo' = <<a>> /\ UNCHANGED <<dirty, entered, failed>>
  BY DEF Receive, Resting, tree
<1>2. a \in Frame /\ a.op = "dispatch" /\ a.of = Root
  BY RootTracked, OpFrame DEF OpNames
<1> HIDE DEF a
<1>3. <<a>> \in Seq(Frame) /\ ToSet(<<a>>) = {a} /\ ToSet(<<>>) = {}
  BY <1>2, PairwiseOne, PairwiseNone
<1>4. ~Later(a) /\ ~Acts(a)
  BY <1>2 DEF Later, Acts
<1>5. Completed(<<a>>) /\ InTurns(<<a>>)
  <2>1. \A f, g \in {a} : Spares(f, g)
    BY <1>4 DEF Spares
  <2>2. QED
    BY <1>3, <1>4, <2>1, CompletedWithout, InTurnsAll
<1>6. Housed({a}, a, entered)
  BY <1>2, <1>4, UpRoot DEF Housed
<1>7. Claimed({a}, entered, dirty)
  <2>1. Claimed({}, entered, dirty)
    BY <1>1, <1>3 DEF DataInv
  <2>2. QED
    BY <2>1 DEF Claimed, Here, Entering, Clearing
<1>8. QED
  BY <1>1, <1>3, <1>5, <1>6, <1>7 DEF DataInv

LEMMA InitData ==
  ASSUME Init
  PROVE  DataInv
<1>1. ToSet(todo) = {} /\ dirty = {}
  BY PairwiseNone DEF Init
<1>2. InTurns(todo) /\ Completed(todo)
  BY <1>1, InTurnsAll, CompletedWithout
<1>3. QED
  BY <1>1, <1>2 DEF DataInv, Claimed

LEMMA NextData ==
  ASSUME WritesInPlace, TypeOK, StackInv, EntryInv, DataInv, [Next]_vars
  PROVE  DataInv'
<1>1. CASE failed
  BY <1>1, StaysFailed DEF DataInv
<1>2. CASE ~failed
  <2>1. ~throwing
    BY <1>2 DEF EntryInv
  <2>2. ASSUME NEW e \in Events, Receive(e) PROVE DataInv'
    BY <1>2, <2>2, ReceiveData
  <2>3. ASSUME Dispatch \/ NextRegion PROVE DataInv'
    BY <1>2, <2>3, DispatchData, NextRegionData
  <2>4. ASSUME TestRow \/ TestInternalRow \/ Settle \/ CheckDefault PROVE DataInv'
    BY <1>2, <2>4, TestRowData, TestInternalRowData, SettleData, CheckDefaultData
  <2>5. ASSUME NoMoreRows \/ GiveAnswer \/ LeaveTry \/ CompleteTransition PROVE DataInv'
    BY <1>2, <2>5, EndsData
  <2>6. ASSUME ExitOrEnter \/ ClearSource PROVE DataInv'
    BY <1>2, <2>6, ExitOrEnterData, ClearData
  <2>7. ASSUME RunHandler PROVE DataInv'
    BY <1>2, <2>7, HandlerData
  <2>8. ASSUME HandlerThrows \/ GuardThrows PROVE DataInv'
    BY <2>8 DEF HandlerThrows, GuardThrows, ThrowNow, DataInv
  <2>9. ASSUME Escape \/ Catch \/ Stuck PROVE DataInv'
    BY <2>1, <2>9 DEF Escape, Catch, Stuck, Escaped
  <2>10. ASSUME UNCHANGED vars PROVE DataInv'
    <3>1. UNCHANGED <<todo, dirty, entered, failed>>
      BY <2>10 DEF vars, tree, control, history
    <3>2. QED
      BY <3>1 DEF DataInv, InTurns, Completed, Awaits
  <2>11. QED
    BY <2>2, <2>3, <2>4, <2>5, <2>6, <2>7, <2>8, <2>9, <2>10 DEF Next, Step
<1>3. QED
  BY <1>1, <1>2

\* What handlers have changed, in the middle of an event and after it, belongs to
\* states that are entered, or will be, or will be cleared: the invariant behind
\* the two theorems below.
THEOREM DataInvariant ==
  ASSUME WritesInPlace
  PROVE  Spec => [](TypeOK /\ StackInv /\ EntryInv /\ DataInv)
<1>1. Init => DataInv
  BY InitData
<1>2. TypeOK /\ StackInv /\ EntryInv /\ DataInv /\ [Next]_vars => DataInv'
  BY NextData
<1>3. QED
  BY <1>1, <1>2, EntryInvariant, PTL DEF Spec

\* What is not active is as a new one would be.
NewWhenInactive ==
    Resting /\ ~failed =>
        \A n \in States \ Active(current) :
            Firm(n) => n \notin dirty /\ (n \in Machines => current[n] = Initial[n])

LEMMA RestingData ==
  ASSUME EntryInv, DataInv
  PROVE  NewWhenInactive
<1> SUFFICES ASSUME Resting, ~failed, NEW n \in States \ Active(current), Firm(n)
             PROVE  n \notin dirty /\ (n \in Machines => current[n] = Initial[n])
  BY DEF NewWhenInactive
<1>1. /\ ToSet(todo) = {} /\ Entries({}, current, entered) /\ Claimed({}, entered, dirty)
  BY PairwiseNone DEF EntryInv, DataInv, Resting
<1>2. entered[n] = 0
  BY RestingEntries DEF EntriesMatch, Firm, Tracked
<1>3. ~Here({}, entered, n) /\ ~Clearing({}, n)
  BY <1>2 DEF Here, Entering, Clearing
<1>4. n \notin dirty
  BY <1>1, <1>3 DEF Claimed
<1>5. n \in Machines => current[n] = Initial[n]
  BY <1>1, <1>2, <1>3 DEF Entries, Fresh
<1>6. QED
  BY <1>4, <1>5

\* Between two events, as long as nothing has thrown, a state or machine that is
\* not active, and is not in or below a Stale one, is as a new one would be: its
\* data is, whatever exits, actions and entries have written, and its current
\* state is the initial one (state_clear, and the places from which
\* transit_state_impl calls it).
THEOREM InactiveIsNew ==
  ASSUME WritesInPlace
  PROVE  Spec => []NewWhenInactive
<1>1. TypeOK /\ StackInv /\ EntryInv /\ DataInv => NewWhenInactive
  BY RestingData
<1>2. QED
  BY <1>1, DataInvariant, PTL

LEMMA NeverFailed ==
  ASSUME Throwing = {}
  PROVE  Spec => []~failed
<1>1. Init => ~failed
  BY DEF Init
<1>2. ~failed /\ [Next]_vars => ~failed'
  BY DEF Next, Step, Stuck, vars, history, Receive, Dispatch, NextRegion, NoMoreRows, TestRow,
         TestInternalRow, Settle, CheckDefault, GiveAnswer, ExitOrEnter, ClearSource,
         CompleteTransition, LeaveTry, RunHandler, HandlerThrows, GuardThrows, Escape, Catch
<1>3. QED
  BY <1>1, <1>2, PTL DEF Spec

\* When nothing throws, and neither a machine nor regions are Stale, everything that
\* is inactive is forgotten, unless it is a state with history itself.
THEOREM InactiveIsForgotten ==
  ASSUME WritesInPlace, Throwing = {}, Stale \cap (Machines \cup Orthogonal) = {}
  PROVE  Spec => []ForgottenUnlessHistory
<1>1. ASSUME NEW n \in States, ~Firm(n) PROVE n \in History
  <2>1. PICK a \in Up[n] : a \in Stale
    BY <1>1 DEF Firm
  <2>2. a \notin Machines /\ a \notin Orthogonal /\ a \in States
    BY <2>1, UpSelf
  <2>3. a \in History
    BY <2>1, <2>2 DEF Stale
  <2>4. a = n
    <3> SUFFICES ASSUME a # n PROVE FALSE
      OBVIOUS
    <3> DEFINE S == Up[n] \ {a}
    <3>1. ASSUME NEW z \in S, z # Root PROVE Parent[z] \in S
      <4>1. z \in States /\ z \in DOMAIN Parent /\ Parent[z] \in Up[n]
        BY UpParent, UpSelf, <3>1, TreeAssumption
      <4>2. Parent[z] \in Machines \cup Orthogonal
        BY <4>1, TreeAssumption
      <4>3. QED
        BY <2>2, <4>1, <4>2
    <3>2. S \in Closed /\ n \in S
      BY <3>1, UpSelf DEF Closed
    <3>3. Up[n] \subseteq S
      BY <3>2, UpLeast
    <3>4. QED
      BY <3>3
  <2>5. QED
    BY <2>3, <2>4
<1>2. NewWhenInactive /\ ~failed => ForgottenUnlessHistory
  <2> SUFFICES ASSUME NewWhenInactive, ~failed, Resting, NEW n \in States \ Active(current), ~Suspended(n)
               PROVE  n \notin dirty /\ (n \in Machines => current[n] = Initial[n])
    BY DEF ForgottenUnlessHistory
  <2>1. n \notin History
    BY UpSelf DEF Suspended
  <2>2. Firm(n)
    BY <1>1, <2>1
  <2>3. QED
    BY <2>2 DEF NewWhenInactive
<1>3. QED
  BY <1>2, InactiveIsNew, NeverFailed, PTL
=============================================================================

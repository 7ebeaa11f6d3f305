-------------------------- MODULE StateTree_proofs --------------------------
(***************************************************************************)
(* For every hierarchy, every tables, guards and handlers: the stack of    *)
(* calls is always such that                                               *)
(*   - no call changes a current state that a later one relies on          *)
(*     (Confined), so that an event meets each machine as it was when it   *)
(*     was dispatched, also in the last of several regions;                *)
(*   - a transition is made only for the event, out of a state that was    *)
(*     current in an active machine, or by default after one that was.     *)
(* From that follow the theorems on published answers and on history.  The *)
(* second half says that the answer tells what happened.                   *)
(***************************************************************************)
EXTENDS StateTree, SequenceFacts, FiniteSetTheorems, TLAPS

(* The hierarchy *)

LEMMA ParentInTree ==
  ASSUME NEW s \in DOMAIN Parent
  PROVE  s \in States /\ s # Root /\ Parent[s] \in States
  BY TreeAssumption

LEMMA UpSelf ==
  ASSUME NEW n \in States
  PROVE  n \in Up[n] /\ Up[n] \subseteq States /\ n \in Below(n)
  BY DEF Up, Below

LEMMA UpLeast ==
  ASSUME NEW n \in States, NEW S \in Closed, n \in S
  PROVE  Up[n] \subseteq S
  BY DEF Up

LEMMA UpParent ==
  ASSUME NEW n \in States, NEW a \in Up[n], a # Root
  PROVE  Parent[a] \in Up[n]
<1>1. a \in States /\ Parent[a] \in States
  BY TreeAssumption DEF Up
<1>2. QED
  BY <1>1 DEF Up, Closed

\* A state is in itself and in whatever its machine is in.
LEMMA UpStep ==
  ASSUME NEW s \in DOMAIN Parent
  PROVE  Up[s] = {s} \cup Up[Parent[s]]
<1> DEFINE S == {s} \cup Up[Parent[s]]
<1>1. s \in States /\ s # Root /\ Parent[s] \in States
  BY ParentInTree
<1>2. Up[Parent[s]] \subseteq States /\ Parent[s] \in Up[Parent[s]]
  BY <1>1, UpSelf
<1>3. S \in Closed
  <2>1. \A x \in Up[Parent[s]] \ {Root} : Parent[x] \in Up[Parent[s]]
    BY <1>1, UpParent
  <2>2. QED
    BY <1>1, <1>2, <2>1 DEF Closed
<1>4. Up[s] \subseteq S
  BY <1>1, <1>3, UpLeast
<1>5. Up[s] \in Closed
  <2>1. \A x \in Up[s] \ {Root} : Parent[x] \in Up[s]
    BY <1>1, UpParent
  <2>2. QED
    BY <1>1, <2>1, UpSelf DEF Closed
<1>6. s \in Up[s] /\ Parent[s] \in Up[s]
  BY <1>1, UpSelf, UpParent
<1>7. Up[Parent[s]] \subseteq Up[s]
  BY <1>1, <1>5, <1>6, UpLeast
<1>8. QED
  BY <1>4, <1>6, <1>7

LEMMA UpRoot == Up[Root] = {Root}
<1>1. {Root} \in Closed /\ Root \in States
  BY TreeAssumption DEF Closed
<1>2. QED
  BY <1>1, UpLeast, UpSelf

LEMMA BelowChild ==
  ASSUME NEW n, NEW s \in Children(n)
  PROVE  Below(s) \subseteq Below(n) \ {n}
<1>1. s \in DOMAIN Parent /\ Parent[s] = n /\ s \in States /\ s # Root /\ n \in States
  BY ParentInTree DEF Children
<1>2. \A x \in Below(s) : x \in Below(n)
  BY <1>1, UpParent DEF Below
<1>3. n \notin Below(s)
  BY <1>1, TreeAssumption DEF Below
<1>4. QED
  BY <1>2, <1>3

\* What two states of a machine have inside them has nothing in common.
LEMMA SiblingsApart ==
  ASSUME NEW n, NEW s \in Children(n), NEW t \in Children(n), s # t
  PROVE  Below(s) \cap Below(t) = {}
<1>1. /\ s \in DOMAIN Parent /\ Parent[s] = n /\ s \in States
      /\ t \in DOMAIN Parent /\ Parent[t] = n /\ t \in States /\ n \in States
  BY ParentInTree DEF Children
<1>2. s \notin Up[t] /\ t \notin Up[s]
  BY <1>1, UpStep, TreeAssumption
<1> SUFFICES ASSUME NEW x \in States, s \in Up[x], t \in Up[x] PROVE FALSE
  BY DEF Below
<1> DEFINE S == {y \in Up[x] : s \in Up[y]} \cup Up[s]
<1>3. ASSUME NEW y \in S, y # Root
      PROVE  Parent[y] \in S
  <2>1. CASE y \in Up[s]
    BY <1>1, <1>3, <2>1, UpParent
  <2>2. CASE y \in Up[x] /\ s \in Up[y]
    <3>1. y \in DOMAIN Parent /\ Parent[y] \in Up[x]
      BY <1>3, <2>2, UpParent, UpSelf, TreeAssumption
    <3>2. s = y \/ s \in Up[Parent[y]]
      BY <2>2, <3>1, UpStep
    <3>3. s = y => Parent[y] \in Up[s]
      BY <1>1, <3>1, UpStep, UpSelf, ParentInTree
    <3>4. QED
      BY <3>1, <3>2, <3>3
  <2>3. QED
    BY <2>1, <2>2
<1>4. S \in Closed /\ x \in S
  BY <1>1, <1>3, UpSelf DEF Closed
<1>5. t \in S
  BY <1>4, UpLeast
<1>6. QED
  BY <1>2, <1>5

\* A current state of an active machine, and a region of one, is active.
LEMMA ActiveChild ==
  ASSUME NEW c, NEW n \in Active(c), NEW s \in Children(n), n \in Machines => c[n] = s
  PROVE  s \in Active(c)
<1>1. s \in DOMAIN Parent /\ Parent[s] = n /\ s \in States /\ Up[s] = {s} \cup Up[n]
  BY ParentInTree, UpStep DEF Children
<1>2. QED
  BY <1>1 DEF Active

LEMMA RootActive ==
  ASSUME NEW c
  PROVE  Root \in Active(c)
  BY UpRoot, TreeAssumption DEF Active

LEMMA RegionsOf ==
  ASSUME NEW o \in Orthogonal
  PROVE  /\ Len(Regions[o]) \in Nat /\ DOMAIN Regions[o] = 1..Len(Regions[o])
         /\ \A i \in DOMAIN Regions[o] : /\ Regions[o][i] \in Children(o)
                                         /\ Regions[o][i] \in States
         /\ \A i, j \in DOMAIN Regions[o] : i # j => Regions[o][i] # Regions[o][j]
<1>1. /\ Regions[o] \in Seq(Machines \cup Orthogonal) /\ IsInjective(Regions[o])
      /\ ToSet(Regions[o]) = Children(o)
  BY TreeAssumption
<1>2. QED
  BY <1>1, TreeAssumption DEF IsInjective, ToSet

-----------------------------------------------------------------------------
(* Frames *)

OpNames == {"dispatch", "settle", "default", "exit", "enter", "clear"}

LEMMA FrameFields ==
  ASSUME NEW f \in Frame
  PROVE  /\ f.op \in OpNames => f.of \in States /\ f.event \in Events \cup {None}
         /\ f.op = "call" => f.of \in States /\ f.event \in Events \cup {None}
         /\ f.op = "rows" => f.of \in Machines /\ f.row \in Nat /\ f.event \in Events \cup {None}
         /\ f.op = "internal" => f.of \in States /\ f.row \in Nat
         /\ f.op = "region" => f.of \in Orthogonal /\ f.row \in Nat /\ f.best \in Answers
         /\ f.op = "set" => f.of \in Machines /\ f.to \in States
         /\ f.op = "answer" => f.of \in Answers
         /\ f.op = "try" => /\ f.of \in Machines /\ f.row \in Nat /\ f.event \in Events \cup {None}
                            /\ f.backup \subseteq States
         /\ f.op \in OpNames \cup {"call", "rows", "internal", "region", "set", "answer", "try"}
<1>1. CASE f \in [op : OpNames, of : States, event : Events \cup {None}]
  BY <1>1 DEF OpNames
<1>2. CASE f \in [op : {"call"}, of : States, kind : {"enter", "exit", "action", "internal"},
                  row : Nat, event : Events \cup {None}]
  BY <1>2 DEF OpNames
<1>3. CASE f \in [op : {"rows"}, of : Machines, event : Events \cup {None}, row : Nat]
  BY <1>3 DEF OpNames
<1>4. CASE f \in [op : {"internal"}, of : States, row : Nat]
  BY <1>4 DEF OpNames
<1>5. CASE f \in [op : {"region"}, of : Orthogonal, row : Nat, best : Answers]
  BY <1>5 DEF OpNames
<1>6. CASE f \in [op : {"set"}, of : Machines, to : States]
  BY <1>6 DEF OpNames
<1>7. CASE f \in [op : {"answer"}, of : Answers]
  BY <1>7 DEF OpNames
<1>8. CASE f \in [op : {"try"}, of : Machines, event : Events \cup {None}, row : Nat,
                  backup : SUBSET States]
  BY <1>8 DEF OpNames
<1>9. QED
  BY <1>1, <1>2, <1>3, <1>4, <1>5, <1>6, <1>7, <1>8 DEF Frame, OpNames

LEMMA OpFrame ==
  ASSUME NEW name \in OpNames, NEW n \in States, NEW e \in Events \cup {None}
  PROVE  Op(name, n, e) \in Frame /\ Op(name, n, e).op = name
         /\ Op(name, n, e).of = n /\ Op(name, n, e).event = e
  BY DEF Op, OpNames, Frame

LEMMA CallFrame ==
  ASSUME NEW kind \in {"enter", "exit", "action", "internal"}, NEW n \in States, NEW i \in Nat,
         NEW e \in Events \cup {None}
  PROVE  Call(kind, n, i, e) \in Frame /\ Call(kind, n, i, e).op = "call"
         /\ Call(kind, n, i, e).of = n /\ Call(kind, n, i, e).event = e
         /\ Handler(Call(kind, n, i, e)) = <<kind, n, i>>
  BY DEF Call, Frame, Handler

LEMMA RowsFrame ==
  ASSUME NEW m \in Machines, NEW e \in Events \cup {None}, NEW i \in Nat
  PROVE  Rows(m, e, i) \in Frame /\ Rows(m, e, i).op = "rows" /\ Rows(m, e, i).of = m
         /\ Rows(m, e, i).event = e /\ Rows(m, e, i).row = i
  BY DEF Rows, Frame

LEMMA InternalFrame ==
  ASSUME NEW n \in States, NEW i \in Nat
  PROVE  InternalRows(n, i) \in Frame /\ InternalRows(n, i).op = "internal"
         /\ InternalRows(n, i).of = n /\ InternalRows(n, i).row = i
  BY DEF InternalRows, Frame

LEMMA RegionFrame ==
  ASSUME NEW n \in Orthogonal, NEW i \in Nat, NEW best \in Answers
  PROVE  Region(n, i, best) \in Frame /\ Region(n, i, best).op = "region"
         /\ Region(n, i, best).of = n /\ Region(n, i, best).row = i
         /\ Region(n, i, best).best = best
  BY DEF Region, Frame

LEMMA SetFrame ==
  ASSUME NEW m \in Machines, NEW s \in States
  PROVE  SetCurrent(m, s) \in Frame /\ SetCurrent(m, s).op = "set"
         /\ SetCurrent(m, s).of = m /\ SetCurrent(m, s).to = s
  BY DEF SetCurrent, Frame

LEMMA AnswerFrame ==
  ASSUME NEW r \in Answers
  PROVE  Answer(r) \in Frame /\ Answer(r).op = "answer" /\ Answer(r).of = r
  BY DEF Answer, Frame

LEMMA TryFrame ==
  ASSUME NEW m \in Machines, NEW e \in Events \cup {None}, NEW i \in Nat, dirty \subseteq States
  PROVE  Try(m, e, i) \in Frame /\ Try(m, e, i).op = "try" /\ Try(m, e, i).of = m
         /\ Try(m, e, i).event = e /\ Try(m, e, i).row = i
  BY DEF Try, Frame

-----------------------------------------------------------------------------
(* Stacks *)

\* What is left of a stack when its first call has returned.
LEMMA StackedTail ==
  ASSUME NEW s \in Seq(Frame), s # <<>>, NEW e, NEW c, NEW b, Stacked(s, e, c, b)
  PROVE  /\ Head(s) \in Frame /\ Fits(Head(s), e, c, b)
         /\ Tail(s) \in Seq(Frame) /\ Stacked(Tail(s), e, c, b)
         /\ \A j \in DOMAIN Tail(s) : Scope(Head(s)) \cap Relies(Tail(s)[j]) = {}
         /\ Tail(s) # <<>> /\ Tail(s)[1].op = "try" =>
               Head(s).op = "set" /\ Head(s).of = Tail(s)[1].of /\ Unmoved(Tail(s)[1], e, c, b)
<1> DEFINE t == Tail(s)
<1>1. /\ Head(s) \in Frame /\ Head(s) = s[1] /\ 1 \in DOMAIN s /\ t \in Seq(Frame)
      /\ Len(s) \in Nat \ {0} /\ Len(t) = Len(s) - 1
      /\ DOMAIN s = 1..Len(s) /\ DOMAIN t = 1..(Len(s) - 1)
      /\ \A i \in DOMAIN t : i + 1 \in DOMAIN s /\ t[i] = s[i + 1]
  BY TailFacts
<1> HIDE DEF t
<1>2. \A j \in DOMAIN t : 1 < j + 1
  BY <1>1
<1>3. \A i, j \in DOMAIN t : i < j => i + 1 < j + 1
  BY <1>1
<1>4. \A j \in DOMAIN t : j > 1 => j - 1 \in DOMAIN t /\ (j - 1) + 1 = j /\ (j + 1) - 1 = j
                                     /\ t[j - 1] = s[j] /\ j + 1 > 1
  <2> SUFFICES ASSUME NEW j \in DOMAIN t, j > 1
               PROVE  j - 1 \in DOMAIN t /\ (j - 1) + 1 = j /\ (j + 1) - 1 = j
                        /\ t[j - 1] = s[j] /\ j + 1 > 1
    OBVIOUS
  <2>1. j - 1 \in DOMAIN t /\ (j - 1) + 1 = j /\ (j + 1) - 1 = j /\ j + 1 > 1
    BY <1>1
  <2>2. QED
    BY <1>1, <2>1
<1>5. Stacked(t, e, c, b)
  <2>1. Confined(t)
    BY <1>1, <1>3 DEF Stacked, Confined
  <2>2. \A j \in DOMAIN t : Fits(t[j], e, c, b)
    BY <1>1 DEF Stacked
  <2>3. Guarded(t, e, c, b)
    <3> SUFFICES ASSUME NEW j \in DOMAIN t, t[j].op = "try", j > 1
                 PROVE  t[j - 1].op = "set" /\ t[j - 1].of = t[j].of /\ Unmoved(t[j], e, c, b)
      BY DEF Guarded
    <3>1. /\ j + 1 \in DOMAIN s /\ t[j] = s[j + 1] /\ j + 1 > 1 /\ (j + 1) - 1 = j
          /\ t[j - 1] = s[j]
      BY <1>1, <1>4
    <3>2. s[j].op = "set" /\ s[j].of = s[j + 1].of /\ Unmoved(s[j + 1], e, c, b)
      BY <3>1 DEF Stacked, Guarded
    <3>3. QED
      BY <3>1, <3>2
  <2>4. QED
    BY <2>1, <2>2, <2>3 DEF Stacked
<1>6. \A j \in DOMAIN t : Scope(s[1]) \cap Relies(t[j]) = {}
  BY <1>1, <1>2 DEF Stacked, Confined
<1>7. t # <<>> /\ t[1].op = "try" =>
        s[1].op = "set" /\ s[1].of = t[1].of /\ Unmoved(t[1], e, c, b)
  <2> SUFFICES ASSUME t # <<>>, t[1].op = "try"
               PROVE  s[1].op = "set" /\ s[1].of = t[1].of /\ Unmoved(t[1], e, c, b)
    OBVIOUS
  <2>1. 1 \in DOMAIN t /\ 2 \in DOMAIN s /\ t[1] = s[2] /\ 2 > 1 /\ 2 - 1 = 1
    BY <1>1
  <2>2. s[1].op = "set" /\ s[1].of = s[2].of /\ Unmoved(s[2], e, c, b)
    BY <2>1 DEF Stacked, Guarded
  <2>3. QED
    BY <2>1, <2>2
<1>8. Fits(s[1], e, c, b)
  BY <1>1 DEF Stacked
<1>9. QED
  BY <1>1, <1>5, <1>6, <1>7, <1>8 DEF t

\* Calls are put before others that they cannot disturb.
LEMMA StackedConcat ==
  ASSUME NEW s \in Seq(Frame), NEW t \in Seq(Frame), NEW e, NEW c, NEW b,
         Stacked(s, e, c, b), Stacked(t, e, c, b),
         \A i \in DOMAIN s, j \in DOMAIN t : Scope(s[i]) \cap Relies(t[j]) = {},
         s = <<>> \/ (t # <<>> => t[1].op # "try")
  PROVE  s \o t \in Seq(Frame) /\ Stacked(s \o t, e, c, b)
<1> DEFINE st == s \o t
           n == Len(s)
           m == Len(t)
<1>1. /\ st \in Seq(Frame) /\ DOMAIN st = 1..(n + m)
      /\ \A i \in 1..(n + m) : st[i] = IF i <= n THEN s[i] ELSE t[i - n]
      /\ n \in Nat /\ m \in Nat /\ DOMAIN s = 1..n /\ DOMAIN t = 1..m
  <2>1. /\ st \in Seq(Frame) /\ Len(st) = n + m
        /\ \A i \in 1..(n + m) : st[i] = IF i <= n THEN s[i] ELSE t[i - n]
    BY ConcatProperties
  <2>2. QED
    BY <2>1
<1> HIDE DEF st, n, m
<1>2. \A i \in DOMAIN st : \/ i \in DOMAIN s /\ st[i] = s[i]
                           \/ i - n \in DOMAIN t /\ i > n /\ st[i] = t[i - n]
  <2> SUFFICES ASSUME NEW i \in DOMAIN st
               PROVE  \/ i \in DOMAIN s /\ st[i] = s[i]
                      \/ i - n \in DOMAIN t /\ i > n /\ st[i] = t[i - n]
    OBVIOUS
  <2>1. i <= n => i \in 1..n
    BY <1>1
  <2>2. ~(i <= n) => i - n \in 1..m /\ i > n
    BY <1>1
  <2>3. QED
    BY <1>1, <2>1, <2>2
<1>3. Confined(st)
  <2> SUFFICES ASSUME NEW i \in DOMAIN st, NEW j \in DOMAIN st, i < j
               PROVE  Scope(st[i]) \cap Relies(st[j]) = {}
    BY DEF Confined
  <2>1. CASE i \in DOMAIN s /\ st[i] = s[i] /\ j \in DOMAIN s /\ st[j] = s[j]
    BY <2>1 DEF Stacked, Confined
  <2>2. CASE i \in DOMAIN s /\ st[i] = s[i] /\ j - n \in DOMAIN t /\ st[j] = t[j - n]
    BY <2>2
  <2>3. CASE i > n /\ j \in DOMAIN s
    BY <1>1, <2>3
  <2>4. CASE i - n \in DOMAIN t /\ st[i] = t[i - n] /\ j - n \in DOMAIN t /\ st[j] = t[j - n]
    <3>1. i - n < j - n
      BY <1>1
    <3>2. QED
      BY <2>4, <3>1 DEF Stacked, Confined
  <2>5. QED
    BY <1>2, <2>1, <2>2, <2>3, <2>4
<1>4. \A j \in DOMAIN st : Fits(st[j], e, c, b)
  BY <1>2 DEF Stacked
<1>5. Guarded(st, e, c, b)
  <2> SUFFICES ASSUME NEW j \in DOMAIN st, st[j].op = "try", j > 1
               PROVE  st[j - 1].op = "set" /\ st[j - 1].of = st[j].of /\ Unmoved(st[j], e, c, b)
    BY DEF Guarded
  <2>1. CASE j \in DOMAIN s /\ st[j] = s[j]
    <3>1. j - 1 \in DOMAIN st /\ j - 1 <= n /\ j - 1 \in 1..(n + m)
      BY <1>1, <2>1
    <3>2. st[j - 1] = s[j - 1]
      BY <1>1, <3>1
    <3>3. s[j - 1].op = "set" /\ s[j - 1].of = s[j].of /\ Unmoved(s[j], e, c, b)
      BY <2>1 DEF Stacked, Guarded
    <3>4. QED
      BY <2>1, <3>2, <3>3
  <2>2. CASE j - n \in DOMAIN t /\ j > n /\ st[j] = t[j - n]
    <3>1. CASE j - n = 1
      <4>1. t # <<>> /\ t[1].op = "try"
        BY <1>1, <2>2, <3>1
      <4>2. n = 0
        BY <4>1 DEF n
      <4>3. QED
        BY <1>1, <3>1, <4>2
    <3>2. CASE j - n # 1
      <4>1. /\ j - n > 1 /\ (j - 1) - n = (j - n) - 1 /\ ~(j - 1 <= n)
            /\ j - 1 \in 1..(n + m)
        BY <1>1, <2>2, <3>2
      <4>2. st[j - 1] = t[(j - n) - 1]
        BY <1>1, <4>1
      <4>3. /\ t[(j - n) - 1].op = "set" /\ t[(j - n) - 1].of = t[j - n].of
            /\ Unmoved(t[j - n], e, c, b)
        BY <2>2, <4>1 DEF Stacked, Guarded
      <4>4. QED
        BY <2>2, <4>2, <4>3
    <3>3. QED
      BY <3>1, <3>2
  <2>3. QED
    BY <1>2, <2>1, <2>2
<1>6. QED
  BY <1>1, <1>3, <1>4, <1>5 DEF Stacked, st

\* The first call is replaced by calls that reach no further.
LEMMA StackedDo ==
  ASSUME NEW s \in Seq(Frame), s # <<>>, NEW e, NEW c, NEW b, Stacked(s, e, c, b),
         NEW ops \in Seq(Frame), Stacked(ops, e, c, b),
         \A i \in DOMAIN ops : Scope(ops[i]) \subseteq Scope(Head(s)),
         ops = <<>> \/ Head(s).op # "set"
  PROVE  ops \o Tail(s) \in Seq(Frame) /\ Stacked(ops \o Tail(s), e, c, b)
<1>1. /\ Tail(s) \in Seq(Frame) /\ Stacked(Tail(s), e, c, b)
      /\ \A j \in DOMAIN Tail(s) : Scope(Head(s)) \cap Relies(Tail(s)[j]) = {}
      /\ Tail(s) # <<>> /\ Tail(s)[1].op = "try" => Head(s).op = "set"
  BY StackedTail
<1>2. \A i \in DOMAIN ops, j \in DOMAIN Tail(s) : Scope(ops[i]) \cap Relies(Tail(s)[j]) = {}
  BY <1>1
<1>3. QED
  BY <1>1, <1>2, StackedConcat

\* Current states may change where no call relies on them.
LEMMA FitsElsewhere ==
  ASSUME NEW f \in Frame, NEW e, NEW c, NEW b, NEW d, Fits(f, e, c, b),
         \A m \in Machines \cap Relies(f) : d[m] = c[m]
  PROVE  Fits(f, e, d, b)
<1>1. FitsDispatch(f, e, d, b)
  BY DEF Fits, FitsDispatch, Same
<1>2. f.op \in {"rows", "set"} => Relies(f) = {f.of} /\ f.of \in Machines
  BY FrameFields DEF Relies
<1>3. f.op \in {"rows", "set"} => d[f.of] = c[f.of]
  BY <1>2
<1>4. FitsTransition(f, e, d, b)
  BY <1>3 DEF Fits, FitsTransition, Same
<1>5. QED
  BY <1>1, <1>4 DEF Fits

LEMMA StackedElsewhere ==
  ASSUME NEW s \in Seq(Frame), NEW e, NEW c, NEW b, NEW d, Stacked(s, e, c, b),
         \A j \in DOMAIN s : \A m \in Machines \cap Relies(s[j]) : d[m] = c[m]
  PROVE  Stacked(s, e, d, b)
<1>1. \A j \in DOMAIN s : s[j] \in Frame
  OBVIOUS
<1>2. \A j \in DOMAIN s : Fits(s[j], e, d, b)
  BY <1>1, FitsElsewhere DEF Stacked
<1>3. Guarded(s, e, d, b)
  <2> SUFFICES ASSUME NEW j \in DOMAIN s, s[j].op = "try", j > 1
               PROVE  s[j - 1].op = "set" /\ s[j - 1].of = s[j].of /\ Unmoved(s[j], e, d, b)
    BY DEF Guarded
  <2>1. s[j - 1].op = "set" /\ s[j - 1].of = s[j].of /\ Unmoved(s[j], e, c, b)
    BY DEF Stacked, Guarded
  <2>2. j - 1 \in DOMAIN s
    OBVIOUS
  <2>3. s[j - 1].of \in Machines /\ Relies(s[j - 1]) = {s[j].of}
    BY <1>1, <2>1, <2>2, FrameFields DEF Relies
  <2>4. d[s[j].of] = c[s[j].of]
    BY <2>1, <2>2, <2>3
  <2>5. QED
    BY <2>1, <2>4 DEF Unmoved, Same
<1>4. QED
  BY <1>2, <1>3 DEF Stacked

-----------------------------------------------------------------------------
(* The first of some rows *)

\* What has no least element would have, with a number, the one before it;
\* a finite set would then be mapped one to one to a proper part of itself.
LEMMA FirstOf ==
  ASSUME NEW S \in SUBSET Nat, S # {}
  PROVE  First(S) \in S /\ \A j \in S : First(S) <= j
<1>1. SUFFICES ASSUME \A i \in S : \E j \in S : ~(i <= j)
               PROVE  FALSE
  BY DEF First
<1>2. PICK n \in S : TRUE
  OBVIOUS
<1> DEFINE U == {k \in 0..n : \E j \in S : j <= k}
           before == [k \in U |-> k - 1]
<1>3. n \in U /\ U \subseteq 0..n
  BY <1>2
<1>4. IsFiniteSet(U)
  <2>1. IsFiniteSet(0..n)
    BY <1>2, FS_Interval
  <2>2. QED
    BY <1>3, <2>1, FS_Subset
<1>5. \A k \in U : k - 1 \in U
  <2> SUFFICES ASSUME NEW k \in U PROVE k - 1 \in U
    OBVIOUS
  <2>1. PICK j \in S : j <= k
    OBVIOUS
  <2>2. PICK i \in S : ~(j <= i)
    BY <1>1
  <2>3. i <= k - 1 /\ k - 1 \in 0..n
    BY <1>2, <2>1, <2>2
  <2>4. QED
    BY <2>3
<1>6. U \subseteq Int
  BY <1>2
<1> HIDE DEF U
<1>7. before \in Injection(U, U)
  <2>1. before \in [U -> U]
    BY <1>5
  <2>2. \A a, b \in U : before[a] = before[b] => a = b
    BY <1>6
  <2>3. QED
    BY <2>1, <2>2 DEF Injection, IsInjective
<1>8. before \in Surjection(U, U)
  BY <1>4, <1>7, FS_Injection
<1>9. PICK k \in U : before[k] = n
  BY <1>3, <1>8 DEF Surjection
<1>10. QED
  BY <1>2, <1>3, <1>6, <1>9

-----------------------------------------------------------------------------
(* The stacks that replace a call *)

LEMMA StackedNothing ==
  ASSUME NEW e, NEW c, NEW b
  PROVE  <<>> \in Seq(Frame) /\ Stacked(<<>>, e, c, b)
  BY DEF Stacked, Confined, Guarded

LEMMA StackedOne ==
  ASSUME NEW f \in Frame, NEW e, NEW c, NEW b, Fits(f, e, c, b)
  PROVE  <<f>> \in Seq(Frame) /\ Stacked(<<f>>, e, c, b)
<1>1. <<f>> \in Seq(Frame) /\ DOMAIN <<f>> = {1} /\ <<f>>[1] = f
  OBVIOUS
<1>2. QED
  BY <1>1 DEF Stacked, Confined, Guarded

\* One more call before those of a stack.
LEMMA StackedCons ==
  ASSUME NEW f \in Frame, NEW t \in Seq(Frame), NEW e, NEW c, NEW b,
         Fits(f, e, c, b), Stacked(t, e, c, b),
         \A j \in DOMAIN t : Scope(f) \cap Relies(t[j]) = {},
         t # <<>> => t[1].op # "try"
  PROVE  <<f>> \o t \in Seq(Frame) /\ Stacked(<<f>> \o t, e, c, b)
<1>1. <<f>> \in Seq(Frame) /\ Stacked(<<f>>, e, c, b) /\ DOMAIN <<f>> = {1} /\ <<f>>[1] = f
  BY StackedOne
<1>2. QED
  BY <1>1, StackedConcat

LEMMA StackedTwo ==
  ASSUME NEW f \in Frame, NEW g \in Frame, NEW e, NEW c, NEW b,
         Fits(f, e, c, b), Fits(g, e, c, b), Scope(f) \cap Relies(g) = {}, g.op # "try"
  PROVE  <<f, g>> \in Seq(Frame) /\ Stacked(<<f, g>>, e, c, b)
<1> DEFINE s == <<f, g>>
<1>1. s \in Seq(Frame) /\ DOMAIN s = {1, 2} /\ s[1] = f /\ s[2] = g
  OBVIOUS
<1> HIDE DEF s
<1>2. Confined(s)
  <2>1. \A i, j \in DOMAIN s : i < j => i = 1 /\ j = 2
    BY <1>1
  <2>2. QED
    BY <1>1, <2>1 DEF Confined
<1>3. \A j \in DOMAIN s : Fits(s[j], e, c, b)
  BY <1>1
<1>4. Guarded(s, e, c, b)
  <2>1. \A j \in DOMAIN s : j > 1 => s[j] = g
    BY <1>1
  <2>2. QED
    BY <2>1 DEF Guarded
<1>5. QED
  BY <1>1, <1>2, <1>3, <1>4 DEF Stacked, s

-----------------------------------------------------------------------------
(* Steps that only replace the first call *)

Begun == start.current

\* What the proof of such a step has to show.
LEMMA Replaced ==
  ASSUME TypeOK, StackInv, todo # <<>>, ~throwing,
         NEW ops \in Seq(Frame), Stacked(ops, event, current, Begun),
         \A i \in DOMAIN ops : Scope(ops[i]) \subseteq Scope(Head(todo)),
         ops = <<>> \/ Head(todo).op # "set",
         Do(ops), res' \in Answers,
         Promised(res', event, Begun) \/ (ops # <<>> /\ ops[1].op = "dispatch"),
         UNCHANGED <<tree, program, event, throwing, history>>
  PROVE  TypeOK' /\ StackInv'
<1>1. todo \in Seq(Frame) /\ Stacked(todo, event, current, Begun) /\ event \in Events
  BY DEF TypeOK, StackInv, Begun
<1>2. todo' \in Seq(Frame) /\ Stacked(todo', event, current, Begun)
  BY <1>1, StackedDo DEF Do
<1>3. ops # <<>> => todo' # <<>> /\ Head(todo') = ops[1]
  <2>1. Tail(todo) \in Seq(Frame)
    BY <1>1, TailFacts
  <2>2. ops # <<>> => todo' # <<>> /\ Head(todo') = Head(ops) /\ Head(ops) = ops[1]
    BY <2>1, HeadTailConcat, TailFacts DEF Do
  <2>3. QED
    BY <2>2
<1>4. TypeOK'
  BY <1>2 DEF TypeOK, tree, program, history
<1>5. StackInv'
  BY <1>1, <1>2, <1>3 DEF StackInv, Begun, tree, program, history
<1>6. QED
  BY <1>4, <1>5

\* What there is to know of the first call.
LEMMA FirstCall ==
  ASSUME TypeOK, StackInv, todo # <<>>
  PROVE  /\ todo \in Seq(Frame) /\ Head(todo) \in Frame
         /\ Stacked(todo, event, current, Begun)
         /\ Fits(Head(todo), event, current, Begun)
         /\ event \in Events /\ event # None /\ Kind(event) = TypeOf[event]
         /\ Kind(event) # None /\ res \in Answers
         /\ Head(todo).op # "dispatch" => Promised(res, event, Begun)
<1>1. todo \in Seq(Frame) /\ event \in Events /\ Stacked(todo, event, current, Begun)
      /\ res \in Answers
  BY DEF TypeOK, StackInv, Begun
<1>2. Head(todo) \in Frame /\ Fits(Head(todo), event, current, Begun)
  BY <1>1, StackedTail
<1>3. event # None /\ Kind(event) = TypeOf[event] /\ Kind(event) # None
  BY <1>1, TableAssumption DEF Kind, Range
<1>4. Head(todo).op # "dispatch" => Promised(res, event, Begun)
  BY DEF StackInv, Begun
<1>5. QED
  BY <1>1, <1>2, <1>3, <1>4

LEMMA ProcessPromised ==
  ASSUME NEW e, NEW b
  PROVE  /\ Promised("refuse", e, b)
         /\ Promised("process", e, b) <=> Due(e, b)
         /\ Promised("in_state", e, b) <=> Due(e, b)
  BY DEF Promised

LEMMA AnyHandled ==
  ASSUME NEW b, NEW n \in Active(b)
  PROVE  Available(n, b) \ {None} \subseteq CurrentHandled(b)
<1>1. Available(n, b) \in {Available(x, b) : x \in Active(b)}
  OBVIOUS
<1>2. Available(n, b) \subseteq UNION {Available(x, b) : x \in Active(b)}
  BY ONLY <1>1
<1>3. QED
  BY <1>2 DEF CurrentHandled

\* The rows out of the current state of an active machine are published.
LEMMA RowsPublished ==
  ASSUME NEW e \in Events, NEW b, NEW m \in Machines, m \in Active(b),
         NEW i \in DOMAIN Table[m], Table[m][i].from = b[m], Table[m][i].event = Kind(e)
  PROVE  Due(e, b)
<1>1. Kind(e) # None
  BY TableAssumption DEF Kind, Range
<1>2. Kind(e) \in Available(m, b)
  BY DEF Available, ToSet
<1>3. QED
  BY <1>1, <1>2, AnyHandled DEF Due

LEMMA InternalPublished ==
  ASSUME NEW e \in Events, NEW b, NEW n \in Active(b),
         NEW i \in DOMAIN Internal[n], Internal[n][i].event = Kind(e)
  PROVE  Due(e, b)
<1>1. Kind(e) # None
  BY TableAssumption DEF Kind, Range
<1>2. Kind(e) \in Available(n, b)
  BY DEF Available, InternalEvents, ToSet
<1>3. QED
  BY <1>1, <1>2, AnyHandled DEF Due

-----------------------------------------------------------------------------
(* Dispatch *)

\* A machine is left in the state in which the event meets it.
LEMMA DispatchedMachine ==
  ASSUME TypeOK, NEW n \in Machines, n \in Active(Begun), event \in Events,
         Same(Below(n), current, Begun)
  PROVE  /\ MachineDispatch(n) \in Seq(Frame)
         /\ Stacked(MachineDispatch(n), event, current, Begun)
         /\ \A i \in DOMAIN MachineDispatch(n) : Scope(MachineDispatch(n)[i]) \subseteq Below(n)
         /\ MachineDispatch(n) # <<>> /\ MachineDispatch(n)[1].op = "dispatch"
<1> DEFINE s == current[n]
           d == Op("dispatch", s, event)
           r == Rows(n, event, 1)
           t == Op("settle", n, None)
           i == InternalRows(n, 1)
           ops == MachineDispatch(n)
<1>1. /\ n \in States /\ s \in Children(n) /\ s \in States /\ n \in Below(n)
      /\ Below(s) \subseteq Below(n) \ {n} /\ current[n] = Begun[n]
  BY TreeAssumption, UpSelf, BelowChild, ParentInTree DEF TypeOK, Same, Children
<1>2. s \in Active(Begun)
  BY <1>1, ActiveChild
<1>3. /\ d \in Frame /\ d.op = "dispatch" /\ d.of = s /\ d.event = event
      /\ r \in Frame /\ r.op = "rows" /\ r.of = n /\ r.event = event /\ r.row = 1
      /\ t \in Frame /\ t.op = "settle" /\ t.of = n
      /\ i \in Frame /\ i.op = "internal" /\ i.of = n /\ i.row = 1
  BY <1>1, OpFrame, RowsFrame, InternalFrame DEF OpNames
<1>4. ops = <<d, r, t, i>>
  BY DEF MachineDispatch
<1> HIDE DEF d, r, t, i, ops, s
<1>5. /\ ops \in Seq(Frame) /\ DOMAIN ops = {1, 2, 3, 4} /\ ops # <<>>
      /\ ops[1] = d /\ ops[2] = r /\ ops[3] = t /\ ops[4] = i
  BY <1>3, <1>4
<1>6. /\ Scope(d) = Below(s) /\ Scope(r) = Below(n) /\ Scope(t) = Below(n) /\ Scope(i) = {}
      /\ Relies(d) = Below(s) /\ Relies(r) = {n} /\ Relies(t) = {} /\ Relies(i) = {}
  BY <1>3 DEF Scope, Relies
<1>7. Fits(d, event, current, Begun)
  <2>1. Same(Below(s), current, Begun)
    BY <1>1 DEF Same
  <2>2. QED
    BY <1>2, <1>3, <1>6, <2>1 DEF Fits, FitsDispatch, FitsTransition
<1>8. Fits(r, event, current, Begun)
  BY <1>1, <1>3 DEF Fits, FitsDispatch, FitsTransition, Same
<1>9. Fits(t, event, current, Begun)
  BY <1>3 DEF Fits, FitsDispatch, FitsTransition
<1>10. Fits(i, event, current, Begun)
  BY <1>3 DEF Fits, FitsDispatch, FitsTransition
<1>11. Confined(ops)
  <2>1. Scope(d) \cap Relies(r) = {}
    BY <1>1, <1>6
  <2>2. \A k, j \in DOMAIN ops : k < j => (k = 1 /\ j = 2) \/ j = 3 \/ j = 4
    BY <1>5
  <2>3. QED
    BY <1>5, <1>6, <2>1, <2>2 DEF Confined
<1>12. Guarded(ops, event, current, Begun)
  BY <1>3, <1>5 DEF Guarded
<1>13. QED
  BY <1>1, <1>3, <1>5, <1>6, <1>7, <1>8, <1>9, <1>10, <1>11, <1>12 DEF Stacked, ops

\* What one region does, the others after it do not notice.
LEMMA RegionsApart ==
  ASSUME NEW o \in Orthogonal, NEW k \in 1..Len(Regions[o])
  PROVE  /\ Regions[o][k] \in Children(o) /\ Regions[o][k] \in States
         /\ Below(Regions[o][k]) \subseteq Below(o)
         /\ Below(Regions[o][k]) \cap UNION {Below(r) : r \in RegionsFrom(o, k + 1)} = {}
         /\ Below(Regions[o][k]) \subseteq UNION {Below(r) : r \in RegionsFrom(o, k)}
         /\ UNION {Below(r) : r \in RegionsFrom(o, k + 1)}
              \subseteq UNION {Below(r) : r \in RegionsFrom(o, k)}
<1> DEFINE s == Regions[o][k]
<1>1. /\ Len(Regions[o]) \in Nat /\ DOMAIN Regions[o] = 1..Len(Regions[o])
      /\ \A i \in DOMAIN Regions[o] : /\ Regions[o][i] \in Children(o)
                                      /\ Regions[o][i] \in States
      /\ \A i, j \in DOMAIN Regions[o] : i # j => Regions[o][i] # Regions[o][j]
  BY RegionsOf
<1>2. s \in Children(o) /\ s \in States
  BY <1>1
<1>3. \A r \in RegionsFrom(o, k + 1) : r \in RegionsFrom(o, k) /\ r \in Children(o) /\ r # s
  <2> SUFFICES ASSUME NEW r \in RegionsFrom(o, k + 1)
               PROVE  r \in RegionsFrom(o, k) /\ r \in Children(o) /\ r # s
    OBVIOUS
  <2>1. PICK j \in (k + 1)..Len(Regions[o]) : r = Regions[o][j]
    BY DEF RegionsFrom
  <2>2. j \in k..Len(Regions[o]) /\ j \in DOMAIN Regions[o] /\ k \in DOMAIN Regions[o] /\ j # k
    BY <1>1
  <2>3. QED
    BY <1>1, <2>1, <2>2 DEF RegionsFrom
<1>4. s \in RegionsFrom(o, k)
  BY <1>1 DEF RegionsFrom
<1>5. Below(s) \subseteq Below(o)
  BY <1>2, BelowChild
<1>6. \A r \in RegionsFrom(o, k + 1) : Below(s) \cap Below(r) = {}
  BY <1>2, <1>3, SiblingsApart
<1>7. QED
  BY <1>2, <1>3, <1>4, <1>5, <1>6

LEMMA AllRegions ==
  ASSUME NEW o \in Orthogonal
  PROVE  UNION {Below(r) : r \in RegionsFrom(o, 1)} \subseteq Below(o)
<1>1. \A r \in RegionsFrom(o, 1) : r \in Children(o)
  BY RegionsOf DEF RegionsFrom
<1>2. QED
  BY <1>1, BelowChild

LEMMA Returned ==
  ASSUME TypeOK, StackInv, todo # <<>>, ~throwing, Do(<<>>), res' \in Answers,
         Promised(res', event, Begun), UNCHANGED <<tree, program, event, throwing, history>>
  PROVE  TypeOK' /\ StackInv'
<1> DEFINE ops == <<>>
<1>1. ops \in Seq(Frame) /\ Stacked(ops, event, current, Begun)
  BY StackedNothing
<1>2. ops = <<>> /\ DOMAIN ops = {} /\ Do(ops)
  OBVIOUS
<1> HIDE DEF ops
<1>3. \A i \in DOMAIN ops : Scope(ops[i]) \subseteq Scope(Head(todo))
  BY <1>2
<1>4. QED
  BY <1>1, <1>2, <1>3, Replaced

LEMMA DispatchStep ==
  ASSUME TypeOK, StackInv, Dispatch
  PROVE  TypeOK' /\ StackInv'
<1> DEFINE f == Head(todo)
           n == f.of
<1>1. /\ todo # <<>> /\ ~throwing /\ f.op = "dispatch" /\ DispatchTo(n)
      /\ UNCHANGED <<tree, program, event, throwing, history>>
  BY DEF Dispatch, Doing
<1>2. /\ f \in Frame /\ Fits(f, event, current, Begun) /\ event \in Events
  BY <1>1, FirstCall
<1>3. n \in States /\ Scope(f) = Below(n) /\ Relies(f) = Below(n)
  BY <1>1, <1>2, FrameFields DEF Scope, Relies, OpNames
<1>4. n \in Active(Begun) /\ Same(Below(n), current, Begun)
  BY <1>1, <1>2, <1>3 DEF Fits, FitsDispatch
<1> HIDE DEF f, n
<1>5. CASE Kind(event) \notin Handled[n]
  <2>1. res' = (IF Kind(event) \in Deferred[n] THEN "defer" ELSE "refuse") /\ Do(<<>>)
    BY <1>1, <1>5 DEF DispatchTo, Return
  <2>2. Kind(event) \in Deferred[n] => Kind(event) \in CurrentDeferrable(Begun)
    BY <1>4 DEF CurrentDeferrable
  <2>3. res' \in Answers /\ Promised(res', event, Begun)
    BY <2>1, <2>2 DEF Promised, Answers
  <2>4. QED
    BY <1>1, <2>1, <2>3, Returned
<1>6. CASE Kind(event) \in Handled[n]
  <2>1. res' = "refuse" /\ res' \in Answers /\ Promised(res', event, Begun)
    BY <1>1, <1>6 DEF DispatchTo, Promised, Answers
  <2>2. CASE n \in Machines
    <3>1. Do(MachineDispatch(n))
      BY <1>1, <1>6, <2>2, TreeAssumption DEF DispatchTo
    <3>2. /\ MachineDispatch(n) \in Seq(Frame)
          /\ Stacked(MachineDispatch(n), event, current, Begun)
          /\ \A i \in DOMAIN MachineDispatch(n) : Scope(MachineDispatch(n)[i]) \subseteq Scope(f)
      BY <1>2, <1>3, <1>4, <2>2, DispatchedMachine
    <3>3. QED
      BY <1>1, <2>1, <3>1, <3>2, Replaced DEF f
  <2>3. InternalRows(n, 1) \in Frame /\ Fits(InternalRows(n, 1), event, current, Begun)
        /\ Scope(InternalRows(n, 1)) = {} /\ Relies(InternalRows(n, 1)) = {}
        /\ InternalRows(n, 1).op = "internal"
    <3>1. /\ InternalRows(n, 1) \in Frame /\ InternalRows(n, 1).op = "internal"
          /\ InternalRows(n, 1).of = n /\ InternalRows(n, 1).row = 1
      BY <1>3, InternalFrame
    <3> HIDE DEF InternalRows
    <3>2. QED
      BY <1>4, <3>1 DEF Fits, FitsDispatch, FitsTransition, Scope, Relies
  <2>4. CASE n \in Orthogonal
    <3> DEFINE g == Region(n, 1, "refuse")
               i == InternalRows(n, 1)
    <3>1. Do(<<g, i>>)
      BY <1>1, <1>6, <2>4, TreeAssumption DEF DispatchTo, RegionsDispatch
    <3>2. /\ g \in Frame /\ g.op = "region" /\ g.of = n /\ g.row = 1 /\ g.best = "refuse"
      BY <2>4, RegionFrame DEF Answers
    <3> HIDE DEF g, i
    <3>3. Relies(g) = UNION {Below(r) : r \in RegionsFrom(n, 1)} /\ Scope(g) = Below(n)
      BY <3>2 DEF Relies, Scope
    <3>4. Relies(g) \subseteq Below(n)
      BY <2>4, <3>3, AllRegions
    <3>5. Same(Relies(g), current, Begun)
      BY <1>4, <3>4 DEF Same
    <3>6. Fits(g, event, current, Begun)
      BY <1>4, <3>2, <3>5 DEF Fits, FitsDispatch, FitsTransition, Promised
    <3>7. <<g, i>> \in Seq(Frame) /\ Stacked(<<g, i>>, event, current, Begun)
      BY <2>3, <3>2, <3>6, StackedTwo DEF i
    <3>8. \A j \in DOMAIN <<g, i>> : Scope(<<g, i>>[j]) \subseteq Scope(f)
      BY <1>3, <2>3, <3>3 DEF i
    <3>9. QED
      BY <1>1, <2>1, <3>1, <3>7, <3>8, Replaced DEF f
  <2>5. CASE n \notin Machines /\ n \notin Orthogonal
    <3>1. Do(<<InternalRows(n, 1)>>)
      BY <1>1, <1>6, <2>5 DEF DispatchTo, StateDispatch
    <3>2. /\ <<InternalRows(n, 1)>> \in Seq(Frame)
          /\ Stacked(<<InternalRows(n, 1)>>, event, current, Begun)
      BY <2>3, StackedOne
    <3>3. \A j \in DOMAIN <<InternalRows(n, 1)>> :
             Scope(<<InternalRows(n, 1)>>[j]) \subseteq Scope(f)
      BY <2>3
    <3>4. QED
      BY <1>1, <2>1, <3>1, <3>2, <3>3, Replaced DEF f
  <2>6. QED
    BY <2>2, <2>4, <2>5
<1>7. QED
  BY <1>5, <1>6

LEMMA NextRegionStep ==
  ASSUME TypeOK, StackInv, NextRegion
  PROVE  TypeOK' /\ StackInv'
<1> DEFINE f == Head(todo)
           best == Better(f.best, res)
           o == f.of
<1>1. /\ todo # <<>> /\ ~throwing /\ f.op = "region"
      /\ UNCHANGED <<tree, program, event, throwing, history>>
      /\ IF f.row > Len(Regions[o])
         THEN Return(best)
         ELSE /\ Do(<<Op("dispatch", Regions[o][f.row], event), Region(o, f.row + 1, best)>>)
              /\ UNCHANGED res
  BY DEF NextRegion, Doing
<1>2. /\ f \in Frame /\ Fits(f, event, current, Begun) /\ event \in Events
      /\ res \in Answers /\ Promised(res, event, Begun)
  BY <1>1, FirstCall
<1>3. /\ o \in Orthogonal /\ f.row \in Nat /\ f.best \in Answers /\ Scope(f) = Below(o)
      /\ Relies(f) = UNION {Below(r) : r \in RegionsFrom(o, f.row)}
  BY <1>1, <1>2, FrameFields DEF Scope, Relies
<1>4. /\ o \in Active(Begun) /\ Same(Relies(f), current, Begun) /\ f.row >= 1
      /\ Promised(f.best, event, Begun)
  BY <1>1, <1>2 DEF Fits, FitsDispatch
<1>5. best \in Answers /\ Promised(best, event, Begun)
  BY <1>2, <1>3, <1>4 DEF Better
<1> HIDE DEF f, best, o
<1>6. CASE f.row > Len(Regions[o])
  <2>1. res' = best /\ Do(<<>>)
    BY <1>1, <1>6 DEF Return
  <2>2. QED
    BY <1>1, <1>5, <2>1, Returned
<1>7. CASE ~(f.row > Len(Regions[o]))
  <2> DEFINE s == Regions[o][f.row]
             d == Op("dispatch", s, event)
             g == Region(o, f.row + 1, best)
  <2>1. Do(<<d, g>>) /\ res' = res
    BY <1>1, <1>7
  <2>2. f.row \in 1..Len(Regions[o]) /\ f.row + 1 \in Nat /\ f.row + 1 >= 1
    BY <1>3, <1>4, <1>7, RegionsOf
  <2>3. /\ s \in Children(o) /\ s \in States /\ Below(s) \subseteq Below(o)
        /\ Below(s) \cap UNION {Below(r) : r \in RegionsFrom(o, f.row + 1)} = {}
        /\ Below(s) \subseteq Relies(f)
        /\ UNION {Below(r) : r \in RegionsFrom(o, f.row + 1)} \subseteq Relies(f)
    BY <1>3, <2>2, RegionsApart
  <2>4. s \in Active(Begun)
    BY <1>3, <1>4, <2>3, ActiveChild, TreeAssumption
  <2>5. /\ d \in Frame /\ d.op = "dispatch" /\ d.of = s /\ d.event = event
        /\ g \in Frame /\ g.op = "region" /\ g.of = o /\ g.row = f.row + 1 /\ g.best = best
    BY <1>2, <1>3, <1>5, <2>2, <2>3, OpFrame, RegionFrame DEF OpNames
  <2> HIDE DEF d, g, s
  <2>6. /\ Scope(d) = Below(s) /\ Relies(d) = Below(s) /\ Scope(g) = Below(o)
        /\ Relies(g) = UNION {Below(r) : r \in RegionsFrom(o, f.row + 1)}
    BY <2>5 DEF Scope, Relies
  <2>7. Same(Relies(d), current, Begun) /\ Same(Relies(g), current, Begun)
    BY <1>4, <2>3, <2>6 DEF Same
  <2>8. Fits(d, event, current, Begun)
    BY <2>4, <2>5, <2>7 DEF Fits, FitsDispatch, FitsTransition
  <2>9. Fits(g, event, current, Begun)
    BY <1>4, <1>5, <2>2, <2>5, <2>7 DEF Fits, FitsDispatch, FitsTransition
  <2>10. <<d, g>> \in Seq(Frame) /\ Stacked(<<d, g>>, event, current, Begun)
    BY <2>3, <2>5, <2>6, <2>8, <2>9, StackedTwo
  <2>11. \A j \in DOMAIN <<d, g>> : Scope(<<d, g>>[j]) \subseteq Scope(f)
    BY <1>3, <2>3, <2>6
  <2>12. QED
    BY <1>1, <1>2, <2>1, <2>10, <2>11, Replaced DEF f
<1>8. QED
  BY <1>6, <1>7

-----------------------------------------------------------------------------
(* Transitions *)

LEMMA NoMoreRowsStep ==
  ASSUME TypeOK, StackInv, NoMoreRows
  PROVE  TypeOK' /\ StackInv'
<1>1. /\ todo # <<>> /\ ~throwing /\ Head(todo).op # "dispatch" /\ Do(<<>>)
      /\ UNCHANGED <<tree, program, event, res, throwing, history>>
  BY DEF NoMoreRows, Doing
<1>2. res \in Answers /\ Promised(res, event, Begun)
  BY <1>1, FirstCall
<1>3. QED
  BY <1>1, <1>2, Returned

LEMMA ActionHandler ==
  ASSUME NEW m \in Machines, NEW i \in DOMAIN Table[m]
  PROVE  <<"action", m, i>> \in Handlers
<1>1. <<"action", m, i>> \in {<<"action", m, j>> : j \in DOMAIN Table[m]}
  OBVIOUS
<1>2. {<<"action", m, j>> : j \in DOMAIN Table[m]}
        \in {{<<"action", x, j>> : j \in DOMAIN Table[x]} : x \in Machines}
  OBVIOUS
<1>3. <<"action", m, i>> \in UNION {{<<"action", x, j>> : j \in DOMAIN Table[x]} : x \in Machines}
  BY ONLY <1>1, <1>2
<1>4. QED
  BY <1>3 DEF Handlers

LEMMA InternalHandler ==
  ASSUME NEW n \in States, NEW i \in DOMAIN Internal[n]
  PROVE  <<"internal", n, i>> \in Handlers
<1>1. <<"internal", n, i>> \in {<<"internal", n, j>> : j \in DOMAIN Internal[n]}
  OBVIOUS
<1>2. {<<"internal", n, j>> : j \in DOMAIN Internal[n]}
        \in {{<<"internal", x, j>> : j \in DOMAIN Internal[x]} : x \in States}
  OBVIOUS
<1>3. <<"internal", n, i>> \in UNION {{<<"internal", x, j>> : j \in DOMAIN Internal[x]} : x \in States}
  BY ONLY <1>1, <1>2
<1>4. QED
  BY <1>3 DEF Handlers

LEMMA EntryHandler ==
  ASSUME NEW n \in States, NEW kind \in {"enter", "exit"}
  PROVE  <<kind, n, 0>> \in Handlers
<1>1. <<kind, n, 0>> \in {<<k, s, 0>> : k \in {"enter", "exit"}, s \in States}
  OBVIOUS
<1>2. QED
  BY <1>1 DEF Handlers

\* The calls that make a transition.
LEMMA TransitionCalls ==
  ASSUME TypeOK, NEW m \in Machines, NEW e \in Events \cup {None}, NEW i \in DOMAIN Table[m]
  PROVE  LET r == Table[m][i]
             ops == Transition(m, e, i)
         IN
         /\ ops \in Seq(Frame) /\ DOMAIN ops \subseteq {1, 2, 3, 4, 5, 6}
         /\ {1, 2, 3, 4, 5} \subseteq DOMAIN ops
         /\ ops[1].op = "exit" /\ ops[1].of = r.from /\ ops[1].event = e
         /\ ops[2].op = "call" /\ Handler(ops[2]) \in Handlers
         /\ ops[3].op = "enter" /\ ops[3].of = r.to /\ ops[3].event = e
         /\ ops[4].op = "clear" /\ ops[4].of = r.from /\ ops[4].event = e
         /\ ops[5].op = "set" /\ ops[5].of = m /\ ops[5].to = r.to
         /\ 6 \in DOMAIN ops => /\ ops[6].op = "try" /\ ops[6].of = m
                                /\ ops[6].event = e /\ ops[6].row = i
<1> DEFINE r == Table[m][i]
           x == Op("exit", r.from, e)
           a == Call("action", m, i, e)
           n == Op("enter", r.to, e)
           l == Op("clear", r.from, e)
           s == SetCurrent(m, r.to)
           t == Try(m, e, i)
           five == <<x, a, n, l, s>>
           last == Tried(m, e, i)
           ops == five \o last
<1>1. /\ m \in States /\ i \in Nat /\ r.from \in States /\ r.to \in States
  BY TreeAssumption, TableAssumption DEF Children
<1>2. /\ x \in Frame /\ x.op = "exit" /\ x.of = r.from /\ x.event = e
      /\ n \in Frame /\ n.op = "enter" /\ n.of = r.to /\ n.event = e
      /\ l \in Frame /\ l.op = "clear" /\ l.of = r.from /\ l.event = e
  BY <1>1, OpFrame DEF OpNames
<1>3. a \in Frame /\ a.op = "call" /\ Handler(a) \in Handlers
  BY <1>1, CallFrame, ActionHandler
<1>4. s \in Frame /\ s.op = "set" /\ s.of = m /\ s.to = r.to
  BY <1>1, SetFrame
<1>5. t \in Frame /\ t.op = "try" /\ t.of = m /\ t.event = e /\ t.row = i
  <2>1. dirty \subseteq States
    BY DEF TypeOK
  <2>2. QED
    BY <1>1, <2>1, TryFrame
<1>6. last = <<>> \/ last = <<t>>
  BY DEF Tried
<1>7. Transition(m, e, i) = ops
  BY DEF Transition
<1> HIDE DEF x, a, n, l, s, t, r, last
<1>8. /\ ops \in Seq(Frame) /\ DOMAIN ops \subseteq {1, 2, 3, 4, 5, 6}
      /\ {1, 2, 3, 4, 5} \subseteq DOMAIN ops
      /\ ops[1] = x /\ ops[2] = a /\ ops[3] = n /\ ops[4] = l /\ ops[5] = s
      /\ 6 \in DOMAIN ops => ops[6] = t
  <2>1. /\ five \in Seq(Frame) /\ Len(five) = 5 /\ five[1] = x /\ five[2] = a
        /\ five[3] = n /\ five[4] = l /\ five[5] = s
    BY <1>2, <1>3, <1>4
  <2>2. last \in Seq(Frame) /\ Len(last) \in {0, 1} /\ (Len(last) = 1 => last[1] = t)
    <3>1. <<t>> \in Seq(Frame) /\ Len(<<t>>) = 1 /\ <<t>>[1] = t
      BY <1>5
    <3>2. CASE last = <<t>>
      BY <3>1, <3>2
    <3>3. CASE last = <<>>
      BY <3>3
    <3>4. QED
      BY <1>6, <3>2, <3>3
  <2> HIDE DEF five
  <2>3. /\ ops \in Seq(Frame) /\ Len(ops) = 5 + Len(last)
        /\ \A k \in 1..(5 + Len(last)) : ops[k] = IF k <= 5 THEN five[k] ELSE last[k - 5]
    <3>1. /\ ops \in Seq(Frame) /\ Len(ops) = Len(five) + Len(last)
          /\ \A k \in 1..(Len(five) + Len(last)) :
                ops[k] = IF k <= Len(five) THEN five[k] ELSE last[k - Len(five)]
      BY ONLY <2>1, <2>2, ConcatProperties, Zenon
    <3>2. QED
      BY <2>1, <3>1
  <2>4. /\ DOMAIN ops = 1..(5 + Len(last)) /\ DOMAIN ops \subseteq {1, 2, 3, 4, 5, 6}
        /\ {1, 2, 3, 4, 5} \subseteq DOMAIN ops
    BY <2>2, <2>3
  <2>5. \A k \in {1, 2, 3, 4, 5} : ops[k] = five[k]
    BY <2>2, <2>3
  <2>6. 6 \in DOMAIN ops => Len(last) = 1 /\ ops[6] = last[1]
    BY <2>2, <2>3, <2>4
  <2>7. QED
    BY <2>1, <2>2, <2>3, <2>4, <2>5, <2>6
<1>9. QED
  BY <1>2, <1>3, <1>4, <1>5, <1>7, <1>8 DEF r

\* A transition is made only for an event that was due, and it disturbs nothing
\* but its machine and what is inside.
LEMMA StackedTransition ==
  ASSUME TypeOK, event \in Events, NEW m \in Machines, NEW e \in Events \cup {None},
         NEW i \in DOMAIN Table[m], Due(event, Begun),
         Table[m][i].from = current[m], Table[m][i].event = Kind(e),
         e = None \/ (e = event /\ m \in Active(Begun)),
         e = event => Same({m}, current, Begun)
  PROVE  /\ Transition(m, e, i) \in Seq(Frame)
         /\ Stacked(Transition(m, e, i), event, current, Begun)
         /\ \A k \in DOMAIN Transition(m, e, i) : Scope(Transition(m, e, i)[k]) \subseteq Below(m)
<1> DEFINE r == Table[m][i]
           ops == Transition(m, e, i)
           x == ops[1]
           a == ops[2]
           n == ops[3]
           l == ops[4]
           s == ops[5]
           t == ops[6]
<1>1. /\ m \in States /\ r.from \in Children(m) /\ r.to \in Children(m) /\ i \in Nat
      /\ r.from \in States /\ r.to \in States /\ r.from # Root /\ m \in Below(m)
      /\ Below(r.from) \subseteq Below(m) \ {m} /\ Below(r.to) \subseteq Below(m) \ {m}
  <2>1. r.from \in Children(m) /\ r.to \in Children(m) /\ i \in Nat
    BY TableAssumption
  <2>2. QED
    BY <2>1, TreeAssumption, UpSelf, BelowChild, ParentInTree DEF Children
<1>2. /\ ops \in Seq(Frame) /\ DOMAIN ops \subseteq {1, 2, 3, 4, 5, 6}
      /\ {1, 2, 3, 4, 5} \subseteq DOMAIN ops
      /\ x.op = "exit" /\ x.of = r.from /\ a.op = "call" /\ Handler(a) \in Handlers
      /\ n.op = "enter" /\ n.of = r.to /\ l.op = "clear" /\ l.of = r.from
      /\ s.op = "set" /\ s.of = m /\ s.to = r.to
      /\ 6 \in DOMAIN ops => t.op = "try" /\ t.of = m /\ t.event = e /\ t.row = i
  <2>1. /\ ops \in Seq(Frame) /\ DOMAIN ops \subseteq {1, 2, 3, 4, 5, 6}
        /\ {1, 2, 3, 4, 5} \subseteq DOMAIN ops
        /\ 6 \in DOMAIN ops => t.op = "try" /\ t.of = m /\ t.event = e /\ t.row = i
    BY ONLY TypeOK, m \in Machines, e \in Events \cup {None}, i \in DOMAIN Table[m], TransitionCalls
  <2>2. /\ x.op = "exit" /\ x.of = r.from /\ a.op = "call" /\ Handler(a) \in Handlers
        /\ n.op = "enter" /\ n.of = r.to /\ l.op = "clear" /\ l.of = r.from
        /\ s.op = "set" /\ s.of = m /\ s.to = r.to
    BY ONLY TypeOK, m \in Machines, e \in Events \cup {None}, i \in DOMAIN Table[m], TransitionCalls
  <2>3. QED
    BY <2>1, <2>2
<1>3. /\ x \in Frame /\ a \in Frame /\ n \in Frame /\ l \in Frame /\ s \in Frame
  BY <1>2
<1>4. \E q \in ToSet(Table[m]) : q.from = current[m] /\ q.to = r.to /\ q.event \in {Kind(event), None}
  BY DEF ToSet, Kind
<1>5. e = event => current[m] = Begun[m]
  BY DEF Same
<1> HIDE DEF x, a, n, l, s, t, r
<1>6. /\ ops[1] = x /\ ops[2] = a /\ ops[3] = n /\ ops[4] = l /\ ops[5] = s
      /\ 6 \in DOMAIN ops => ops[6] = t
  BY DEF x, a, n, l, s, t
<1> HIDE DEF ops
<1>7. /\ Scope(x) = Below(r.from) /\ Scope(a) = {} /\ Scope(n) = Below(r.to)
      /\ Scope(l) = Below(r.from) /\ Scope(s) = {m} /\ (6 \in DOMAIN ops => Scope(t) = Below(m))
  BY <1>2 DEF Scope
<1>8. /\ Relies(x) = {} /\ Relies(a) = {} /\ Relies(n) = {} /\ Relies(l) = {}
      /\ Relies(s) = {m} /\ (6 \in DOMAIN ops => Relies(t) = {})
  BY <1>2 DEF Relies
<1>9. /\ Fits(x, event, current, Begun) /\ Fits(n, event, current, Begun)
      /\ Fits(l, event, current, Begun) /\ Fits(a, event, current, Begun)
  BY <1>1, <1>2 DEF Fits, FitsDispatch, FitsTransition
<1>10. Fits(s, event, current, Begun)
  BY <1>2, <1>4 DEF Fits, FitsDispatch, FitsTransition
<1>11. 6 \in DOMAIN ops => Fits(t, event, current, Begun)
  BY <1>2 DEF Fits, FitsDispatch, FitsTransition
<1>12. Confined(ops)
  <2> SUFFICES ASSUME NEW k \in DOMAIN ops, NEW j \in DOMAIN ops, k < j
               PROVE  Scope(ops[k]) \cap Relies(ops[j]) = {}
    BY DEF Confined
  <2>1. CASE j = 5
    <3>1. k \in {1, 2, 3, 4}
      BY <1>2, <2>1
    <3>2. m \notin Scope(ops[k])
      BY <1>1, <1>6, <1>7, <3>1
    <3>3. QED
      BY <1>6, <1>8, <2>1, <3>2
  <2>2. CASE j # 5
    <3>1. j \in {1, 2, 3, 4, 6}
      BY <1>2, <2>2
    <3>2. QED
      BY <1>6, <1>8, <3>1
  <2>3. QED
    BY <2>1, <2>2
<1>13. \A k \in DOMAIN ops : Fits(ops[k], event, current, Begun)
  BY <1>2, <1>6, <1>9, <1>10, <1>11
<1>14. Guarded(ops, event, current, Begun)
  <2>1. \A k \in DOMAIN ops : ops[k].op = "try" => k = 6 /\ ops[k] = t /\ k - 1 = 5
    BY <1>2, <1>6
  <2>2. 6 \in DOMAIN ops => Unmoved(t, event, current, Begun)
    BY <1>2 DEF Unmoved
  <2>3. QED
    BY <1>2, <1>6, <2>1, <2>2 DEF Guarded
<1>15. \A k \in DOMAIN ops : Scope(ops[k]) \subseteq Below(m)
  BY <1>1, <1>2, <1>6, <1>7
<1>16. QED
  BY <1>2, <1>12, <1>13, <1>14, <1>15 DEF Stacked, ops

\* One call takes the place of another.
LEMMA ReplacedByOne ==
  ASSUME TypeOK, StackInv, todo # <<>>, ~throwing,
         NEW f \in Frame, Fits(f, event, current, Begun), Scope(f) \subseteq Scope(Head(todo)),
         Head(todo).op # "set", Do(<<f>>), res' \in Answers, Promised(res', event, Begun),
         UNCHANGED <<tree, program, event, throwing, history>>
  PROVE  TypeOK' /\ StackInv'
<1> DEFINE ops == <<f>>
<1>1. ops \in Seq(Frame) /\ Stacked(ops, event, current, Begun)
  BY StackedOne
<1>2. DOMAIN ops = {1} /\ ops[1] = f /\ Do(ops)
  OBVIOUS
<1> HIDE DEF ops
<1>3. \A i \in DOMAIN ops : Scope(ops[i]) \subseteq Scope(Head(todo))
  BY <1>2
<1>4. QED
  BY <1>1, <1>2, <1>3, Replaced

LEMMA ReplacedByTwo ==
  ASSUME TypeOK, StackInv, todo # <<>>, ~throwing,
         NEW f \in Frame, Fits(f, event, current, Begun), Scope(f) \subseteq Scope(Head(todo)),
         NEW g \in Frame, Fits(g, event, current, Begun), Scope(g) \subseteq Scope(Head(todo)),
         Scope(f) \cap Relies(g) = {}, g.op # "try",
         Head(todo).op # "set", Do(<<f, g>>), res' \in Answers, Promised(res', event, Begun),
         UNCHANGED <<tree, program, event, throwing, history>>
  PROVE  TypeOK' /\ StackInv'
<1> DEFINE ops == <<f, g>>
<1>1. ops \in Seq(Frame) /\ Stacked(ops, event, current, Begun)
  BY StackedTwo
<1>2. DOMAIN ops = {1, 2} /\ ops[1] = f /\ ops[2] = g /\ Do(ops)
  OBVIOUS
<1> HIDE DEF ops
<1>3. \A i \in DOMAIN ops : Scope(ops[i]) \subseteq Scope(Head(todo))
  BY <1>2
<1>4. QED
  BY <1>1, <1>2, <1>3, Replaced

\* The first row that applies is one of the table, out of the current state.
LEMMA FirstCandidate ==
  ASSUME NEW f \in Frame, f.op = "rows", f.row >= 1, Candidates(f) # {}
  PROVE  LET i == First(Candidates(f)) IN
         /\ i \in DOMAIN Table[f.of] /\ i \in Nat /\ i + 1 \in Nat /\ i + 1 >= 1
         /\ res = "refuse" /\ Table[f.of][i].event = Kind(f.event)
         /\ Table[f.of][i].from = current[f.of]
<1>1. f.of \in Machines /\ f.row \in Nat
  BY FrameFields
<1>2. Len(Table[f.of]) \in Nat /\ DOMAIN Table[f.of] = 1..Len(Table[f.of])
  BY <1>1, TableAssumption
<1>3. Candidates(f) \subseteq f.row..Len(Table[f.of])
  BY DEF Candidates
<1>4. Candidates(f) \in SUBSET Nat /\ Candidates(f) \subseteq 1..Len(Table[f.of])
  BY <1>1, <1>2, <1>3
<1> DEFINE i == First(Candidates(f))
<1>5. i \in Candidates(f)
  BY <1>4, FirstOf
<1> HIDE DEF i
<1>6. i \in DOMAIN Table[f.of] /\ i \in Nat /\ i + 1 \in Nat /\ i + 1 >= 1
  BY <1>2, <1>4, <1>5
<1>7. QED
  BY <1>5, <1>6 DEF Candidates, i

LEMMA FirstInternalCandidate ==
  ASSUME NEW f \in Frame, f.op = "internal", f.row >= 1, InternalCandidates(f) # {}
  PROVE  LET i == First(InternalCandidates(f)) IN
         /\ i \in DOMAIN Internal[f.of] /\ i \in Nat /\ i + 1 \in Nat /\ i + 1 >= 1
         /\ res = "refuse" /\ Internal[f.of][i].event = Kind(event)
<1>1. f.of \in States /\ f.row \in Nat
  BY FrameFields
<1>2. Len(Internal[f.of]) \in Nat /\ DOMAIN Internal[f.of] = 1..Len(Internal[f.of])
  BY <1>1, TableAssumption
<1>3. InternalCandidates(f) \subseteq f.row..Len(Internal[f.of])
  BY DEF InternalCandidates
<1>4. InternalCandidates(f) \in SUBSET Nat /\ InternalCandidates(f) \subseteq 1..Len(Internal[f.of])
  BY <1>1, <1>2, <1>3
<1> DEFINE i == First(InternalCandidates(f))
<1>5. i \in InternalCandidates(f)
  BY <1>4, FirstOf
<1> HIDE DEF i
<1>6. i \in DOMAIN Internal[f.of] /\ i \in Nat /\ i + 1 \in Nat /\ i + 1 >= 1
  BY <1>2, <1>4, <1>5
<1>7. QED
  BY <1>5, <1>6 DEF InternalCandidates, i

\* A row that is tried is tried for the event or, when that was due, for none.
LEMMA RowsFor ==
  ASSUME TypeOK, StackInv, todo # <<>>, Head(todo).op = "rows", Candidates(Head(todo)) # {}
  PROVE  LET f == Head(todo)
             i == First(Candidates(f))
         IN
         /\ f.of \in Machines /\ f.event \in {event, None} /\ event # None
         /\ f.event = None \/ (f.event = event /\ f.of \in Active(Begun))
         /\ f.event = event => Same({f.of}, current, Begun)
         /\ Due(event, Begun)
<1> DEFINE f == Head(todo)
           i == First(Candidates(f))
<1>1. /\ f \in Frame /\ Fits(f, event, current, Begun) /\ event \in Events /\ event # None
      /\ f.op = "rows" /\ f.of \in Machines
  BY FirstCall, FrameFields
<1> HIDE DEF f
<1>2. /\ (f.event = None /\ Due(event, Begun)) \/ (f.event = event /\ f.of \in Active(Begun))
      /\ f.event = event => Same({f.of}, current, Begun)
      /\ f.row >= 1
  BY <1>1 DEF Fits, FitsDispatch, FitsTransition
<1>3. /\ i \in DOMAIN Table[f.of] /\ Table[f.of][i].event = Kind(f.event)
      /\ Table[f.of][i].from = current[f.of]
  BY <1>1, <1>2, FirstCandidate DEF f
<1>4. f.event = event => Due(event, Begun)
  <2> SUFFICES ASSUME f.event = event PROVE Due(event, Begun)
    OBVIOUS
  <2>1. f.of \in Active(Begun) /\ current[f.of] = Begun[f.of]
    BY <1>1, <1>2 DEF Same
  <2>2. QED
    BY <1>1, <1>3, <2>1, RowsPublished
<1>5. QED
  BY <1>1, <1>2, <1>4 DEF f

LEMMA TestRowStep ==
  ASSUME TypeOK, StackInv, TestRow
  PROVE  TypeOK' /\ StackInv'
<1> DEFINE f == Head(todo)
           m == f.of
           e == f.event
           i == First(Candidates(f))
           next == Rows(m, e, i + 1)
<1>1. /\ todo # <<>> /\ ~throwing /\ f.op = "rows" /\ Candidates(f) # {}
      /\ Do(Transition(m, e, i)) \/ Do(<<next>>)
      /\ UNCHANGED <<tree, program, event, res, throwing, history>>
  BY DEF TestRow, Doing
<1>2. /\ f \in Frame /\ Fits(f, event, current, Begun) /\ event \in Events
      /\ res \in Answers /\ Promised(res, event, Begun)
  BY <1>1, FirstCall
<1>3. /\ m \in Machines /\ e \in {event, None} /\ event # None
      /\ e = None \/ (e = event /\ m \in Active(Begun))
      /\ e = event => Same({m}, current, Begun)
      /\ Due(event, Begun) /\ f.row >= 1
  BY <1>1, <1>2, RowsFor DEF Fits, FitsDispatch
<1>4. /\ i \in DOMAIN Table[m] /\ i + 1 \in Nat /\ i + 1 >= 1
      /\ Table[m][i].event = Kind(e) /\ Table[m][i].from = current[m]
  BY <1>1, <1>2, <1>3, FirstCandidate
<1>5. Scope(f) = Below(m)
  BY <1>1 DEF Scope
<1>6. CASE Do(Transition(m, e, i))
  <2> DEFINE ops == Transition(m, e, i)
  <2>1. /\ ops \in Seq(Frame) /\ Stacked(ops, event, current, Begun)
        /\ \A k \in DOMAIN ops : Scope(ops[k]) \subseteq Below(m)
    BY <1>2, <1>3, <1>4, StackedTransition
  <2>2. Do(ops)
    BY <1>6
  <2> HIDE DEF ops
  <2>3. QED
    BY <1>1, <1>2, <1>5, <2>1, <2>2, Replaced
<1>7. CASE Do(<<next>>)
  <2>1. /\ next \in Frame /\ next.op = "rows" /\ next.of = m /\ next.event = e
        /\ next.row = i + 1
    <3>1. m \in Machines /\ e \in Events \cup {None} /\ i + 1 \in Nat
      BY <1>2, <1>3, <1>4
    <3> HIDE DEF f, m, e, i
    <3>2. QED
      BY ONLY <3>1, RowsFrame
  <2> HIDE DEF next
  <2>2. Fits(next, event, current, Begun)
    BY <1>3, <1>4, <2>1 DEF Fits, FitsDispatch, FitsTransition
  <2>3. Scope(next) = Below(m)
    BY <2>1 DEF Scope
  <2>4. QED
    BY <1>1, <1>2, <1>5, <1>7, <2>1, <2>2, <2>3, ReplacedByOne
<1>8. QED
  BY <1>1, <1>6, <1>7

LEMMA TestInternalRowStep ==
  ASSUME TypeOK, StackInv, TestInternalRow
  PROVE  TypeOK' /\ StackInv'
<1> DEFINE f == Head(todo)
           n == f.of
           i == First(InternalCandidates(f))
           call == Call("internal", n, i, event)
           answer == Answer("in_state")
           next == InternalRows(n, i + 1)
<1>1. /\ todo # <<>> /\ ~throwing /\ f.op = "internal" /\ InternalCandidates(f) # {}
      /\ Do(<<call, answer>>) \/ Do(<<next>>)
      /\ UNCHANGED <<tree, program, event, res, throwing, history>>
  BY DEF TestInternalRow, Doing
<1>2. /\ f \in Frame /\ Fits(f, event, current, Begun) /\ event \in Events
      /\ res \in Answers /\ Promised(res, event, Begun)
  BY <1>1, FirstCall
<1>3. n \in States /\ n \in Active(Begun) /\ f.row >= 1 /\ Scope(f) = {}
  BY <1>1, <1>2, FrameFields DEF Fits, FitsDispatch, Scope
<1>4. i \in DOMAIN Internal[n] /\ i \in Nat /\ i + 1 \in Nat /\ i + 1 >= 1
      /\ Internal[n][i].event = Kind(event)
  BY <1>1, <1>2, <1>3, FirstInternalCandidate
<1> HIDE DEF f, n, i
<1>5. Due(event, Begun)
  BY <1>2, <1>3, <1>4, InternalPublished
<1>6. CASE Do(<<call, answer>>)
  <2>1. call \in Frame /\ call.op = "call" /\ Handler(call) \in Handlers
    BY <1>2, <1>3, <1>4, CallFrame, InternalHandler
  <2>2. answer \in Frame /\ answer.op = "answer" /\ answer.of = "in_state"
    BY AnswerFrame DEF Answers
  <2> HIDE DEF call, answer
  <2>3. /\ Scope(call) = {} /\ Scope(answer) = {} /\ Relies(answer) = {}
    BY <2>1, <2>2 DEF Scope, Relies
  <2>4. Fits(call, event, current, Begun)
    BY <2>1 DEF Fits, FitsDispatch, FitsTransition
  <2>5. Fits(answer, event, current, Begun)
    BY <1>5, <2>2, ProcessPromised DEF Fits, FitsDispatch, FitsTransition
  <2>6. QED
    BY <1>1, <1>2, <1>6, <2>1, <2>2, <2>3, <2>4, <2>5, ReplacedByTwo DEF f
<1>7. CASE Do(<<next>>)
  <2>1. next \in Frame /\ next.op = "internal" /\ next.of = n /\ next.row = i + 1
    BY <1>3, <1>4, InternalFrame
  <2> HIDE DEF next
  <2>2. Fits(next, event, current, Begun) /\ Scope(next) = {}
    BY <1>3, <1>4, <2>1 DEF Fits, FitsDispatch, FitsTransition, Scope
  <2>3. QED
    BY <1>1, <1>2, <1>7, <2>1, <2>2, ReplacedByOne DEF f
<1>8. QED
  BY <1>1, <1>6, <1>7

LEMMA SettleStep ==
  ASSUME TypeOK, StackInv, Settle
  PROVE  TypeOK' /\ StackInv'
<1> DEFINE f == Head(todo)
           n == f.of
           default == Op("default", n, None)
           answer == Answer("process")
<1>1. /\ todo # <<>> /\ ~throwing /\ f.op = "settle"
      /\ res = "process" => Do(<<default, answer>>)
      /\ res # "process" => Do(<<>>)
      /\ UNCHANGED <<tree, program, event, res, throwing, history>>
  BY DEF Settle, Doing
<1>2. /\ f \in Frame /\ Fits(f, event, current, Begun) /\ event \in Events
      /\ res \in Answers /\ Promised(res, event, Begun)
  BY <1>1, FirstCall
<1>3. n \in States /\ n \in Machines /\ Scope(f) = Below(n)
  BY <1>1, <1>2, FrameFields DEF Fits, FitsDispatch, Scope, OpNames
<1> HIDE DEF f, n
<1>4. CASE res = "process"
  <2>1. default \in Frame /\ default.op = "default" /\ default.of = n
    BY <1>3, OpFrame DEF OpNames
  <2>2. answer \in Frame /\ answer.op = "answer" /\ answer.of = "process"
    BY AnswerFrame DEF Answers
  <2> HIDE DEF default, answer
  <2>3. /\ Scope(default) = Below(n) /\ Scope(answer) = {} /\ Relies(answer) = {}
    BY <2>1, <2>2 DEF Scope, Relies
  <2>4. Due(event, Begun)
    BY <1>2, <1>4, ProcessPromised
  <2>5. Fits(default, event, current, Begun)
    BY <1>3, <2>1, <2>4 DEF Fits, FitsDispatch, FitsTransition
  <2>6. Fits(answer, event, current, Begun)
    BY <2>4, <2>2, ProcessPromised DEF Fits, FitsDispatch, FitsTransition
  <2>7. QED
    BY <1>1, <1>2, <1>3, <1>4, <2>1, <2>2, <2>3, <2>5, <2>6, ReplacedByTwo DEF f
<1>5. CASE res # "process"
  BY <1>1, <1>2, <1>5, Returned
<1>6. QED
  BY <1>4, <1>5

LEMMA CheckDefaultStep ==
  ASSUME TypeOK, StackInv, CheckDefault
  PROVE  TypeOK' /\ StackInv'
<1> DEFINE f == Head(todo)
           n == f.of
           next == Rows(n, None, 1)
<1>1. /\ todo # <<>> /\ ~throwing /\ f.op = "default" /\ res' = "refuse" /\ Do(<<next>>)
      /\ UNCHANGED <<tree, program, event, throwing, history>>
  BY DEF CheckDefault, Doing
<1>2. f \in Frame /\ Fits(f, event, current, Begun) /\ event # None
  BY <1>1, FirstCall
<1>3. n \in Machines /\ Scope(f) = Below(n) /\ Due(event, Begun)
  BY <1>1, <1>2 DEF Fits, FitsTransition, Scope
<1> HIDE DEF f, n
<1>4. next \in Frame /\ next.op = "rows" /\ next.of = n /\ next.event = None /\ next.row = 1
  BY <1>3, RowsFrame
<1> HIDE DEF next
<1>5. Fits(next, event, current, Begun) /\ Scope(next) = Below(n)
  BY <1>2, <1>3, <1>4 DEF Fits, FitsDispatch, FitsTransition, Scope
<1>6. res' \in Answers /\ Promised(res', event, Begun)
  BY <1>1, ProcessPromised DEF Answers
<1>7. QED
  BY <1>1, <1>3, <1>4, <1>5, <1>6, ReplacedByOne DEF f

LEMMA GiveAnswerStep ==
  ASSUME TypeOK, StackInv, GiveAnswer
  PROVE  TypeOK' /\ StackInv'
<1> DEFINE f == Head(todo)
<1>1. /\ todo # <<>> /\ ~throwing /\ f.op = "answer" /\ res' = f.of /\ Do(<<>>)
      /\ UNCHANGED <<tree, program, event, throwing, history>>
  BY DEF GiveAnswer, Doing, Return
<1>2. f \in Frame /\ Fits(f, event, current, Begun)
  BY <1>1, FirstCall
<1>3. res' \in Answers /\ Promised(res', event, Begun)
  BY <1>1, <1>2, FrameFields DEF Fits, FitsDispatch
<1>4. QED
  BY <1>1, <1>3, Returned

LEMMA LeaveTryStep ==
  ASSUME TypeOK, StackInv, LeaveTry
  PROVE  TypeOK' /\ StackInv'
<1>1. /\ todo # <<>> /\ ~throwing /\ Head(todo).op = "try" /\ Do(<<>>)
      /\ UNCHANGED <<tree, program, event, res, throwing, history>>
  BY DEF LeaveTry, Doing
<1>2. res \in Answers /\ Promised(res, event, Begun)
  BY <1>1, FirstCall
<1>3. QED
  BY <1>1, <1>2, Returned

-----------------------------------------------------------------------------
(* Entry and exit *)

\* A call on which nothing depends but its own conditions.
Plain(f) == Relies(f) = {} /\ f.op \notin {"try", "dispatch"} /\ Fits(f, event, current, Begun)

LEMMA ReplacedByPlain ==
  ASSUME TypeOK, StackInv, todo # <<>>, ~throwing, NEW ops \in Seq(Frame),
         \A f \in ToSet(ops) : Plain(f) /\ Scope(f) \subseteq Scope(Head(todo)),
         Head(todo).op \notin {"set", "dispatch"}, Do(ops),
         UNCHANGED <<tree, program, event, res, throwing, history>>
  PROVE  TypeOK' /\ StackInv'
<1>1. \A i \in DOMAIN ops : Plain(ops[i]) /\ Scope(ops[i]) \subseteq Scope(Head(todo))
  BY DEF ToSet
<1>2. Stacked(ops, event, current, Begun)
  BY <1>1 DEF Stacked, Confined, Guarded, Plain
<1>3. res \in Answers /\ Promised(res, event, Begun)
  BY FirstCall
<1>4. QED
  BY <1>1, <1>2, <1>3, Replaced

LEMMA ReverseFacts ==
  ASSUME NEW S, NEW s \in Seq(S)
  PROVE  Reverse(s) \in Seq(S) /\ ToSet(Reverse(s)) \subseteq ToSet(s)
<1>1. Len(s) \in Nat /\ \A i \in 1..Len(s) : s[i] \in S
  OBVIOUS
<1>2. \A i \in 1..Len(s) : (Len(s) - i) + 1 \in 1..Len(s)
  BY <1>1
<1>3. Reverse(s) \in [1..Len(s) -> S]
  BY <1>1, <1>2 DEF Reverse
<1>4. Reverse(s) \in Seq(S)
  BY <1>1, <1>3
<1>5. \A i \in DOMAIN Reverse(s) : Reverse(s)[i] \in ToSet(s)
  BY <1>1, <1>2 DEF Reverse, ToSet
<1>6. QED
  BY <1>4, <1>5 DEF ToSet

LEMMA OpsFacts ==
  ASSUME NEW name \in OpNames, NEW s \in Seq(States), NEW e \in Events \cup {None}
  PROVE  /\ Ops(name, s, e) \in Seq(Frame)
         /\ \A f \in ToSet(Ops(name, s, e)) : f \in Frame /\ f.op = name /\ f.of \in ToSet(s)
<1>1. /\ DOMAIN Ops(name, s, e) = 1..Len(s) /\ Len(s) \in Nat
      /\ \A i \in 1..Len(s) : /\ Ops(name, s, e)[i] = Op(name, s[i], e)
                              /\ s[i] \in States /\ s[i] \in ToSet(s)
  BY DEF Ops, ToSet
<1>2. \A i \in 1..Len(s) : /\ Ops(name, s, e)[i] \in Frame /\ Ops(name, s, e)[i].op = name
                           /\ Ops(name, s, e)[i].of = s[i]
  BY <1>1, OpFrame
<1>3. Ops(name, s, e) \in [1..Len(s) -> Frame]
  BY <1>1, <1>2 DEF Ops
<1>4. Ops(name, s, e) \in Seq(Frame)
  BY <1>1, <1>3
<1>5. QED
  BY <1>1, <1>2, <1>4 DEF ToSet

\* What is left or entered with a state is inside it.
LEMMA InnerOps ==
  ASSUME NEW name \in {"exit", "enter"}, NEW n \in Orthogonal, NEW e \in Events \cup {None},
         name = "enter" => Due(event, Begun),
         NEW s \in {Regions[n], Reverse(Regions[n])}
  PROVE  /\ Ops(name, s, e) \in Seq(Frame)
         /\ \A f \in ToSet(Ops(name, s, e)) : Plain(f) /\ Scope(f) \subseteq Below(n)
<1>1. Regions[n] \in Seq(States) /\ ToSet(Regions[n]) \subseteq Children(n)
  <2>1. Regions[n] \in Seq(Machines \cup Orthogonal) /\ ToSet(Regions[n]) = Children(n)
        /\ Machines \cup Orthogonal \subseteq States
    BY TreeAssumption
  <2>2. QED
    BY <2>1
<1>2. s \in Seq(States) /\ ToSet(s) \subseteq Children(n)
  BY <1>1, ReverseFacts
<1>3. /\ Ops(name, s, e) \in Seq(Frame)
      /\ \A f \in ToSet(Ops(name, s, e)) : f \in Frame /\ f.op = name /\ f.of \in Children(n)
  BY <1>2, OpsFacts DEF OpNames
<1>4. ASSUME NEW f \in Frame, f.op = name, f.of \in Children(n)
      PROVE  Plain(f) /\ Scope(f) \subseteq Below(n)
  <2>1. Below(f.of) \subseteq Below(n)
    BY <1>4, BelowChild
  <2>2. Scope(f) = Below(f.of) /\ Relies(f) = {}
    BY <1>4 DEF Scope, Relies
  <2>3. Fits(f, event, current, Begun)
    BY <1>4 DEF Fits, FitsDispatch, FitsTransition
  <2>4. QED
    BY <1>4, <2>1, <2>2, <2>3 DEF Plain
<1>5. QED
  BY <1>3, <1>4

LEMMA ChildOp ==
  ASSUME NEW name \in {"exit", "enter"}, NEW n, NEW s \in Children(n),
         NEW e \in Events \cup {None}, name = "enter" => Due(event, Begun)
  PROVE  LET f == Op(name, s, e) IN f \in Frame /\ Plain(f) /\ Scope(f) \subseteq Below(n)
<1> DEFINE f == Op(name, s, e)
<1>1. f \in Frame /\ f.op = name /\ f.of = s
  BY ParentInTree, OpFrame DEF OpNames, Children
<1> HIDE DEF f
<1>2. Scope(f) = Below(s) /\ Relies(f) = {} /\ Fits(f, event, current, Begun)
  BY <1>1 DEF Scope, Relies, Fits, FitsDispatch, FitsTransition
<1>3. QED
  BY <1>1, <1>2, BelowChild DEF Plain, f

LEMMA ToSetOne ==
  ASSUME NEW f \in Frame
  PROVE  <<f>> \in Seq(Frame) /\ ToSet(<<f>>) = {f}
  BY DEF ToSet

LEMMA ToSetTwo ==
  ASSUME NEW f \in Frame, NEW g \in Frame
  PROVE  <<f, g>> \in Seq(Frame) /\ ToSet(<<f, g>>) = {f, g}
<1>1. <<f, g>> \in Seq(Frame) /\ DOMAIN <<f, g>> = {1, 2} /\ <<f, g>>[1] = f /\ <<f, g>>[2] = g
  OBVIOUS
<1>2. QED
  BY <1>1 DEF ToSet

LEMMA InnerExitFacts ==
  ASSUME TypeOK, NEW n \in States, NEW e \in Events \cup {None}
  PROVE  /\ InnerExit(n, e) \in Seq(Frame)
         /\ \A f \in ToSet(InnerExit(n, e)) : Plain(f) /\ Scope(f) \subseteq Below(n)
<1>1. CASE n \in Machines
  <2> DEFINE f == Op("exit", current[n], e)
  <2>1. InnerExit(n, e) = <<f>>
    BY <1>1, TreeAssumption DEF InnerExit
  <2>2. f \in Frame /\ Plain(f) /\ Scope(f) \subseteq Below(n)
    BY <1>1, ChildOp DEF TypeOK
  <2> HIDE DEF f
  <2>3. QED
    BY <2>1, <2>2, ToSetOne
<1>2. CASE n \in Orthogonal
  <2>1. InnerExit(n, e) = Ops("exit", Reverse(Regions[n]), e)
    BY <1>2, TreeAssumption DEF InnerExit
  <2>2. QED
    BY <1>2, <2>1, InnerOps
<1>3. CASE n \notin Machines /\ n \notin Orthogonal
  BY <1>3 DEF InnerExit, ToSet
<1>4. QED
  BY <1>1, <1>2, <1>3

LEMMA InnerEnterFacts ==
  ASSUME TypeOK, NEW n \in States, NEW e \in Events \cup {None}, Due(event, Begun)
  PROVE  /\ InnerEnter(n, e) \in Seq(Frame)
         /\ \A f \in ToSet(InnerEnter(n, e)) : Plain(f) /\ Scope(f) \subseteq Below(n)
<1>1. CASE n \in Machines
  <2> DEFINE f == Op("enter", Initial[n], e)
             g == Op("default", n, None)
  <2>1. InnerEnter(n, e) = <<f, g>>
    BY <1>1, TreeAssumption DEF InnerEnter
  <2>2. f \in Frame /\ Plain(f) /\ Scope(f) \subseteq Below(n)
    BY <1>1, ChildOp, TreeAssumption
  <2>3. g \in Frame /\ g.op = "default" /\ g.of = n
    BY OpFrame DEF OpNames
  <2> HIDE DEF f, g
  <2>4. Plain(g) /\ Scope(g) = Below(n)
    BY <1>1, <2>3 DEF Plain, Scope, Relies, Fits, FitsDispatch, FitsTransition
  <2>5. QED
    BY <2>1, <2>2, <2>3, <2>4, ToSetTwo
<1>2. CASE n \in Orthogonal
  <2>1. InnerEnter(n, e) = Ops("enter", Regions[n], e)
    BY <1>2, TreeAssumption DEF InnerEnter
  <2>2. QED
    BY <1>2, <2>1, InnerOps
<1>3. CASE n \notin Machines /\ n \notin Orthogonal
  BY <1>3 DEF InnerEnter, ToSet
<1>4. QED
  BY <1>1, <1>2, <1>3

LEMMA ExitOrEnterStep ==
  ASSUME TypeOK, StackInv, ExitOrEnter
  PROVE  TypeOK' /\ StackInv'
<1> DEFINE f == Head(todo)
           n == f.of
           e == f.event
<1>1. /\ todo # <<>> /\ ~throwing
      /\ \/ f.op = "exit" /\ Do(InnerExit(n, e) \o <<Call("exit", n, 0, e)>>)
         \/ f.op = "enter" /\ Do(<<Call("enter", n, 0, e)>> \o InnerEnter(n, e))
      /\ UNCHANGED <<tree, program, event, res, throwing, history>>
  BY DEF ExitOrEnter, Doing
<1>2. f \in Frame /\ Fits(f, event, current, Begun)
  BY <1>1, FirstCall
<1>3. /\ n \in States /\ e \in Events \cup {None} /\ Scope(f) = Below(n)
      /\ f.op = "enter" => Due(event, Begun)
  BY <1>1, <1>2, FrameFields DEF Fits, FitsTransition, Scope, OpNames
<1> HIDE DEF f, n, e
<1>4. ASSUME NEW kind \in {"exit", "enter"}
      PROVE  LET call == Call(kind, n, 0, e) IN
             /\ call \in Frame /\ Plain(call) /\ Scope(call) \subseteq Below(n)
             /\ <<call>> \in Seq(Frame) /\ ToSet(<<call>>) = {call}
  <2> DEFINE call == Call(kind, n, 0, e)
  <2>1. call \in Frame /\ call.op = "call" /\ Handler(call) \in Handlers
    BY <1>3, CallFrame, EntryHandler
  <2> HIDE DEF call
  <2>2. Plain(call) /\ Scope(call) = {}
    BY <2>1 DEF Plain, Scope, Relies, Fits, FitsDispatch, FitsTransition
  <2>3. QED
    BY <2>1, <2>2, ToSetOne DEF call
<1>5. CASE f.op = "exit" /\ Do(InnerExit(n, e) \o <<Call("exit", n, 0, e)>>)
  <2> DEFINE inner == InnerExit(n, e)
             call == Call("exit", n, 0, e)
             one == <<call>>
             ops == inner \o one
  <2>1. /\ inner \in Seq(Frame)
        /\ \A g \in ToSet(inner) : Plain(g) /\ Scope(g) \subseteq Below(n)
    BY <1>3, InnerExitFacts
  <2>2. /\ Plain(call) /\ Scope(call) \subseteq Below(n)
        /\ one \in Seq(Frame) /\ ToSet(one) = {call}
    BY <1>4
  <2>3. Do(ops)
    BY <1>5
  <2> HIDE DEF inner, call, one
  <2>4. ops \in Seq(Frame) /\ ToSet(ops) = ToSet(inner) \cup {call}
    <3>1. inner \in Seq(Frame) /\ one \in Seq(Frame) /\ ToSet(one) = {call}
      BY <2>1, <2>2
    <3>2. inner \o one \in Seq(Frame)
      BY ONLY <3>1, ConcatFacts
    <3>3. ToSet(inner \o one) = ToSet(inner) \cup ToSet(one)
      BY ONLY <3>1, ConcatFacts
    <3>4. QED
      BY <3>1, <3>2, <3>3
  <2> HIDE DEF ops
  <2>5. \A g \in ToSet(ops) : Plain(g) /\ Scope(g) \subseteq Below(n)
    BY <2>1, <2>2, <2>4
  <2>6. QED
    BY <1>1, <1>3, <1>5, <2>3, <2>4, <2>5, ReplacedByPlain DEF f
<1>6. CASE f.op = "enter" /\ Do(<<Call("enter", n, 0, e)>> \o InnerEnter(n, e))
  <2> DEFINE inner == InnerEnter(n, e)
             call == Call("enter", n, 0, e)
             one == <<call>>
             ops == one \o inner
  <2>1. /\ inner \in Seq(Frame)
        /\ \A g \in ToSet(inner) : Plain(g) /\ Scope(g) \subseteq Below(n)
    BY <1>3, <1>6, InnerEnterFacts
  <2>2. /\ Plain(call) /\ Scope(call) \subseteq Below(n)
        /\ one \in Seq(Frame) /\ ToSet(one) = {call}
    BY <1>4
  <2>3. Do(ops)
    BY <1>6
  <2> HIDE DEF inner, call, one
  <2>4. ops \in Seq(Frame) /\ ToSet(ops) = {call} \cup ToSet(inner)
    <3>1. inner \in Seq(Frame) /\ one \in Seq(Frame) /\ ToSet(one) = {call}
      BY <2>1, <2>2
    <3>2. one \o inner \in Seq(Frame)
      BY ONLY <3>1, ConcatFacts
    <3>3. ToSet(one \o inner) = ToSet(one) \cup ToSet(inner)
      BY ONLY <3>1, ConcatFacts
    <3>4. QED
      BY <3>1, <3>2, <3>3
  <2> HIDE DEF ops
  <2>5. \A g \in ToSet(ops) : Plain(g) /\ Scope(g) \subseteq Below(n)
    BY <2>1, <2>2, <2>4
  <2>6. QED
    BY <1>1, <1>3, <1>6, <2>3, <2>4, <2>5, ReplacedByPlain DEF f
<1>7. QED
  BY <1>1, <1>5, <1>6

-----------------------------------------------------------------------------
(* Steps that change current states *)

\* What the proof of such a step has to show of the stack, when the first call
\* has changed no more than it may.
LEMMA TailElsewhere ==
  ASSUME NEW s \in Seq(Frame), s # <<>>, NEW e, NEW c, NEW b, NEW d, Stacked(s, e, c, b),
         \A m \in Machines \ Scope(Head(s)) : d[m] = c[m]
  PROVE  Tail(s) \in Seq(Frame) /\ Stacked(Tail(s), e, d, b)
<1>1. /\ Tail(s) \in Seq(Frame) /\ Stacked(Tail(s), e, c, b)
      /\ \A j \in DOMAIN Tail(s) : Scope(Head(s)) \cap Relies(Tail(s)[j]) = {}
  BY StackedTail
<1>2. \A j \in DOMAIN Tail(s) : \A m \in Machines \cap Relies(Tail(s)[j]) : d[m] = c[m]
  BY <1>1
<1>3. QED
  BY <1>1, <1>2, StackedElsewhere

LEMMA ClearSourceStep ==
  ASSUME TypeOK, StackInv, ClearSource
  PROVE  TypeOK' /\ StackInv'
<1> DEFINE f == Head(todo)
           inside == IF f.of \in History THEN {} ELSE Below(f.of)
<1>1. /\ todo # <<>> /\ ~throwing /\ f.op = "clear" /\ todo' = <<>> \o Tail(todo)
      /\ current' = [m \in Machines |-> IF m \in inside THEN Initial[m] ELSE current[m]]
      /\ dirty' = dirty \ inside
      /\ UNCHANGED <<program, event, res, throwing, history>>
  BY DEF ClearSource, Doing, Do
<1>2. /\ todo \in Seq(Frame) /\ Stacked(todo, event, current, Begun)
      /\ event \in Events /\ Promised(res, event, Begun)
  BY <1>1, FirstCall
<1>3. Scope(f) = Below(f.of)
  BY <1>1 DEF Scope
<1>4. \A m \in Machines \ Scope(f) : current'[m] = current[m]
  BY <1>1, <1>3
<1>5. Tail(todo) \in Seq(Frame) /\ Stacked(Tail(todo), event, current', Begun)
  BY <1>1, <1>2, <1>4, TailElsewhere
<1>6. todo' = Tail(todo)
  BY <1>1, <1>5
<1>7. current' \in [Machines -> States] /\ \A m \in Machines : current'[m] \in Children(m)
  <2>1. \A m \in Machines : current'[m] \in Children(m)
    BY <1>1, TreeAssumption DEF TypeOK
  <2>2. \A m \in Machines : Children(m) \subseteq States
    BY TreeAssumption DEF Children
  <2>3. QED
    BY <1>1, <2>1, <2>2
<1>8. TypeOK'
  BY <1>1, <1>5, <1>6, <1>7 DEF TypeOK, program, history
<1>9. StackInv'
  BY <1>1, <1>2, <1>5, <1>6 DEF StackInv, Begun, history
<1>10. QED
  BY <1>8, <1>9

LEMMA CompleteTransitionStep ==
  ASSUME TypeOK, StackInv, CompleteTransition
  PROVE  TypeOK' /\ StackInv'
<1> DEFINE f == Head(todo)
<1>1. /\ todo # <<>> /\ ~throwing /\ f.op = "set" /\ todo' = <<>> \o Tail(todo)
      /\ current' = [current EXCEPT ![f.of] = f.to] /\ res' = "process"
      /\ committed' = (IF \E i \in 2..Len(todo) : todo[i].op = "set" THEN committed
                       ELSE [current |-> current', dirty |-> dirty])
      /\ UNCHANGED <<dirty, program, event, throwing, entered, start, undone, failed>>
  BY DEF CompleteTransition, Doing, Do, Return
<1>2. /\ todo \in Seq(Frame) /\ Stacked(todo, event, current, Begun)
      /\ f \in Frame /\ Fits(f, event, current, Begun) /\ event \in Events
  BY <1>1, FirstCall
<1>3. f.of \in Machines /\ f.to \in States /\ Scope(f) = {f.of}
  BY <1>1, <1>2, FrameFields DEF Scope
<1>4. Due(event, Begun) /\ \E r \in ToSet(Table[f.of]) : r.to = f.to
  BY <1>1, <1>2 DEF Fits, FitsTransition
<1>5. f.to \in Children(f.of)
  BY <1>3, <1>4, TableAssumption DEF ToSet
<1>6. current \in [Machines -> States] /\ \A m \in Machines : current[m] \in Children(m)
  BY DEF TypeOK
<1>7. \A m \in Machines \ Scope(f) : current'[m] = current[m]
  BY <1>1, <1>3, <1>6
<1>8. Tail(todo) \in Seq(Frame) /\ Stacked(Tail(todo), event, current', Begun)
  BY <1>1, <1>2, <1>7, TailElsewhere
<1>9. todo' = Tail(todo)
  BY <1>1, <1>8
<1>10. current' \in [Machines -> States] /\ \A m \in Machines : current'[m] \in Children(m)
  BY <1>1, <1>3, <1>5, <1>6
<1>11. committed'.current \in [Machines -> States] /\ committed'.dirty \subseteq States
  BY <1>1, <1>10 DEF TypeOK
<1>12. TypeOK'
  BY <1>1, <1>8, <1>9, <1>10, <1>11 DEF TypeOK, program, Answers
<1>13. StackInv'
  BY <1>1, <1>2, <1>4, <1>8, <1>9, ProcessPromised DEF StackInv, Begun
<1>14. QED
  BY <1>12, <1>13

\* A new event finds the hierarchy as it is.
LEMMA ReceiveStep ==
  ASSUME TypeOK, StackInv, NEW e \in Events, Receive(e)
  PROVE  TypeOK' /\ StackInv'
<1> DEFINE f == Op("dispatch", Root, e)
<1>1. /\ ~throwing /\ event' = e /\ todo' = <<f>> /\ start' = Now /\ committed' = Now
      /\ undone' = {}
      /\ IF queue = <<>> THEN UNCHANGED queue ELSE e = Head(queue) /\ queue' = Tail(queue)
      /\ UNCHANGED <<tree, facts, res, throwing, entered, failed>>
  BY DEF Receive, Resting
<1>2. Root \in States /\ Root \in Active(current)
  BY RootActive, TreeAssumption
<1>3. f \in Frame /\ f.op = "dispatch" /\ f.of = Root
  BY <1>2, OpFrame DEF OpNames
<1> HIDE DEF f
<1>4. Fits(f, e, current, current)
  BY <1>2, <1>3 DEF Fits, FitsDispatch, FitsTransition, Same
<1>5. <<f>> \in Seq(Frame) /\ Stacked(<<f>>, e, current, current) /\ Head(<<f>>) = f
  BY <1>3, <1>4, StackedOne
<1>6. /\ Now.current = current /\ Now.dirty = dirty
      /\ current' = current /\ dirty' = dirty
  BY <1>1 DEF Now, tree
<1>7. queue' \in Seq(Events)
  BY <1>1, TailFacts DEF TypeOK
<1>8. TypeOK'
  BY <1>1, <1>5, <1>6, <1>7 DEF TypeOK
<1>9. StackInv'
  BY <1>1, <1>3, <1>5, <1>6 DEF StackInv
<1>10. QED
  BY <1>8, <1>9

-----------------------------------------------------------------------------
(* Handlers and exceptions *)

\* What is known of the stack when its first call, which is not the last step
\* of a transition, is over.
LEMMA TailOfCall ==
  ASSUME TypeOK, StackInv, todo # <<>>, Head(todo).op # "set"
  PROVE  /\ Tail(todo) \in Seq(Frame) /\ Stacked(Tail(todo), event, current, Begun)
         /\ Tail(todo) # <<>> => Head(Tail(todo)).op # "try"
<1>1. todo \in Seq(Frame) /\ Stacked(todo, event, current, Begun)
  BY FirstCall
<1>2. /\ Tail(todo) \in Seq(Frame) /\ Stacked(Tail(todo), event, current, Begun)
      /\ Tail(todo) # <<>> => Tail(todo)[1].op # "try"
  BY <1>1, StackedTail
<1>3. Tail(todo) # <<>> => Head(Tail(todo)) = Tail(todo)[1]
  BY <1>2, TailFacts
<1>4. QED
  BY <1>2, <1>3

LEMMA RunHandlerStep ==
  ASSUME TypeOK, StackInv, RunHandler
  PROVE  TypeOK' /\ StackInv'
<1> DEFINE f == Head(todo)
           h == Handler(f)
<1>1. /\ todo # <<>> /\ ~throwing /\ f.op = "call" /\ todo' = <<>> \o Tail(todo)
      /\ dirty' = dirty \cup Writes(h) /\ queue' = queue \o Posts(h, f.event)
      /\ entered' = Counted(f)
      /\ UNCHANGED <<current, event, res, throwing, start, committed, undone, failed>>
  BY DEF RunHandler, Doing, Do
<1>2. /\ f \in Frame /\ Fits(f, event, current, Begun) /\ event \in Events
      /\ Promised(res, event, Begun)
  BY <1>1, FirstCall
<1>3. h \in Handlers /\ f.event \in Events \cup {None}
  BY <1>1, <1>2, FrameFields DEF Fits, FitsTransition
<1>4. Writes(h) \subseteq States /\ Posts(h, f.event) \in Seq(Events)
  BY <1>3, HandlerAssumption
<1>5. queue' \in Seq(Events)
  <2> DEFINE posts == Posts(h, f.event)
  <2>1. queue \in Seq(Events) /\ posts \in Seq(Events)
    BY <1>4 DEF TypeOK
  <2> HIDE DEF posts
  <2>2. queue \o posts \in Seq(Events)
    BY ONLY <2>1, ConcatFacts
  <2>3. QED
    BY <1>1, <2>2 DEF posts
<1>6. entered' \in [States -> Int]
  <2>1. entered \in [States -> Int]
    BY DEF TypeOK
  <2>2. \A n \in States : entered[n] + 1 \in Int /\ entered[n] - 1 \in Int
    BY <2>1
  <2>3. QED
    BY <1>1, <2>1, <2>2 DEF Counted
<1>7. /\ Tail(todo) \in Seq(Frame) /\ Stacked(Tail(todo), event, current, Begun)
      /\ todo' = Tail(todo)
  BY <1>1, TailOfCall
<1>8. TypeOK'
  <2>1. dirty' \subseteq States
    BY <1>1, <1>4 DEF TypeOK
  <2>2. QED
    BY <1>1, <1>5, <1>6, <1>7, <2>1 DEF TypeOK
<1>9. StackInv'
  BY <1>1, <1>2, <1>7 DEF StackInv, Begun
<1>10. QED
  BY <1>8, <1>9

LEMMA HandlerThrowsStep ==
  ASSUME TypeOK, StackInv, HandlerThrows
  PROVE  TypeOK' /\ StackInv'
<1> DEFINE f == Head(todo)
           h == Handler(f)
<1>1. /\ todo # <<>> /\ ~throwing /\ f.op = "call" /\ todo' = Tail(todo)
      /\ dirty' \in {dirty, dirty \cup Writes(h)} /\ throwing' = TRUE /\ failed' = TRUE
      /\ entered' = [n \in States |-> 0]
      /\ UNCHANGED <<current, program, event, res, start, committed, undone>>
  BY DEF HandlerThrows, Doing, ThrowNow
<1>2. /\ f \in Frame /\ Fits(f, event, current, Begun) /\ event \in Events
      /\ Promised(res, event, Begun)
  BY <1>1, FirstCall
<1>3. h \in Handlers
  BY <1>1, <1>2, FrameFields DEF Fits, FitsTransition
<1>4. Writes(h) \subseteq States
  BY <1>3, HandlerAssumption
<1>5. /\ Tail(todo) \in Seq(Frame) /\ Stacked(Tail(todo), event, current, Begun)
      /\ Tail(todo) # <<>> => Head(Tail(todo)).op # "try"
  BY <1>1, TailOfCall
<1>6. TypeOK'
  <2>1. dirty' \subseteq States
    BY <1>1, <1>4 DEF TypeOK
  <2>2. entered' \in [States -> Int]
    BY <1>1
  <2>3. QED
    BY <1>1, <1>5, <2>1, <2>2 DEF TypeOK, program
<1>7. StackInv'
  BY <1>1, <1>2, <1>5 DEF StackInv, Begun
<1>8. QED
  BY <1>6, <1>7

\* An exception out of a guard finds the `try` of its row around it, and the
\* machine where it was.
LEMMA GuardThrowsStep ==
  ASSUME TypeOK, StackInv, GuardThrows
  PROVE  TypeOK' /\ StackInv'
<1> DEFINE f == Head(todo)
           m == f.of
           e == f.event
           i == First(Candidates(f))
           t == Try(m, e, i)
<1>1. /\ todo # <<>> /\ ~throwing /\ f.op \in {"rows", "internal"}
      /\ \/ f.op = "rows" /\ Candidates(f) # {} /\ Do(Tried(m, e, i))
         \/ Do(<<>>)
      /\ throwing' = TRUE /\ failed' = TRUE /\ entered' = [n \in States |-> 0]
      /\ UNCHANGED <<tree, program, event, res, start, committed, undone>>
  BY DEF GuardThrows, Doing, ThrowNow
<1>2. /\ todo \in Seq(Frame) /\ Stacked(todo, event, current, Begun)
      /\ f \in Frame /\ Fits(f, event, current, Begun) /\ event \in Events
      /\ Promised(res, event, Begun)
  BY <1>1, FirstCall
<1>3. /\ Tail(todo) \in Seq(Frame) /\ Stacked(Tail(todo), event, current, Begun)
      /\ Tail(todo) # <<>> => Head(Tail(todo)).op # "try"
  BY <1>1, TailOfCall
<1>4. /\ todo' \in Seq(Frame) /\ Stacked(todo', event, current, Begun)
      /\ todo' # <<>> /\ Head(todo').op = "try" => Unmoved(Head(todo'), event, current, Begun)
  <2>1. CASE Do(<<>>)
    <3>1. todo' = Tail(todo)
      BY <1>3, <2>1 DEF Do
    <3>2. QED
      BY <1>3, <3>1
  <2>2. CASE f.op = "rows" /\ Candidates(f) # {} /\ Do(<<t>>)
    <3>1. /\ m \in Machines /\ e \in {event, None} /\ event # None
          /\ e = None \/ (e = event /\ m \in Active(Begun))
          /\ e = event => Same({m}, current, Begun)
          /\ Due(event, Begun) /\ f.row >= 1
      BY <1>1, <1>2, <2>2, RowsFor DEF Fits, FitsDispatch
    <3>2. i \in DOMAIN Table[m] /\ i \in Nat
      BY <1>2, <2>2, <3>1, FirstCandidate
    <3>3. t \in Frame /\ t.op = "try" /\ t.of = m /\ t.event = e /\ t.row = i
      <4>1. dirty \subseteq States
        BY DEF TypeOK
      <4>2. e \in Events \cup {None}
        BY <1>2, <3>1
      <4> HIDE DEF m, e, i
      <4>3. QED
        BY <3>1, <3>2, <4>1, <4>2, TryFrame
    <3> HIDE DEF t, i, f
    <3>4. Fits(t, event, current, Begun)
      BY <3>1, <3>2, <3>3 DEF Fits, FitsDispatch, FitsTransition
    <3>5. <<t>> \in Seq(Frame) /\ Stacked(<<t>>, event, current, Begun)
      BY <3>3, <3>4, StackedOne
    <3>6. Scope(f) = Below(m) /\ Scope(t) = Below(m)
      BY <2>2, <3>3 DEF Scope
    <3> DEFINE ops == <<t>>
    <3>7. DOMAIN ops = {1} /\ ops[1] = t /\ Head(ops) = t /\ ops # <<>>
      OBVIOUS
    <3> HIDE DEF ops
    <3>8. ops \in Seq(Frame) /\ Stacked(ops, event, current, Begun)
      BY <3>5 DEF ops
    <3>9. \A k \in DOMAIN ops : Scope(ops[k]) \subseteq Scope(f)
      BY <3>6, <3>7
    <3>10. todo' = ops \o Tail(todo) /\ f.op # "set"
      BY <2>2 DEF Do, ops
    <3>11. todo' \in Seq(Frame) /\ Stacked(todo', event, current, Begun)
      BY <1>1, <1>2, <3>8, <3>9, <3>10, StackedDo DEF f
    <3>12. Head(todo') = t
      BY <1>3, <3>7, <3>8, <3>10, HeadTailConcat
    <3>13. Unmoved(t, event, current, Begun)
      BY <3>1, <3>3 DEF Unmoved
    <3>14. QED
      BY <3>11, <3>12, <3>13
  <2>3. QED
    BY <1>1, <2>1, <2>2 DEF Tried
<1>5. TypeOK'
  <2>1. entered' \in [States -> Int]
    BY <1>1
  <2>2. QED
    BY <1>1, <1>4, <2>1 DEF TypeOK, program, tree
<1>6. StackInv'
  BY <1>1, <1>2, <1>4 DEF StackInv, Begun, tree
<1>7. QED
  BY <1>5, <1>6

LEMMA EscapeStep ==
  ASSUME TypeOK, StackInv, Escape
  PROVE  TypeOK' /\ StackInv'
<1>1. /\ throwing /\ todo # <<>> /\ todo' = <<>>
      /\ UNCHANGED <<tree, program, event, res, throwing, history>>
  BY DEF Escape
<1>2. Promised(res, event, Begun)
  BY <1>1 DEF StackInv, Begun
<1>3. <<>> \in Seq(Frame) /\ Stacked(<<>>, event, current, Begun)
  BY StackedNothing
<1>4. TypeOK'
  BY <1>1, <1>3 DEF TypeOK, tree, program, history
<1>5. StackInv'
  BY <1>1, <1>2, <1>3 DEF StackInv, Begun, tree, history
<1>6. QED
  BY <1>4, <1>5

\* What is left of a stack above one of its calls.
LEMMA StackedRest ==
  ASSUME NEW s \in Seq(Frame), NEW at \in DOMAIN s, NEW e, NEW c, NEW b, Stacked(s, e, c, b)
  PROVE  LET rest == SubSeq(s, at + 1, Len(s)) IN
         /\ rest \in Seq(Frame) /\ Stacked(rest, e, c, b)
         /\ \A j \in DOMAIN rest : Scope(s[at]) \cap Relies(rest[j]) = {}
         /\ rest # <<>> => rest[1] = Head(rest)
         /\ rest # <<>> /\ rest[1].op = "try" => s[at].op = "set"
<1> DEFINE rest == SubSeq(s, at + 1, Len(s))
           n == Len(s) - at
<1>1. Len(s) \in Nat /\ DOMAIN s = 1..Len(s) /\ n \in Nat /\ at \in Nat \ {0}
  OBVIOUS
<1>2. /\ rest \in Seq(Frame) /\ Len(rest) = n /\ \A i \in 1..n : rest[i] = s[at + i]
  <2>1. at + 1 \in Int /\ Len(s) \in Int /\ \A i \in (at + 1)..Len(s) : s[i] \in Frame
    BY <1>1
  <2>2. /\ SubSeq(s, at + 1, Len(s)) \in Seq(Frame)
        /\ Len(SubSeq(s, at + 1, Len(s))) =
              IF at + 1 <= Len(s) THEN Len(s) - (at + 1) + 1 ELSE 0
        /\ \A i \in 1..(Len(s) - (at + 1) + 1) :
              SubSeq(s, at + 1, Len(s))[i] = s[(at + 1) + i - 1]
    BY ONLY <2>1, SubSeqProperties
  <2>3. n = Len(s) - (at + 1) + 1 /\ n = (IF at + 1 <= Len(s) THEN Len(s) - (at + 1) + 1 ELSE 0)
        /\ \A i \in 1..n : (at + 1) + i - 1 = at + i
    BY <1>1
  <2>4. QED
    BY <2>2, <2>3
<1> HIDE DEF rest, n
<1>3. /\ DOMAIN rest = 1..n
      /\ \A i \in 1..n : at + i \in DOMAIN s /\ at < at + i
      /\ \A i, j \in 1..n : i < j => at + i < at + j
      /\ \A i \in 1..n : i > 1 => i - 1 \in 1..n /\ at + (i - 1) = (at + i) - 1 /\ at + i > 1
  BY <1>1, <1>2 DEF n
<1>4. Confined(rest)
  BY <1>2, <1>3 DEF Stacked, Confined
<1>5. \A j \in DOMAIN rest : Fits(rest[j], e, c, b)
  BY <1>2, <1>3 DEF Stacked
<1>6. Guarded(rest, e, c, b)
  <2> SUFFICES ASSUME NEW j \in 1..n, rest[j].op = "try", j > 1
               PROVE  /\ rest[j - 1].op = "set" /\ rest[j - 1].of = rest[j].of
                      /\ Unmoved(rest[j], e, c, b)
    BY <1>3 DEF Guarded
  <2>1. rest[j] = s[at + j] /\ rest[j - 1] = s[(at + j) - 1] /\ at + j \in DOMAIN s /\ at + j > 1
    BY <1>2, <1>3
  <2>2. QED
    BY <2>1 DEF Stacked, Guarded
<1>7. \A j \in DOMAIN rest : Scope(s[at]) \cap Relies(rest[j]) = {}
  BY <1>2, <1>3 DEF Stacked, Confined
<1>8. rest # <<>> /\ rest[1].op = "try" => s[at].op = "set"
  <2> SUFFICES ASSUME rest # <<>>, rest[1].op = "try" PROVE s[at].op = "set"
    OBVIOUS
  <2>1. 1 \in 1..n
    BY <1>1, <1>2
  <2>2. at + 1 \in DOMAIN s /\ at + 1 > 1 /\ (at + 1) - 1 = at /\ s[at + 1].op = "try"
    <3>1. at + 1 > 1 /\ (at + 1) - 1 = at
      BY ONLY <1>1
    <3>2. at + 1 \in DOMAIN s /\ rest[1] = s[at + 1]
      BY <1>2, <1>3, <2>1
    <3>3. QED
      BY <3>1, <3>2
  <2>3. QED
    BY <2>2 DEF Stacked, Guarded
<1>9. rest # <<>> => rest[1] = Head(rest)
  BY <1>2, TailFacts
<1>10. QED
  BY <1>2, <1>4, <1>5, <1>6, <1>7, <1>8, <1>9 DEF Stacked, rest

\* The innermost `try` is one of the stack; its machine is where it was.
LEMMA Innermost ==
  ASSUME TypeOK, StackInv, throwing, NEW at,
         at = First({i \in DOMAIN todo : todo[i].op = "try"}),
         \E i \in DOMAIN todo : todo[i].op = "try"
  PROVE  /\ todo # <<>> /\ at \in DOMAIN todo /\ todo[at].op = "try"
         /\ Unmoved(todo[at], event, current, Begun)
<1> DEFINE tries == {i \in DOMAIN todo : todo[i].op = "try"}
<1>1. todo \in Seq(Frame) /\ DOMAIN todo = 1..Len(todo) /\ Len(todo) \in Nat
  BY DEF TypeOK
<1>2. tries \in SUBSET Nat /\ tries # {} /\ todo # <<>>
  BY <1>1
<1>3. at \in DOMAIN todo /\ todo[at].op = "try"
  BY <1>2, FirstOf
<1>4. CASE at = 1
  <2>1. Head(todo) = todo[1]
    BY <1>1, <1>2
  <2>2. QED
    BY <1>2, <1>3, <1>4, <2>1 DEF StackInv, Begun
<1>5. CASE at # 1
  <2>1. at > 1
    BY <1>1, <1>3, <1>5
  <2>2. QED
    BY <1>2, <1>3, <2>1 DEF StackInv, Stacked, Guarded, Begun
<1>6. QED
  BY <1>2, <1>3, <1>4, <1>5

LEMMA CatchStep ==
  ASSUME TypeOK, StackInv, Catch
  PROVE  TypeOK' /\ StackInv'
<1> DEFINE at == First({i \in DOMAIN todo : todo[i].op = "try"})
           f == todo[at]
           m == f.of
           r == Table[m][f.row]
           rest == SubSeq(todo, at + 1, Len(todo))
           restored == Below(r.from) \cup Below(r.to)
           again == Rows(m, f.event, f.row + 1)
<1>1. /\ throwing /\ \E i \in DOMAIN todo : todo[i].op = "try"
      /\ current' = [x \in Machines |-> IF x \in restored THEN Initial[x] ELSE current[x]]
      /\ dirty' = (dirty \ restored) \cup f.backup
      /\ undone' = undone \cup {<<m, f.row>>}
      /\ \/ todo' = rest /\ UNCHANGED <<res, throwing>>
         \/ todo' = <<again>> \o rest /\ res' = "refuse" /\ throwing' = FALSE
      /\ UNCHANGED <<program, event, entered, start, committed, failed>>
  BY DEF Catch, Restore
<1>2. todo # <<>> /\ at \in DOMAIN todo /\ f.op = "try" /\ Unmoved(f, event, current, Begun)
  BY <1>1, Innermost
<1>3. /\ todo \in Seq(Frame) /\ Stacked(todo, event, current, Begun) /\ event \in Events
      /\ event # None
  BY <1>2, FirstCall
<1>4. f \in Frame /\ Fits(f, event, current, Begun)
  BY <1>2, <1>3 DEF Stacked
<1>5. /\ m \in Machines /\ f.row \in Nat /\ f.event \in Events \cup {None}
      /\ f.backup \subseteq States /\ f.row \in DOMAIN Table[m]
      /\ (f.event = None /\ Due(event, Begun)) \/ (f.event = event /\ m \in Active(Begun))
  BY <1>2, <1>4, FrameFields DEF Fits, FitsTransition
<1>6. /\ rest \in Seq(Frame) /\ Stacked(rest, event, current, Begun)
      /\ \A j \in DOMAIN rest : Scope(f) \cap Relies(rest[j]) = {}
      /\ rest # <<>> => rest[1] = Head(rest) /\ rest[1].op # "try"
  BY <1>2, <1>3, StackedRest
<1> HIDE DEF at, f, m, rest
<1>7. restored \subseteq Below(m) \ {m}
  BY <1>5, TableAssumption, BelowChild
<1> HIDE DEF restored
<1>8. Scope(f) = Below(m)
  BY <1>2 DEF Scope, m
<1>9. \A x \in Machines \ restored : current'[x] = current[x]
  BY <1>1
<1>10. Stacked(rest, event, current', Begun)
  <2>1. \A j \in DOMAIN rest : \A x \in Machines \cap Relies(rest[j]) : current'[x] = current[x]
    BY <1>6, <1>7, <1>8, <1>9
  <2>2. QED
    BY <1>6, <2>1, StackedElsewhere
<1>11. current' \in [Machines -> States] /\ \A x \in Machines : current'[x] \in Children(x)
  <2>1. \A x \in Machines : current'[x] \in Children(x)
    BY <1>1, TreeAssumption DEF TypeOK
  <2>2. \A x \in Machines : Children(x) \subseteq States
    BY TreeAssumption DEF Children
  <2>3. QED
    BY <1>1, <2>1, <2>2
<1>12. dirty' \subseteq States /\ undone' \subseteq Machines \X Nat
  BY <1>1, <1>5 DEF TypeOK
<1>13. CASE todo' = rest /\ UNCHANGED <<res, throwing>>
  <2>1. TypeOK'
    BY <1>1, <1>6, <1>11, <1>12, <1>13 DEF TypeOK, program
  <2>2. Promised(res, event, Begun)
    BY <1>1 DEF StackInv, Begun
  <2>3. StackInv'
    BY <1>1, <1>3, <1>6, <1>10, <1>13, <2>2 DEF StackInv, Begun
  <2>4. QED
    BY <2>1, <2>3
<1>14. CASE todo' = <<again>> \o rest /\ res' = "refuse" /\ throwing' = FALSE
  <2>1. /\ again \in Frame /\ again.op = "rows" /\ again.of = m /\ again.event = f.event
        /\ again.row = f.row + 1
    BY <1>5, RowsFrame
  <2> HIDE DEF again
  <2>2. f.row + 1 >= 1
    BY <1>5
  <2>3. f.event = event => Same({m}, current', Begun)
    BY <1>2, <1>7, <1>9 DEF Unmoved, Same, m
  <2>4. Fits(again, event, current', Begun)
    BY <1>5, <2>1, <2>2, <2>3 DEF Fits, FitsDispatch, FitsTransition
  <2>5. Scope(again) = Below(m)
    BY <2>1 DEF Scope
  <2>6. \A j \in DOMAIN rest : Scope(again) \cap Relies(rest[j]) = {}
    BY <1>6, <1>8, <2>5
  <2>7. todo' \in Seq(Frame) /\ Stacked(todo', event, current', Begun)
    BY <1>6, <1>10, <1>14, <2>1, <2>4, <2>6, StackedCons
  <2>8. TypeOK'
    BY <1>1, <1>11, <1>12, <1>14, <2>7 DEF TypeOK, program, Answers
  <2>9. StackInv'
    BY <1>1, <1>3, <1>14, <2>7, ProcessPromised DEF StackInv, Begun
  <2>10. QED
    BY <2>8, <2>9
<1>15. QED
  BY <1>1, <1>13, <1>14

-----------------------------------------------------------------------------
(* The invariant, and what follows from it *)

LEMMA InitStack ==
  ASSUME Init
  PROVE  TypeOK /\ StackInv
<1>1. /\ current = Initial /\ dirty = {} /\ queue = <<>> /\ event = None /\ todo = <<>>
      /\ res = "refuse" /\ throwing = FALSE /\ start = Now /\ committed = Now
      /\ undone = {} /\ failed = FALSE
      /\ entered = [n \in States |-> IF n \in Active(Initial) THEN 1 ELSE 0]
  BY DEF Init
<1>2. <<>> \in Seq(Frame) /\ Stacked(<<>>, event, current, Begun)
  BY StackedNothing
<1>3. Now.current = current /\ Now.dirty = dirty
  BY DEF Now
<1>4. current \in [Machines -> States] /\ \A m \in Machines : current[m] \in Children(m)
  BY <1>1, TreeAssumption
<1>5. entered \in [States -> Int]
  BY <1>1
<1>6. TypeOK
  <2>1. /\ {start.current, committed.current} \subseteq [Machines -> States]
        /\ {start.dirty, committed.dirty} \subseteq SUBSET States
    BY <1>1, <1>3, <1>4
  <2>2. queue \in Seq(Events) /\ todo \in Seq(Frame)
    BY <1>1, <1>2
  <2>3. event \in Events \cup {None} /\ res \in Answers
    BY <1>1 DEF Answers
  <2>4. /\ dirty \subseteq States /\ undone \subseteq Machines \X Nat
        /\ {throwing, failed} \subseteq BOOLEAN
    BY <1>1
  <2>5. QED
    BY <1>4, <1>5, <2>1, <2>2, <2>3, <2>4 DEF TypeOK
<1>7. StackInv
  BY <1>1, <1>2, ProcessPromised DEF StackInv, Begun
<1>8. QED
  BY <1>6, <1>7

LEMMA NextStack ==
  ASSUME TypeOK, StackInv, [Next]_vars
  PROVE  TypeOK' /\ StackInv'
<1>1. ASSUME NEW e \in Events, Receive(e)
      PROVE  TypeOK' /\ StackInv'
  BY <1>1, ReceiveStep
<1>2. CASE Dispatch
  BY <1>2, DispatchStep
<1>3. CASE NextRegion
  BY <1>3, NextRegionStep
<1>4. CASE NoMoreRows
  BY <1>4, NoMoreRowsStep
<1>5. CASE TestRow
  BY <1>5, TestRowStep
<1>6. CASE TestInternalRow
  BY <1>6, TestInternalRowStep
<1>7. CASE Settle
  BY <1>7, SettleStep
<1>8. CASE CheckDefault
  BY <1>8, CheckDefaultStep
<1>9. CASE GiveAnswer
  BY <1>9, GiveAnswerStep
<1>10. CASE ExitOrEnter
  BY <1>10, ExitOrEnterStep
<1>11. CASE ClearSource
  BY <1>11, ClearSourceStep
<1>12. CASE CompleteTransition
  BY <1>12, CompleteTransitionStep
<1>13. CASE LeaveTry
  BY <1>13, LeaveTryStep
<1>14. CASE RunHandler
  BY <1>14, RunHandlerStep
<1>15. CASE HandlerThrows
  BY <1>15, HandlerThrowsStep
<1>16. CASE GuardThrows
  BY <1>16, GuardThrowsStep
<1>17. CASE Escape
  BY <1>17, EscapeStep
<1>18. CASE Catch
  BY <1>18, CatchStep
<1>19. CASE UNCHANGED vars
  BY <1>19 DEF vars, tree, program, control, history, TypeOK, StackInv
<1>20. QED
  BY <1>1, <1>2, <1>3, <1>4, <1>5, <1>6, <1>7, <1>8, <1>9, <1>10, <1>11, <1>12, <1>13,
     <1>14, <1>15, <1>16, <1>17, <1>18, <1>19 DEF Next, Step, Stuck

\* The calls in progress never disturb each other, and whatever is on the stack
\* belongs to the event that is being dispatched and to the states in which
\* that event found the hierarchy: also after transitions in earlier regions,
\* default transitions on entry, and exceptions caught on the way.
THEOREM StackInvariant == Spec => [](TypeOK /\ StackInv)
<1>1. Init => TypeOK /\ StackInv
  BY InitStack
<1>2. (TypeOK /\ StackInv) /\ [Next]_vars => (TypeOK /\ StackInv)'
  BY NextStack
<1>3. QED
  BY <1>1, <1>2, PTL DEF Spec

\* A machine is always in one of its own states, and no handler is ever called
\* and no row ever looked at that is not there.
THEOREM TypeCorrect == Spec => []TypeOK
  BY StackInvariant, PTL

\* An event is processed only if the machine had published that it handles it,
\* and deferred only if it had published that it would: dispatch, and the sets
\* by which deferred events are chosen to be tried again, never disagree, for
\* any depth of machines and regions and also with default transitions and
\* exceptions.
THEOREM AnswersPublished == Spec => []AnswersAsPublished
<1>1. StackInv => AnswersAsPublished
  BY DEF StackInv, AnswersAsPublished, Promised, Due, Resting
<1>2. QED
  BY <1>1, StackInvariant, PTL

-----------------------------------------------------------------------------
(* Current states under history *)

\* A step that takes an inner machine, history all around it, to another state
\* makes one of the machine's own transitions.
KeptBy(m) ==
    Up[m] \ {Root} \subseteq History /\ current'[m] # current[m] =>
        \E r \in ToSet(Table[m]) :
            r.from = current[m] /\ r.to = current'[m] /\ r.event \in {Kind(event), None}

LEMMA StepKeeps ==
  ASSUME TypeOK, StackInv, [Next]_vars, ~throwing, NEW m \in Machines \ {Root}
  PROVE  KeptBy(m)
<1> DEFINE f == Head(todo)
<1> SUFFICES ASSUME Up[m] \ {Root} \subseteq History, current'[m] # current[m]
             PROVE  \E r \in ToSet(Table[m]) :
                       /\ r.from = current[m] /\ r.to = current'[m]
                       /\ r.event \in {Kind(event), None}
  BY DEF KeptBy
<1>1. ClearSource \/ CompleteTransition
  BY DEF Next, Step, Stuck, vars, tree, Receive, Dispatch, NextRegion, NoMoreRows, TestRow,
         TestInternalRow, Settle, CheckDefault, GiveAnswer, ExitOrEnter, LeaveTry, RunHandler,
         HandlerThrows, GuardThrows, Escape, Catch
<1>2. current \in [Machines -> States]
  BY DEF TypeOK
<1>3. ASSUME ClearSource PROVE FALSE
  <2>1. /\ todo # <<>> /\ f.op = "clear" /\ f.of \notin History /\ m \in Below(f.of)
    BY <1>3 DEF ClearSource, Doing
  <2>2. f.of # Root
    BY <2>1, FirstCall DEF Fits, FitsTransition
  <2>3. f.of \in Up[m]
    BY <2>1 DEF Below
  <2>4. QED
    BY <2>1, <2>2, <2>3
<1>4. CASE CompleteTransition
  <2>1. /\ todo # <<>> /\ f.op = "set" /\ current' = [current EXCEPT ![f.of] = f.to]
    BY <1>4 DEF CompleteTransition, Doing
  <2>2. m = f.of /\ current'[m] = f.to
    BY <1>2, <2>1
  <2>3. \E r \in ToSet(Table[m]) :
           r.from = current[m] /\ r.to = f.to /\ r.event \in {Kind(event), None}
    BY <2>1, <2>2, FirstCall DEF Fits, FitsTransition
  <2>4. QED
    BY <2>2, <2>3
<1>5. QED
  BY <1>1, <1>3, <1>4

\* Whatever throws: until an exception is on its way, and so in every step but
\* those in which a transition is rolled back, history is kept.
THEOREM HistoryKeptUnlessRolledBack ==
  Spec => [][throwing \/ \A m \in Machines \ {Root} : KeptBy(m)]_vars
<1>1. TypeOK /\ StackInv /\ [Next]_vars =>
        [throwing \/ \A m \in Machines \ {Root} : KeptBy(m)]_vars
  BY StepKeeps
<1>2. QED
  BY <1>1, StackInvariant, PTL DEF Spec

LEMMA NothingThrown ==
  ASSUME Throwing = {}
  PROVE  Spec => []~throwing
<1>1. Init => ~throwing
  BY DEF Init
<1>2. ~throwing /\ [Next]_vars => ~throwing'
  BY DEF Next, Step, Stuck, vars, control, Receive, Dispatch, NextRegion, NoMoreRows, TestRow,
         TestInternalRow, Settle, CheckDefault, GiveAnswer, ExitOrEnter, ClearSource,
         CompleteTransition, LeaveTry, RunHandler, HandlerThrows, GuardThrows, Escape, Catch
<1>3. QED
  BY <1>1, <1>2, PTL DEF Spec

\* When nothing throws, leaving and entering a machine with history, at any
\* depth, does not change its current state; only its own transitions do.
THEOREM HistoryIsKept ==
  ASSUME Throwing = {}
  PROVE  Spec => HistoryKept
<1>1. TypeOK /\ StackInv /\ ~throwing /\ [Next]_vars =>
        [\A m \in Machines \ {Root} : KeptBy(m)]_vars
  BY StepKeeps
<1>2. Spec => [][\A m \in Machines \ {Root} : KeptBy(m)]_vars
  BY <1>1, StackInvariant, NothingThrown, PTL DEF Spec
<1>3. QED
  BY <1>2 DEF HistoryKept, KeptBy

-----------------------------------------------------------------------------
(***************************************************************************)
(* For every hierarchy, every tables, guards and handlers: what an event   *)
(* has moved is told of.  Between two steps that is not so, a machine has  *)
(* moved and the answer there is may be anything; so the invariant is      *)
(* about the calls that are left: whatever has moved, the answer there is  *)
(* or a later call says `process`, no call that would say something else   *)
(* comes after it (Answered, ToldLater), and neither does an exception     *)
(* take it away, because the `try` that catches it resets what is told of  *)
(* by no call after it (ToldOutside, Sheltered).                           *)
(*                                                                         *)
(* All steps but a Catch and a Receive replace the first call by others    *)
(* (Put): the lemmas are about what such a replacement keeps.              *)
(*                                                                         *)
(* The last part says the same of the data that handlers change.           *)
(***************************************************************************)

-----------------------------------------------------------------------------
(* Stacks from which calls are taken and on which others are put *)

\* The first k calls of a stack are replaced by others.
Put(r, ops, s, k) ==
    /\ DOMAIN r = 1..(Len(ops) + (Len(s) - k))
    /\ \A i \in 1..Len(ops) : r[i] = ops[i]
    /\ \A i \in (k + 1)..Len(s) : r[Len(ops) + (i - k)] = s[i]

LEMMA PutFirst ==
  ASSUME NEW s \in Seq(Frame), s # <<>>, NEW ops \in Seq(Frame)
  PROVE  Put(ops \o Tail(s), ops, s, 1) /\ 1 \in DOMAIN s /\ Head(s) = s[1]
<1>1. /\ Len(s) \in Nat \ {0} /\ DOMAIN s = 1..Len(s)
      /\ DOMAIN (ops \o Tail(s)) = 1..(Len(ops) + (Len(s) - 1))
      /\ \A i \in 1..Len(ops) : (ops \o Tail(s))[i] = ops[i]
      /\ \A i \in 2..Len(s) : (ops \o Tail(s))[Len(ops) + (i - 1)] = s[i]
      /\ Head(s) = s[1]
  BY DoStack
<1>2. QED
  BY <1>1 DEF Put

LEMMA PutRest ==
  ASSUME NEW s \in Seq(Frame), NEW k \in DOMAIN s, NEW ops \in Seq(Frame)
  PROVE  Put(ops \o SubSeq(s, k + 1, Len(s)), ops, s, k)
<1> DEFINE t == SubSeq(s, k + 1, Len(s))
           n == Len(s) - k
<1>1. Len(s) \in Nat /\ DOMAIN s = 1..Len(s) /\ n \in Nat /\ k \in Nat \ {0}
  OBVIOUS
<1>2. /\ t \in Seq(Frame) /\ Len(t) = n /\ \A i \in 1..n : t[i] = s[k + i]
  <2>1. k + 1 \in Int /\ Len(s) \in Int /\ \A i \in (k + 1)..Len(s) : s[i] \in Frame
    BY <1>1
  <2>2. /\ SubSeq(s, k + 1, Len(s)) \in Seq(Frame)
        /\ Len(SubSeq(s, k + 1, Len(s))) =
              IF k + 1 <= Len(s) THEN Len(s) - (k + 1) + 1 ELSE 0
        /\ \A i \in 1..(Len(s) - (k + 1) + 1) :
              SubSeq(s, k + 1, Len(s))[i] = s[(k + 1) + i - 1]
    BY ONLY <2>1, SubSeqProperties
  <2>3. n = Len(s) - (k + 1) + 1 /\ n = (IF k + 1 <= Len(s) THEN Len(s) - (k + 1) + 1 ELSE 0)
        /\ \A i \in 1..n : (k + 1) + i - 1 = k + i
    BY <1>1
  <2>4. QED
    BY <2>2, <2>3
<1> HIDE DEF t
<1>3. /\ Len(ops) \in Nat /\ Len(ops \o t) = Len(ops) + Len(t)
      /\ DOMAIN (ops \o t) = 1..Len(ops \o t)
      /\ \A i \in 1..Len(ops) : (ops \o t)[i] = ops[i]
      /\ \A i \in 1..Len(t) : (ops \o t)[Len(ops) + i] = t[i]
  <2>1. ops \in Seq(Frame) /\ t \in Seq(Frame)
    BY <1>2
  <2>2. QED
    BY ONLY <2>1
<1>4. \A i \in (k + 1)..Len(s) : i - k \in 1..n /\ k + (i - k) = i
  BY <1>1
<1>5. \A i \in (k + 1)..Len(s) : (ops \o t)[Len(ops) + (i - k)] = s[i]
  BY <1>2, <1>3, <1>4
<1>6. QED
  BY <1>2, <1>3, <1>5 DEF Put, t

\* Where the calls of such a stack come from.
LEMMA PutCalls ==
  ASSUME NEW s \in Seq(Frame), NEW k \in DOMAIN s, NEW ops \in Seq(Frame), NEW r, Put(r, ops, s, k)
  PROVE  /\ Len(ops) \in Nat /\ DOMAIN ops = 1..Len(ops) /\ DOMAIN s = 1..Len(s)
         /\ DOMAIN r \subseteq Nat \ {0} /\ DOMAIN s \subseteq Nat \ {0}
         /\ \A j \in DOMAIN ops : j \in DOMAIN r /\ r[j] = ops[j]
         /\ \A i \in DOMAIN s : i > k => /\ Len(ops) + (i - k) \in DOMAIN r
                                         /\ r[Len(ops) + (i - k)] = s[i]
         /\ \A j \in DOMAIN r :
               \/ j \in DOMAIN ops /\ r[j] = ops[j]
               \/ \E i \in DOMAIN s : i > k /\ j = Len(ops) + (i - k) /\ r[j] = s[i]
<1> DEFINE n == Len(ops)
<1>1. /\ n \in Nat /\ DOMAIN ops = 1..n /\ Len(s) \in Nat /\ DOMAIN s = 1..Len(s) /\ k \in 1..Len(s)
      /\ DOMAIN r = 1..(n + (Len(s) - k))
      /\ \A i \in 1..n : r[i] = ops[i]
      /\ \A i \in (k + 1)..Len(s) : r[n + (i - k)] = s[i]
  BY DEF Put
<1> HIDE DEF n
<1>2. \A j \in 1..n : j \in DOMAIN r
  BY <1>1
<1>3. \A i \in DOMAIN s : i > k => i \in (k + 1)..Len(s) /\ n + (i - k) \in DOMAIN r
  BY <1>1
<1>4. ASSUME NEW j \in DOMAIN r
      PROVE  \/ j \in DOMAIN ops /\ r[j] = ops[j]
             \/ \E i \in DOMAIN s : i > k /\ j = n + (i - k) /\ r[j] = s[i]
  <2>1. CASE j <= n
    BY <1>1, <2>1
  <2>2. CASE j > n
    <3> DEFINE i == (j - n) + k
    <3>1. i \in DOMAIN s /\ i > k /\ j = n + (i - k) /\ i \in (k + 1)..Len(s)
      BY <1>1, <2>2
    <3>2. r[j] = s[i]
      BY <1>1, <3>1
    <3>3. QED
      BY <3>1, <3>2
  <2>3. QED
    BY <1>1, <2>1, <2>2
<1>5. QED
  BY <1>1, <1>2, <1>3, <1>4 DEF n

\* What is told of later still is.
LEMMA PutTold ==
  ASSUME NEW s \in Seq(Frame), NEW k \in DOMAIN s, NEW ops \in Seq(Frame), NEW r, Put(r, ops, s, k)
  PROVE  /\ \A i \in DOMAIN s : i >= k /\ ToldAfter(s, i) => ToldAfter(r, Len(ops) + (i - k))
         /\ \A j \in 0..Len(ops) : ToldAfter(s, k) \/ ToldAfter(ops, j) => ToldAfter(r, j)
<1> DEFINE n == Len(ops)
<1>1. /\ n \in Nat /\ DOMAIN ops = 1..n /\ DOMAIN s \subseteq Nat \ {0}
      /\ \A j \in DOMAIN ops : j \in DOMAIN r /\ r[j] = ops[j]
      /\ \A i \in DOMAIN s : i > k => n + (i - k) \in DOMAIN r /\ r[n + (i - k)] = s[i]
  BY PutCalls
<1> HIDE DEF n
<1>2. ASSUME NEW i \in DOMAIN s, i >= k, ToldAfter(s, i)
      PROVE  ToldAfter(r, n + (i - k))
  <2>1. PICK j \in DOMAIN s : j > i /\ Tells(s[j])
    BY <1>2 DEF ToldAfter
  <2>2. j > k /\ n + (j - k) > n + (i - k)
    BY <1>1, <1>2, <2>1
  <2>3. QED
    BY <1>1, <2>1, <2>2 DEF ToldAfter
<1>3. ASSUME NEW j \in 0..n, ToldAfter(s, k)
      PROVE  ToldAfter(r, j)
  <2>1. PICK i \in DOMAIN s : i > k /\ Tells(s[i])
    BY <1>3 DEF ToldAfter
  <2>2. n + (i - k) > j
    BY <1>1, <2>1
  <2>3. QED
    BY <1>1, <2>1, <2>2 DEF ToldAfter
<1>4. ASSUME NEW j \in 0..n, ToldAfter(ops, j)
      PROVE  ToldAfter(r, j)
  BY <1>1, <1>4 DEF ToldAfter
<1>5. QED
  BY <1>2, <1>3, <1>4 DEF n

\* What is on the stack stays arranged when the k-th call is replaced by calls
\* that change no more than it, and those before it are dropped.
LEMMA ArrangedPut ==
  ASSUME NEW s \in Seq(Frame), NEW k \in DOMAIN s, NEW ops \in Seq(Frame), NEW r, Put(r, ops, s, k),
         NEW e, NEW c, NEW b, Guarded(s, e, c, b),
         Arranged(s), InTurn(ops), Sheltered(ops),
         \A i \in DOMAIN ops : ops[i].op \in {"default", "enter", "clear"} =>
             ToldAfter(s, k) \/ ToldAfter(ops, i),
         \A i \in DOMAIN ops : Scope(ops[i]) \subseteq Scope(s[k]),
         s[k].op \in {"call", "set"} => ops = <<>>
  PROVE  Arranged(r)
<1> DEFINE n == Len(ops)
<1>1. /\ n \in Nat /\ DOMAIN ops = 1..n /\ DOMAIN s = 1..Len(s)
      /\ DOMAIN r \subseteq Nat \ {0} /\ DOMAIN s \subseteq Nat \ {0} /\ k \in Nat \ {0}
      /\ \A j \in DOMAIN ops : j \in DOMAIN r /\ r[j] = ops[j]
      /\ \A i \in DOMAIN s : i > k => n + (i - k) \in DOMAIN r /\ r[n + (i - k)] = s[i]
      /\ \A j \in DOMAIN r :
            \/ j \in DOMAIN ops /\ r[j] = ops[j]
            \/ \E i \in DOMAIN s : i > k /\ j = n + (i - k) /\ r[j] = s[i]
  BY PutCalls
<1>2. /\ \A i \in DOMAIN s : i >= k /\ ToldAfter(s, i) => ToldAfter(r, n + (i - k))
      /\ \A j \in 0..n : ToldAfter(s, k) \/ ToldAfter(ops, j) => ToldAfter(r, j)
  BY PutTold
<1>3. ops = <<>> => n = 0
  OBVIOUS
<1> HIDE DEF n
<1>4. InTurn(r)
  <2>1. ASSUME NEW j \in DOMAIN ops, r[j] = ops[j]
        PROVE  /\ Dispatches(r[j]) => j = 1
               /\ Denies(r[j]) => j = 1 \/ (j = 2 /\ r[1].op = "call")
    <3>1. j = 2 => 1 \in DOMAIN ops
      BY <1>1
    <3>2. QED
      BY <1>1, <2>1, <3>1 DEF InTurn
  <2>2. ASSUME NEW i \in DOMAIN s, i > k
        PROVE  /\ ~Dispatches(s[i])
               /\ Denies(s[i]) => i = 2 /\ k = 1 /\ s[k].op = "call"
    <3>1. i # 1 /\ (i = 2 => k = 1)
      BY <1>1, <2>2
    <3>2. QED
      BY <3>1 DEF Arranged, InTurn
  <2>3. ASSUME NEW i \in DOMAIN s, NEW j \in DOMAIN r, i > k, j = n + (i - k), r[j] = s[i]
        PROVE  /\ Dispatches(r[j]) => j = 1
               /\ Denies(r[j]) => j = 1 \/ (j = 2 /\ r[1].op = "call")
    <3>1. i = 2 /\ k = 1 /\ n = 0 => j = 1
      BY <2>3
    <3>2. QED
      BY <1>3, <2>2, <2>3, <3>1
  <2>4. QED
    BY <1>1, <2>1, <2>3 DEF InTurn
<1>5. Followed(r)
  <2> SUFFICES ASSUME NEW j \in DOMAIN r, r[j].op \in {"default", "enter", "clear"}
               PROVE  ToldAfter(r, j)
    BY DEF Followed
  <2>1. CASE j \in DOMAIN ops /\ r[j] = ops[j]
    <3>1. j \in 0..n
      BY <1>1, <2>1
    <3>2. QED
      BY <1>2, <2>1, <3>1
  <2>2. ASSUME NEW i \in DOMAIN s, i > k, j = n + (i - k), r[j] = s[i]
        PROVE  ToldAfter(r, j)
    <3>1. ToldAfter(s, i) /\ i >= k
      BY <1>1, <2>2 DEF Arranged, Followed
    <3>2. QED
      BY <1>2, <2>2, <3>1
  <2>3. QED
    BY <1>1, <2>1, <2>2
<1>6. Sheltered(r)
  <2> SUFFICES ASSUME NEW t \in DOMAIN r, r[t].op = "try", NEW i \in DOMAIN r, i < t - 1
               PROVE  Scope(r[i]) \subseteq Risked(r[t])
    BY DEF Sheltered
  <2>1. CASE t \in DOMAIN ops /\ r[t] = ops[t]
    <3>1. i \in DOMAIN ops
      BY <1>1, <2>1
    <3>2. r[i] = ops[i]
      BY <1>1, <3>1
    <3>3. QED
      BY <2>1, <3>1, <3>2 DEF Sheltered
  <2>2. ASSUME NEW u \in DOMAIN s, u > k, t = n + (u - k), r[t] = s[u]
        PROVE  Scope(r[i]) \subseteq Risked(s[u])
    <3>1. ASSUME NEW h \in DOMAIN s, h < u - 1
          PROVE  Scope(s[h]) \subseteq Risked(s[u])
      BY <2>2, <3>1 DEF Arranged, Sheltered
    <3>2. CASE i \in DOMAIN ops /\ r[i] = ops[i]
      <4>1. u # k + 1
        <5>1. ASSUME u = k + 1 PROVE s[k].op = "set"
          <6>1. u > 1 /\ u - 1 = k
            <7>1. k \in Nat \ {0}
              BY <1>1
            <7>2. QED
              BY ONLY <5>1, <7>1
          <6>2. QED
            BY <2>2, <6>1 DEF Guarded
        <5>2. QED
          BY <1>1, <1>3, <3>2, <5>1
      <4>2. k < u - 1
        BY <1>1, <2>2, <4>1
      <4>3. QED
        BY <3>1, <3>2, <4>2
    <3>3. ASSUME NEW h \in DOMAIN s, h > k, i = n + (h - k), r[i] = s[h]
          PROVE  Scope(r[i]) \subseteq Risked(s[u])
      <4>1. h < u - 1
        BY <1>1, <2>2, <3>3
      <4>2. QED
        BY <3>1, <3>3, <4>1
    <3>4. QED
      BY <1>1, <3>2, <3>3
  <2>3. QED
    BY <1>1, <2>1, <2>2
<1>7. QED
  BY <1>4, <1>5, <1>6 DEF Arranged

\* Also what has moved is told of as before, if it is none but what the call
\* that is replaced might move.
LEMMA ReportedPut ==
  ASSUME NEW s \in Seq(Frame), NEW k \in DOMAIN s, NEW ops \in Seq(Frame), NEW r, Put(r, ops, s, k),
         NEW e, NEW c, NEW b, Guarded(s, e, c, b), Arranged(s),
         NEW lost, NEW thrown, NEW lost2, NEW thrown2, Reported(s, lost, thrown),
         lost2 \subseteq lost \cup Scope(s[k]),
         s[k].op = "set" => ops = <<>> /\ ~thrown2,
         \A i \in DOMAIN ops : Dispatches(ops[i]) \/ Denies(ops[i]) =>
             lost2 = {} \/ ToldAfter(s, k) \/ ToldAfter(ops, i),
         \A t \in DOMAIN ops : ops[t].op = "try" /\ (t > 1 \/ thrown2) =>
             lost2 = {} \/ ToldAfter(s, k) \/ ToldAfter(ops, t)
  PROVE  Reported(r, lost2, thrown2)
<1> DEFINE n == Len(ops)
<1>1. /\ n \in Nat /\ DOMAIN ops = 1..n /\ DOMAIN s = 1..Len(s)
      /\ DOMAIN r \subseteq Nat \ {0} /\ DOMAIN s \subseteq Nat \ {0} /\ k \in Nat \ {0}
      /\ \A j \in DOMAIN ops : j \in DOMAIN r /\ r[j] = ops[j]
      /\ \A i \in DOMAIN s : i > k => n + (i - k) \in DOMAIN r /\ r[n + (i - k)] = s[i]
      /\ \A j \in DOMAIN r :
            \/ j \in DOMAIN ops /\ r[j] = ops[j]
            \/ \E i \in DOMAIN s : i > k /\ j = n + (i - k) /\ r[j] = s[i]
  BY PutCalls
<1>2. /\ \A i \in DOMAIN s : i >= k /\ ToldAfter(s, i) => ToldAfter(r, n + (i - k))
      /\ \A j \in 0..n : ToldAfter(s, k) \/ ToldAfter(ops, j) => ToldAfter(r, j)
  BY PutTold
<1>3. ops = <<>> => n = 0
  OBVIOUS
<1> HIDE DEF n
<1>4. ToldLater(r, lost2)
  <2> SUFFICES ASSUME NEW j \in DOMAIN r, Dispatches(r[j]) \/ Denies(r[j])
               PROVE  lost2 = {} \/ ToldAfter(r, j)
    BY DEF ToldLater
  <2>1. CASE j \in DOMAIN ops /\ r[j] = ops[j]
    <3>1. j \in 0..n
      BY <1>1, <2>1
    <3>2. QED
      BY <1>2, <2>1, <3>1
  <2>2. ASSUME NEW i \in DOMAIN s, i > k, j = n + (i - k), r[j] = s[i]
        PROVE  lost2 = {} \/ ToldAfter(r, j)
    <3>1. i # 1 /\ (i = 2 => k = 1) /\ i >= k
      BY <1>1, <2>2
    <3>2. s[k].op = "call"
      BY <2>2, <3>1 DEF Arranged, InTurn
    <3>3. Scope(s[k]) = {}
      BY <3>2 DEF Scope
    <3>4. lost = {} \/ ToldAfter(s, i)
      BY <2>2 DEF Reported, ToldLater
    <3>5. QED
      BY <1>2, <2>2, <3>1, <3>3, <3>4
  <2>3. QED
    BY <1>1, <2>1, <2>2
<1>5. ToldOutside(r, lost2, thrown2)
  <2> SUFFICES ASSUME NEW t \in DOMAIN r, r[t].op = "try", t > 1 \/ thrown2
               PROVE  ToldAfter(r, t) \/ lost2 \subseteq Risked(r[t])
    BY DEF ToldOutside
  <2>1. CASE t \in DOMAIN ops /\ r[t] = ops[t]
    <3>1. t \in 0..n
      BY <1>1, <2>1
    <3>2. QED
      BY <1>2, <2>1, <3>1
  <2>2. ASSUME NEW u \in DOMAIN s, u > k, t = n + (u - k), r[t] = s[u]
        PROVE  ToldAfter(r, t) \/ lost2 \subseteq Risked(s[u])
    <3>1. u > 1 /\ u >= k /\ s[u].op = "try"
      BY <1>1, <2>2
    <3>2. ToldAfter(s, u) \/ lost \subseteq Risked(s[u])
      BY <3>1 DEF Reported, ToldOutside
    <3>3. Scope(s[k]) \subseteq Risked(s[u])
      <4>1. u # k + 1
        <5>1. ASSUME u = k + 1 PROVE s[k].op = "set" /\ (n = 0 => t = 1)
          <6>1. u - 1 = k /\ (n = 0 => t = 1)
            BY <1>1, <2>2, <5>1
          <6>2. QED
            BY <3>1, <5>1, <6>1 DEF Guarded
        <5>2. QED
          BY <1>3, <5>1
      <4>2. k < u - 1
        BY <1>1, <2>2, <4>1
      <4>3. QED
        BY <3>1, <4>2 DEF Arranged, Sheltered
    <3>4. QED
      BY <1>2, <2>2, <3>1, <3>2, <3>3
  <2>3. QED
    BY <1>1, <2>1, <2>2
<1>6. QED
  BY <1>4, <1>5 DEF Reported

-----------------------------------------------------------------------------
(* Steps *)

\* A call that is replaced by others tells the answer, or is told of later.
Told(r) == Lost' = {} \/ ToldAfter(todo, 1) \/ r = "process"

LEMMA ToldDo ==
  ASSUME TypeOK, StackInv, ToldInv, todo # <<>>,
         NEW ops \in Seq(Frame), Do(ops), InTurn(ops), Sheltered(ops),
         \A i \in DOMAIN ops : ops[i].op \in {"default", "enter", "clear"} =>
             ToldAfter(todo, 1) \/ ToldAfter(ops, i),
         \A i \in DOMAIN ops : Scope(ops[i]) \subseteq Scope(Head(todo)),
         Head(todo).op \in {"call", "set"} => ops = <<>>,
         Head(todo).op = "set" => ~throwing',
         Lost' \subseteq Lost \cup Scope(Head(todo)),
         \A i \in DOMAIN ops :
             Dispatches(ops[i]) \/ Denies(ops[i]) \/ (ops[i].op = "try" /\ (i > 1 \/ throwing')) =>
                 Lost' = {} \/ ToldAfter(todo, 1) \/ ToldAfter(ops, i),
         \/ throwing' \/ ToldAfter(ops, 0) \/ Lost' = {} \/ ToldAfter(todo, 1)
         \/ res' = "process" /\ (ops = <<>> \/ ~Forgets(ops[1]))
  PROVE  ToldInv'
<1>1. todo \in Seq(Frame) /\ Guarded(todo, event, current, Begun)
  BY FirstCall DEF Stacked
<1>2. Put(todo', ops, todo, 1) /\ 1 \in DOMAIN todo /\ Head(todo) = todo[1]
  BY <1>1, PutFirst DEF Do
<1>3. Arranged(todo) /\ Reported(todo, Lost, throwing)
  BY DEF ToldInv
<1>4. Arranged(todo')
  BY <1>1, <1>2, <1>3, ArrangedPut
<1>5. Reported(todo', Lost', throwing')
  BY <1>1, <1>2, <1>3, ReportedPut
<1>6. throwing' \/ Answered(todo', Lost', res')
  <2> SUFFICES ASSUME ~throwing', Lost' # {}, ~ToldAfter(todo', 0)
               PROVE  res' = "process" /\ (todo' = <<>> \/ ~Forgets(todo'[1]))
    BY DEF Answered
  <2>1. /\ Len(ops) \in Nat /\ DOMAIN ops = 1..Len(ops) /\ DOMAIN todo = 1..Len(todo)
        /\ \A j \in DOMAIN ops : todo'[j] = ops[j]
        /\ \A j \in DOMAIN todo' :
              \/ j \in DOMAIN ops /\ todo'[j] = ops[j]
              \/ \E i \in DOMAIN todo : i > 1 /\ j = Len(ops) + (i - 1) /\ todo'[j] = todo[i]
    BY <1>1, <1>2, PutCalls
  <2>2. ~ToldAfter(todo, 1) /\ ~ToldAfter(ops, 0)
    <3>1. 0 \in 0..Len(ops)
      BY <2>1
    <3>2. QED
      BY <1>1, <1>2, <3>1, PutTold
  <2>3. res' = "process" /\ (ops = <<>> \/ ~Forgets(ops[1]))
    BY <2>2
  <2>4. CASE ops # <<>>
    <3>1. todo'[1] = ops[1]
      BY <2>1, <2>4
    <3>2. QED
      BY <2>3, <2>4, <3>1
  <2>5. CASE ops = <<>>
    <3> SUFFICES ASSUME todo' # <<>>, Forgets(todo'[1]) PROVE FALSE
      BY <2>3
    <3>1. /\ todo' = Tail(todo) /\ Len(todo) \in Nat /\ Len(ops) = 0
      BY <1>1, <2>5 DEF Do
    <3>2. 2 \in DOMAIN todo /\ todo'[1] = todo[2] /\ 2 > 1 /\ 2 # 1
      BY ONLY <1>1, <3>1, todo' # <<>>, todo # <<>>
    <3>3. ToldAfter(todo, 2) => ToldAfter(todo, 1)
      BY <3>2, <2>1 DEF ToldAfter
    <3>4. CASE todo[2].op = "default"
      BY <1>3, <2>2, <3>2, <3>3, <3>4 DEF Arranged, Followed
    <3>5. CASE Denies(todo[2])
      <4>1. todo[1].op = "call"
        BY <1>3, <3>2, <3>5 DEF Arranged, InTurn
      <4>2. Lost' \subseteq Lost
        BY <1>2, <4>1 DEF Scope
      <4>3. QED
        BY <1>3, <2>2, <3>2, <3>3, <3>5, <4>2 DEF Reported, ToldLater
    <3>6. QED
      BY <1>3, <3>2, <3>4, <3>5 DEF Forgets, Arranged, InTurn
  <2>6. QED
    BY <2>4, <2>5
<1>7. QED
  BY <1>4, <1>5, <1>6 DEF ToldInv

LEMMA SameLost ==
  ASSUME current' = current, start' = start, undone' = undone
  PROVE  Lost' = Lost
  BY DEF Lost, Gone, Undone

\* The answer there is, or that a call is about to give, tells what has moved.
LEMMA WasTold ==
  ASSUME TypeOK, StackInv, ToldInv, todo # <<>>, ~throwing
  PROVE  /\ \/ Lost = {} \/ ToldAfter(todo, 1) \/ Tells(Head(todo))
            \/ res = "process" /\ ~Forgets(Head(todo))
         /\ Forgets(Head(todo)) => Lost = {} \/ ToldAfter(todo, 1)
         /\ Head(todo).op \in {"default", "enter", "clear"} => ToldAfter(todo, 1)
<1>1. todo \in Seq(Frame) /\ DOMAIN todo \subseteq Nat \ {0}
  BY FirstCall
<1>2. 1 \in DOMAIN todo /\ Head(todo) = todo[1]
  BY <1>1, TailFacts
<1>3. ToldAfter(todo, 0) => Tells(todo[1]) \/ ToldAfter(todo, 1)
  <2> SUFFICES ASSUME NEW j \in DOMAIN todo, Tells(todo[j]) PROVE Tells(todo[1]) \/ ToldAfter(todo, 1)
    BY DEF ToldAfter
  <2>1. j = 1 \/ j > 1
    BY <1>1
  <2>2. QED
    BY <2>1 DEF ToldAfter
<1>4. Answered(todo, Lost, res) /\ Followed(todo) /\ ToldLater(todo, Lost)
  BY DEF ToldInv, Arranged, Reported
<1>5. QED
  BY <1>2, <1>3, <1>4 DEF Answered, Forgets, Followed, ToldLater

\* Calls of which none needs an answer to follow.
FreeOps == {"rows", "internal", "exit", "call", "settle", "region", "set"}

\* A step that replaces a call by such calls, or by none, and moves nothing.
LEMMA FreeDo ==
  ASSUME TypeOK, StackInv, ToldInv, todo # <<>>,
         NEW ops \in Seq(Frame), Do(ops), \A i \in DOMAIN ops : ops[i].op \in FreeOps,
         \A i \in DOMAIN ops : Scope(ops[i]) \subseteq Scope(Head(todo)),
         Head(todo).op \in {"call", "set"} => ops = <<>>,
         Head(todo).op = "set" => ~throwing',
         Lost' \subseteq Lost \cup Scope(Head(todo)),
         throwing' \/ Told(res')
  PROVE  ToldInv'
<1>1. \A i \in DOMAIN ops : /\ ~Dispatches(ops[i]) /\ ~Denies(ops[i]) /\ ~Forgets(ops[i])
                            /\ ops[i].op \notin {"default", "enter", "clear", "try"}
  BY DEF FreeOps, Dispatches, Denies, Forgets
<1>2. InTurn(ops) /\ Sheltered(ops)
  BY <1>1 DEF InTurn, Sheltered
<1>3. ops = <<>> \/ ~Forgets(ops[1])
  <2>1. ops # <<>> => 1 \in DOMAIN ops
    OBVIOUS
  <2>2. QED
    BY <1>1, <2>1
<1>4. QED
  BY <1>1, <1>2, <1>3, ToldDo DEF Told

LEMMA OneCall ==
  ASSUME NEW f \in Frame
  PROVE  <<f>> \in Seq(Frame) /\ DOMAIN <<f>> = {1} /\ <<f>>[1] = f
  OBVIOUS

LEMMA TwoCalls ==
  ASSUME NEW f \in Frame, NEW g \in Frame
  PROVE  <<f, g>> \in Seq(Frame) /\ DOMAIN <<f, g>> = {1, 2} /\ <<f, g>>[1] = f /\ <<f, g>>[2] = g
  OBVIOUS

\* A call returns, or one such call takes its place, and nothing moves.
LEMMA FreeOne ==
  ASSUME TypeOK, StackInv, ToldInv, todo # <<>>,
         NEW f \in Frame, f.op \in FreeOps, Scope(f) \subseteq Scope(Head(todo)), Do(<<f>>),
         Head(todo).op \notin {"call", "set"}, Lost' = Lost, throwing' \/ Told(res')
  PROVE  ToldInv'
<1> DEFINE ops == <<f>>
<1>1. ops \in Seq(Frame) /\ DOMAIN ops = {1} /\ ops[1] = f
  BY OneCall
<1> HIDE DEF ops
<1>2. Do(ops)
  BY DEF ops
<1>3. QED
  BY <1>1, <1>2, FreeDo

LEMMA FreeNone ==
  ASSUME TypeOK, StackInv, ToldInv, todo # <<>>, Do(<<>>), Head(todo).op = "set" => ~throwing',
         Lost' \subseteq Lost \cup Scope(Head(todo)), throwing' \/ Told(res')
  PROVE  ToldInv'
<1> DEFINE ops == <<>>
<1>1. ops \in Seq(Frame) /\ DOMAIN ops = {} /\ ops = <<>>
  OBVIOUS
<1> HIDE DEF ops
<1>2. QED
  BY <1>1, FreeDo

LEMMA NoMoreRowsTold ==
  ASSUME TypeOK, StackInv, ToldInv, NoMoreRows
  PROVE  ToldInv'
<1>1. /\ todo # <<>> /\ ~throwing /\ Head(todo).op \in {"rows", "internal"} /\ Do(<<>>)
      /\ UNCHANGED <<tree, program, event, res, throwing, history>>
  BY DEF NoMoreRows, Doing
<1>2. Lost' = Lost
  BY <1>1, SameLost DEF tree, history
<1>3. Told(res')
  BY <1>1, <1>2, WasTold DEF Told, Tells
<1>4. QED
  BY <1>1, <1>2, <1>3, FreeNone

LEMMA LeaveTryTold ==
  ASSUME TypeOK, StackInv, ToldInv, LeaveTry
  PROVE  ToldInv'
<1>1. /\ todo # <<>> /\ ~throwing /\ Head(todo).op = "try" /\ Do(<<>>)
      /\ UNCHANGED <<tree, program, event, res, throwing, history>>
  BY DEF LeaveTry, Doing
<1>2. Lost' = Lost
  BY <1>1, SameLost DEF tree, history
<1>3. Told(res')
  BY <1>1, <1>2, WasTold DEF Told, Tells
<1>4. QED
  BY <1>1, <1>2, <1>3, FreeNone

LEMMA GiveAnswerTold ==
  ASSUME TypeOK, StackInv, ToldInv, GiveAnswer
  PROVE  ToldInv'
<1>1. /\ todo # <<>> /\ ~throwing /\ Head(todo).op = "answer" /\ res' = Head(todo).of /\ Do(<<>>)
      /\ UNCHANGED <<tree, program, event, throwing, history>>
  BY DEF GiveAnswer, Doing, Return
<1>2. Lost' = Lost
  BY <1>1, SameLost DEF tree, history
<1>3. Told(res')
  BY <1>1, <1>2, WasTold DEF Told, Forgets, Denies
<1>4. QED
  BY <1>1, <1>2, <1>3, FreeNone

LEMMA CheckDefaultTold ==
  ASSUME TypeOK, StackInv, ToldInv, CheckDefault
  PROVE  ToldInv'
<1> DEFINE f == Head(todo)
           next == Rows(f.of, None, 1)
<1>1. /\ todo # <<>> /\ ~throwing /\ f.op = "default" /\ Do(<<next>>)
      /\ UNCHANGED <<tree, program, event, throwing, history>>
  BY DEF CheckDefault, Doing
<1>2. f \in Frame /\ Fits(f, event, current, Begun)
  BY <1>1, FirstCall
<1>3. f.of \in Machines /\ Scope(f) = Below(f.of)
  BY <1>1, <1>2 DEF Fits, FitsTransition, Scope
<1>4. next \in Frame /\ next.op = "rows" /\ next.of = f.of
  BY <1>3, RowsFrame
<1> HIDE DEF next
<1>5. Scope(next) = Below(f.of)
  BY <1>4 DEF Scope
<1>6. Lost' = Lost
  BY <1>1, SameLost DEF tree, history
<1>7. Told(res')
  BY <1>1, WasTold DEF Told
<1>8. QED
  BY <1>1, <1>3, <1>4, <1>5, <1>6, <1>7, FreeOne DEF FreeOps

LEMMA SettleTold ==
  ASSUME TypeOK, StackInv, ToldInv, Settle
  PROVE  ToldInv'
<1> DEFINE f == Head(todo)
           default == Op("default", f.of, None)
           answer == Answer("process")
           ops == <<default, answer>>
<1>1. /\ todo # <<>> /\ ~throwing /\ f.op = "settle"
      /\ res = "process" => Do(ops)
      /\ res # "process" => Do(<<>>)
      /\ UNCHANGED <<tree, program, event, res, throwing, history>>
  BY DEF Settle, Doing
<1>2. f \in Frame
  BY <1>1, FirstCall
<1>3. f.of \in States /\ Scope(f) = Below(f.of)
  BY <1>1, <1>2, FrameFields DEF Scope, OpNames
<1>4. Lost' = Lost
  BY <1>1, SameLost DEF tree, history
<1>5. CASE res = "process"
  <2>1. /\ default \in Frame /\ default.op = "default" /\ default.of = f.of
        /\ answer \in Frame /\ answer.op = "answer" /\ answer.of = "process"
    BY <1>3, OpFrame, AnswerFrame DEF OpNames, Answers
  <2> HIDE DEF default, answer
  <2>2. /\ Scope(default) = Below(f.of) /\ Scope(answer) = {} /\ Tells(answer)
        /\ ~Dispatches(default) /\ ~Dispatches(answer) /\ ~Denies(default) /\ ~Denies(answer)
    BY <2>1 DEF Scope, Tells, Dispatches, Denies
  <2>3. ops \in Seq(Frame) /\ DOMAIN ops = {1, 2} /\ ops[1] = default /\ ops[2] = answer
    BY <2>1, TwoCalls
  <2>4. Do(ops)
    BY <1>1, <1>5
  <2> HIDE DEF ops
  <2>5. ToldAfter(ops, 0) /\ ToldAfter(ops, 1)
    BY <2>2, <2>3 DEF ToldAfter
  <2>6. InTurn(ops) /\ Sheltered(ops)
    BY <2>1, <2>2, <2>3 DEF InTurn, Sheltered
  <2>7. \A i \in DOMAIN ops :
           /\ ops[i].op \in {"default", "enter", "clear"} => ToldAfter(ops, i)
           /\ Scope(ops[i]) \subseteq Scope(f)
           /\ ~Dispatches(ops[i]) /\ ~Denies(ops[i]) /\ ops[i].op # "try"
    BY <1>3, <2>1, <2>2, <2>3, <2>5
  <2>8. QED
    BY <1>1, <1>4, <2>3, <2>4, <2>5, <2>6, <2>7, ToldDo
<1>6. CASE res # "process"
  <2>1. Told(res')
    BY <1>1, <1>4, <1>6, WasTold DEF Told, Tells
  <2>2. QED
    BY <1>1, <1>4, <1>6, <2>1, FreeNone
<1>7. QED
  BY <1>5, <1>6

-----------------------------------------------------------------------------
(* Dispatch *)

\* A machine is dispatched to: first its current state, and then calls of which
\* none needs an answer to follow.
LEMMA MachineCalls ==
  ASSUME TypeOK, event \in Events, NEW n \in Machines
  PROVE  LET ops == MachineDispatch(n) IN
         /\ ops \in Seq(Frame) /\ DOMAIN ops = {1, 2, 3, 4} /\ Dispatches(ops[1])
         /\ \A i \in {2, 3, 4} : ops[i].op \in FreeOps
<1> DEFINE d == Op("dispatch", current[n], event)
           r == Rows(n, event, 1)
           t == Op("settle", n, None)
           i == InternalRows(n, 1)
           ops == <<d, r, t, i>>
<1>1. n \in States /\ current[n] \in States
  BY TreeAssumption DEF TypeOK
<1>2. /\ d \in Frame /\ d.op = "dispatch" /\ r \in Frame /\ r.op = "rows"
      /\ t \in Frame /\ t.op = "settle" /\ i \in Frame /\ i.op = "internal"
  BY <1>1, OpFrame, RowsFrame, InternalFrame DEF OpNames
<1> HIDE DEF d, r, t, i
<1>3. /\ ops \in Seq(Frame) /\ DOMAIN ops = {1, 2, 3, 4}
      /\ ops[1] = d /\ ops[2] = r /\ ops[3] = t /\ ops[4] = i
  BY <1>2
<1>4. MachineDispatch(n) = ops
  BY DEF MachineDispatch, d, r, t, i
<1> HIDE DEF ops
<1>5. QED
  BY <1>2, <1>3, <1>4 DEF Dispatches, FreeOps

LEMMA DispatchTold ==
  ASSUME TypeOK, StackInv, ToldInv, Dispatch
  PROVE  ToldInv'
<1> DEFINE f == Head(todo)
           n == f.of
<1>1. /\ todo # <<>> /\ ~throwing /\ f.op = "dispatch" /\ DispatchTo(n)
      /\ UNCHANGED <<tree, program, event, throwing, history>>
  BY DEF Dispatch, Doing
<1>2. /\ f \in Frame /\ Fits(f, event, current, Begun) /\ event \in Events
  BY <1>1, FirstCall
<1>3. n \in States /\ Scope(f) = Below(n) /\ Relies(f) = Below(n)
  BY <1>1, <1>2, FrameFields DEF Scope, Relies, OpNames
<1>4. n \in Active(Begun) /\ Same(Below(n), current, Begun)
  BY <1>1, <1>2, <1>3 DEF Fits, FitsDispatch
<1>5. Lost' = Lost
  BY <1>1, SameLost DEF tree, history
<1>6. Lost' = {} \/ ToldAfter(todo, 1)
  BY <1>1, <1>5, WasTold DEF Forgets, Dispatches
<1>7. Told(res')
  BY <1>6 DEF Told
<1>8. InternalRows(n, 1) \in Frame /\ InternalRows(n, 1).op = "internal"
  BY <1>3, InternalFrame
<1>9. Scope(InternalRows(n, 1)) = {}
  BY <1>8 DEF Scope
<1> HIDE DEF f, n
<1>10. CASE Do(<<>>)
  BY <1>1, <1>5, <1>7, <1>10, FreeNone DEF f
<1>11. CASE n \in Machines /\ Do(MachineDispatch(n))
  <2> DEFINE ops == MachineDispatch(n)
  <2>1. /\ ops \in Seq(Frame) /\ DOMAIN ops = {1, 2, 3, 4} /\ Dispatches(ops[1])
        /\ \A i \in {2, 3, 4} : ops[i].op \in FreeOps
    BY <1>2, <1>11, MachineCalls
  <2>2. \A i \in DOMAIN ops : Scope(ops[i]) \subseteq Scope(f)
    BY <1>2, <1>3, <1>4, <1>11, DispatchedMachine
  <2>3. Do(ops)
    BY <1>11
  <2> HIDE DEF ops
  <2>4. \A i \in DOMAIN ops :
           /\ Dispatches(ops[i]) => i = 1
           /\ ~Denies(ops[i]) /\ ops[i].op \notin {"default", "enter", "clear", "try"}
    BY <2>1 DEF FreeOps, Dispatches, Denies
  <2>5. InTurn(ops) /\ Sheltered(ops)
    BY <2>4 DEF InTurn, Sheltered
  <2>6. QED
    BY <1>1, <1>5, <1>6, <2>1, <2>2, <2>3, <2>4, <2>5, ToldDo DEF f
<1>12. CASE n \in Orthogonal /\ Do(<<Region(n, 1, "refuse"), InternalRows(n, 1)>>)
  <2> DEFINE g == Region(n, 1, "refuse")
             i == InternalRows(n, 1)
             ops == <<g, i>>
  <2>1. g \in Frame /\ g.op = "region" /\ g.of = n
    BY <1>12, RegionFrame DEF Answers
  <2>2. i \in Frame /\ i.op = "internal" /\ Scope(i) = {}
    BY <1>8, <1>9
  <2> HIDE DEF g, i
  <2>3. Scope(g) = Below(n)
    BY <2>1 DEF Scope
  <2>4. ops \in Seq(Frame) /\ DOMAIN ops = {1, 2} /\ ops[1] = g /\ ops[2] = i
    BY <2>1, <2>2, TwoCalls
  <2>5. Do(ops)
    BY <1>12 DEF g, i
  <2> HIDE DEF ops
  <2>6. \A j \in DOMAIN ops : ops[j].op \in FreeOps /\ Scope(ops[j]) \subseteq Scope(f)
    BY <1>3, <2>1, <2>2, <2>3, <2>4 DEF FreeOps
  <2>7. QED
    BY <1>1, <1>5, <1>7, <2>4, <2>5, <2>6, FreeDo DEF f
<1>13. CASE Do(<<InternalRows(n, 1)>>)
  BY <1>1, <1>5, <1>7, <1>8, <1>9, <1>13, FreeOne DEF FreeOps, f
<1>14. QED
  BY <1>1, <1>10, <1>11, <1>12, <1>13, TreeAssumption
     DEF DispatchTo, Return, RegionsDispatch, StateDispatch

LEMMA NextRegionTold ==
  ASSUME TypeOK, StackInv, ToldInv, NextRegion
  PROVE  ToldInv'
<1> DEFINE f == Head(todo)
           best == Better(f.best, res)
           o == f.of
<1>1. /\ todo # <<>> /\ ~throwing /\ f.op = "region"
      /\ UNCHANGED <<tree, program, event, throwing, history>>
      /\ IF f.row > Len(Regions[o])
         THEN Return(best)
         ELSE /\ Do(<<Op("dispatch", Regions[o][f.row], event), Region(o, f.row + 1, best)>>)
              /\ UNCHANGED res
  BY DEF NextRegion, Doing
<1>2. /\ f \in Frame /\ Fits(f, event, current, Begun) /\ event \in Events /\ res \in Answers
  BY <1>1, FirstCall
<1>3. /\ o \in Orthogonal /\ f.row \in Nat /\ f.best \in Answers /\ Scope(f) = Below(o)
      /\ f.row >= 1
  BY <1>1, <1>2, FrameFields DEF Scope, Fits, FitsDispatch
<1>4. /\ best \in Answers
      /\ f.best = "process" \/ res = "process" => best = "process"
  <2>1. \A r \in Answers : r # "process" => Rank[r] < Rank["process"]
    BY DEF Answers, Rank
  <2>2. ~(Rank["process"] < Rank[f.best]) /\ ~(Rank["process"] < Rank[res])
    BY <1>2, <1>3 DEF Answers, Rank
  <2>3. QED
    BY <1>2, <1>3, <2>1, <2>2 DEF Better
<1>5. Lost' = Lost
  BY <1>1, SameLost DEF tree, history
<1>6. Told(best)
  <2>1. f.best = "process" <=> Tells(f)
    BY <1>1 DEF Tells
  <2>2. QED
    BY <1>1, <1>4, <1>5, <2>1, WasTold DEF Told
<1> HIDE DEF f, best, o
<1>7. CASE f.row > Len(Regions[o])
  BY <1>1, <1>5, <1>6, <1>7, FreeNone DEF Return, f
<1>8. CASE ~(f.row > Len(Regions[o]))
  <2> DEFINE s == Regions[o][f.row]
             d == Op("dispatch", s, event)
             g == Region(o, f.row + 1, best)
             ops == <<d, g>>
  <2>1. Do(ops)
    BY <1>1, <1>8
  <2>2. f.row \in 1..Len(Regions[o]) /\ f.row + 1 \in Nat
    BY <1>3, <1>8, RegionsOf
  <2>3. s \in States /\ Below(s) \subseteq Below(o)
    BY <1>3, <2>2, RegionsApart
  <2>4. /\ d \in Frame /\ d.op = "dispatch" /\ d.of = s
        /\ g \in Frame /\ g.op = "region" /\ g.of = o /\ g.best = best
    BY <1>2, <1>3, <1>4, <2>2, <2>3, OpFrame, RegionFrame DEF OpNames
  <2> HIDE DEF d, g, s
  <2>5. ops \in Seq(Frame) /\ DOMAIN ops = {1, 2} /\ ops[1] = d /\ ops[2] = g
    BY <2>4, TwoCalls
  <2> HIDE DEF ops
  <2>6. /\ Scope(d) = Below(s) /\ Scope(g) = Below(o) /\ Dispatches(d) /\ ~Dispatches(g)
        /\ ~Denies(d) /\ ~Denies(g) /\ (best = "process" => Tells(g))
    BY <2>4 DEF Scope, Dispatches, Denies, Tells
  <2>7. \A i \in DOMAIN ops :
           /\ Dispatches(ops[i]) => i = 1
           /\ ~Denies(ops[i]) /\ ops[i].op \notin {"default", "enter", "clear", "try"}
           /\ Scope(ops[i]) \subseteq Scope(f)
    BY <1>3, <2>3, <2>4, <2>5, <2>6
  <2>8. InTurn(ops) /\ Sheltered(ops)
    BY <2>7 DEF InTurn, Sheltered
  <2>9. Lost' = {} \/ ToldAfter(todo, 1) \/ (ToldAfter(ops, 1) /\ ToldAfter(ops, 0))
    <3>1. 2 > 1 /\ 2 > 0 /\ 2 \in DOMAIN ops
      BY <2>5
    <3>2. QED
      BY <1>6, <2>5, <2>6, <3>1 DEF Told, ToldAfter
  <2>10. QED
    BY <1>1, <1>5, <2>1, <2>5, <2>7, <2>8, <2>9, ToldDo DEF f
<1>9. QED
  BY <1>7, <1>8

-----------------------------------------------------------------------------
(* Transitions *)

LEMMA TransitionTold ==
  ASSUME TypeOK, NEW m \in Machines, NEW e \in Events \cup {None}, NEW i \in DOMAIN Table[m]
  PROVE  LET ops == Transition(m, e, i) IN
         /\ InTurn(ops) /\ Followed(ops) /\ Sheltered(ops) /\ ToldAfter(ops, 0)
         /\ \A k \in DOMAIN ops : ~Dispatches(ops[k]) /\ ~Denies(ops[k])
<1> DEFINE r == Table[m][i]
           ops == Transition(m, e, i)
<1>1. /\ DOMAIN ops \subseteq {1, 2, 3, 4, 5, 6} /\ {1, 2, 3, 4, 5} \subseteq DOMAIN ops
      /\ ops[1].op = "exit" /\ ops[1].of = r.from
      /\ ops[2].op = "call"
      /\ ops[3].op = "enter" /\ ops[3].of = r.to
      /\ ops[4].op = "clear" /\ ops[4].of = r.from
      /\ ops[5].op = "set"
      /\ 6 \in DOMAIN ops => ops[6].op = "try" /\ ops[6].of = m /\ ops[6].row = i
  <2>1. /\ DOMAIN ops \subseteq {1, 2, 3, 4, 5, 6} /\ {1, 2, 3, 4, 5} \subseteq DOMAIN ops
        /\ 6 \in DOMAIN ops => ops[6].op = "try" /\ ops[6].of = m /\ ops[6].row = i
    BY TransitionCalls
  <2>2. /\ ops[1].op = "exit" /\ ops[1].of = r.from
        /\ ops[2].op = "call"
        /\ ops[3].op = "enter" /\ ops[3].of = r.to
        /\ ops[4].op = "clear" /\ ops[4].of = r.from
        /\ ops[5].op = "set"
    BY TransitionCalls
  <2>3. QED
    BY <2>1, <2>2
<1> HIDE DEF ops
<1>2. /\ Scope(ops[1]) = Below(r.from) /\ Scope(ops[2]) = {}
      /\ Scope(ops[3]) = Below(r.to) /\ Scope(ops[4]) = Below(r.from)
  BY <1>1 DEF Scope
<1>3. 6 \in DOMAIN ops => Risked(ops[6]) = Below(r.from) \cup Below(r.to)
  BY <1>1 DEF Risked
<1>4. Tells(ops[5]) /\ 5 \in DOMAIN ops
  BY <1>1 DEF Tells
<1>5. \A k \in DOMAIN ops : ~Dispatches(ops[k]) /\ ~Denies(ops[k])
  BY <1>1 DEF Dispatches, Denies
<1>6. Followed(ops)
  <2> SUFFICES ASSUME NEW k \in DOMAIN ops, ops[k].op \in {"default", "enter", "clear"}
               PROVE  ToldAfter(ops, k)
    BY DEF Followed
  <2>1. k \in {3, 4}
    BY <1>1
  <2>2. 5 > k
    BY <2>1
  <2>3. QED
    BY <1>4, <2>2 DEF ToldAfter
<1>7. Sheltered(ops)
  <2> SUFFICES ASSUME NEW t \in DOMAIN ops, ops[t].op = "try", NEW k \in DOMAIN ops, k < t - 1
               PROVE  Scope(ops[k]) \subseteq Risked(ops[t])
    BY DEF Sheltered
  <2>1. t = 6
    BY <1>1
  <2>2. k \in {1, 2, 3, 4}
    BY <1>1, <2>1
  <2>3. QED
    BY <1>2, <1>3, <2>1, <2>2
<1>8. ToldAfter(ops, 0)
  <2>1. 5 > 0
    OBVIOUS
  <2>2. QED
    BY <1>4, <2>1 DEF ToldAfter
<1>9. InTurn(ops)
  BY <1>5 DEF InTurn
<1>10. QED
  BY <1>5, <1>6, <1>7, <1>8, <1>9 DEF ops

LEMMA TestRowTold ==
  ASSUME TypeOK, StackInv, ToldInv, TestRow
  PROVE  ToldInv'
<1> DEFINE f == Head(todo)
           m == f.of
           e == f.event
           i == First(Candidates(f))
           next == Rows(m, e, i + 1)
           ops == Transition(m, e, i)
<1>1. /\ todo # <<>> /\ ~throwing /\ f.op = "rows" /\ Candidates(f) # {}
      /\ Do(ops) \/ Do(<<next>>)
      /\ UNCHANGED <<tree, program, event, res, throwing, history>>
  BY DEF TestRow, Doing
<1>2. f \in Frame /\ Fits(f, event, current, Begun) /\ event \in Events
  BY <1>1, FirstCall
<1>3. /\ m \in Machines /\ e \in {event, None}
      /\ e = None \/ (e = event /\ m \in Active(Begun))
      /\ e = event => Same({m}, current, Begun)
      /\ Due(event, Begun) /\ f.row >= 1
  BY <1>1, <1>2, RowsFor DEF Fits, FitsDispatch
<1>4. /\ i \in DOMAIN Table[m] /\ i + 1 \in Nat /\ res = "refuse"
      /\ Table[m][i].event = Kind(e) /\ Table[m][i].from = current[m]
  BY <1>1, <1>2, <1>3, FirstCandidate
<1>5. Scope(f) = Below(m)
  BY <1>1 DEF Scope
<1>6. Lost' = Lost
  BY <1>1, SameLost DEF tree, history
<1>7. Lost' = {} \/ ToldAfter(todo, 1)
  BY <1>1, <1>4, <1>6, WasTold DEF Tells
<1>8. e \in Events \cup {None}
  BY <1>2, <1>3
<1>9. CASE Do(ops)
  <2>1. ops \in Seq(Frame) /\ \A k \in DOMAIN ops : Scope(ops[k]) \subseteq Below(m)
    <3> HIDE DEF m, e, i
    <3>1. QED
      BY <1>2, <1>3, <1>4, <1>8, StackedTransition
  <2>2. /\ InTurn(ops) /\ Followed(ops) /\ Sheltered(ops) /\ ToldAfter(ops, 0)
        /\ \A k \in DOMAIN ops : ~Dispatches(ops[k]) /\ ~Denies(ops[k])
    <3>1. m \in Machines /\ i \in DOMAIN Table[m]
      BY <1>3, <1>4
    <3> HIDE DEF m, e, i
    <3>2. QED
      BY ONLY TypeOK, <1>8, <3>1, TransitionTold
  <2> HIDE DEF ops
  <2>3. QED
    BY <1>1, <1>5, <1>6, <1>7, <1>9, <2>1, <2>2, ToldDo DEF Followed
<1>10. CASE Do(<<next>>)
  <2>1. next \in Frame /\ next.op = "rows" /\ next.of = m
    <3>1. m \in Machines /\ i + 1 \in Nat
      BY <1>3, <1>4
    <3> HIDE DEF f, m, e, i
    <3>2. QED
      BY ONLY <1>8, <3>1, RowsFrame
  <2> HIDE DEF next
  <2>2. Scope(next) = Below(m)
    BY <2>1 DEF Scope
  <2>3. QED
    BY <1>1, <1>5, <1>6, <1>7, <1>10, <2>1, <2>2, FreeOne DEF Told, FreeOps
<1>11. QED
  BY <1>1, <1>9, <1>10

LEMMA TestInternalRowTold ==
  ASSUME TypeOK, StackInv, ToldInv, TestInternalRow
  PROVE  ToldInv'
<1> DEFINE f == Head(todo)
           n == f.of
           i == First(InternalCandidates(f))
           call == Call("internal", n, i, event)
           answer == Answer("in_state")
           next == InternalRows(n, i + 1)
           ops == <<call, answer>>
<1>1. /\ todo # <<>> /\ ~throwing /\ f.op = "internal" /\ InternalCandidates(f) # {}
      /\ Do(ops) \/ Do(<<next>>)
      /\ UNCHANGED <<tree, program, event, res, throwing, history>>
  BY DEF TestInternalRow, Doing
<1>2. /\ f \in Frame /\ Fits(f, event, current, Begun) /\ event \in Events
  BY <1>1, FirstCall
<1>3. n \in States /\ f.row >= 1 /\ Scope(f) = {}
  BY <1>1, <1>2, FrameFields DEF Fits, FitsDispatch, Scope
<1>4. i \in Nat /\ i + 1 \in Nat /\ res = "refuse"
  BY <1>1, <1>2, <1>3, FirstInternalCandidate
<1>5. Lost' = Lost
  BY <1>1, SameLost DEF tree, history
<1>6. Lost' = {} \/ ToldAfter(todo, 1)
  BY <1>1, <1>4, <1>5, WasTold DEF Tells
<1> HIDE DEF f, n, i
<1>7. CASE Do(ops)
  <2>1. call \in Frame /\ call.op = "call"
    BY <1>2, <1>3, <1>4, CallFrame
  <2>2. answer \in Frame /\ answer.op = "answer" /\ answer.of = "in_state"
    BY AnswerFrame DEF Answers
  <2> HIDE DEF call, answer
  <2>3. /\ Scope(call) = {} /\ Scope(answer) = {} /\ ~Dispatches(call) /\ ~Dispatches(answer)
        /\ ~Denies(call)
    BY <2>1, <2>2 DEF Scope, Dispatches, Denies
  <2>4. ops \in Seq(Frame) /\ DOMAIN ops = {1, 2} /\ ops[1] = call /\ ops[2] = answer
    BY <2>1, <2>2, TwoCalls
  <2> HIDE DEF ops
  <2>5. \A k \in DOMAIN ops :
           /\ ~Dispatches(ops[k]) /\ Scope(ops[k]) = {}
           /\ ops[k].op \notin {"default", "enter", "clear", "try"}
    BY <2>1, <2>2, <2>3, <2>4
  <2>6. InTurn(ops) /\ Sheltered(ops)
    BY <2>1, <2>3, <2>4, <2>5 DEF InTurn, Sheltered
  <2>7. QED
    BY <1>1, <1>5, <1>6, <1>7, <2>4, <2>5, <2>6, ToldDo DEF f
<1>8. CASE Do(<<next>>)
  <2>1. next \in Frame /\ next.op = "internal"
    BY <1>3, <1>4, InternalFrame
  <2> HIDE DEF next
  <2>2. Scope(next) = {}
    BY <2>1 DEF Scope
  <2>3. QED
    BY <1>1, <1>5, <1>6, <1>8, <2>1, <2>2, FreeOne DEF Told, FreeOps, f
<1>9. QED
  BY <1>1, <1>7, <1>8

-----------------------------------------------------------------------------
(* Entry and exit *)

LEMMA InnerExitOps ==
  ASSUME TypeOK, NEW n \in States, NEW e \in Events \cup {None}
  PROVE  \A f \in ToSet(InnerExit(n, e)) : f.op = "exit"
<1>1. CASE n \in Machines
  <2> DEFINE f == Op("exit", current[n], e)
  <2>1. InnerExit(n, e) = <<f>> /\ f \in Frame /\ f.op = "exit"
    BY <1>1, TreeAssumption, OpFrame DEF InnerExit, TypeOK, OpNames
  <2> HIDE DEF f
  <2>2. QED
    BY <2>1, ToSetOne
<1>2. CASE n \in Orthogonal
  <2>1. InnerExit(n, e) = Ops("exit", Reverse(Regions[n]), e)
    BY <1>2, TreeAssumption DEF InnerExit
  <2>2. Regions[n] \in Seq(States)
    BY <1>2, RegionsOf, TreeAssumption
  <2>3. Reverse(Regions[n]) \in Seq(States)
    BY <2>2, ReverseFacts
  <2>4. QED
    BY <2>1, <2>3, OpsFacts DEF OpNames
<1>3. CASE n \notin Machines /\ n \notin Orthogonal
  BY <1>3 DEF InnerExit, ToSet
<1>4. QED
  BY <1>1, <1>2, <1>3

LEMMA InnerEnterOps ==
  ASSUME TypeOK, NEW n \in States, NEW e \in Events \cup {None}
  PROVE  \A f \in ToSet(InnerEnter(n, e)) : f.op \in {"enter", "default"}
<1>1. CASE n \in Machines
  <2> DEFINE f == Op("enter", Initial[n], e)
             g == Op("default", n, None)
  <2>1. Initial[n] \in States
    BY <1>1, TreeAssumption
  <2>2. InnerEnter(n, e) = <<f, g>> 
    BY <1>1, TreeAssumption DEF InnerEnter
  <2>3. f \in Frame /\ f.op = "enter" /\ g \in Frame /\ g.op = "default"
    BY <2>1, OpFrame DEF OpNames
  <2> HIDE DEF f, g
  <2>4. QED
    BY <2>2, <2>3, ToSetTwo
<1>2. CASE n \in Orthogonal
  <2>1. InnerEnter(n, e) = Ops("enter", Regions[n], e)
    BY <1>2, TreeAssumption DEF InnerEnter
  <2>2. Regions[n] \in Seq(States)
    BY <1>2, RegionsOf, TreeAssumption
  <2>3. QED
    BY <2>1, <2>2, OpsFacts DEF OpNames
<1>3. CASE n \notin Machines /\ n \notin Orthogonal
  BY <1>3 DEF InnerEnter, ToSet
<1>4. QED
  BY <1>1, <1>2, <1>3

LEMMA ExitOrEnterTold ==
  ASSUME TypeOK, StackInv, ToldInv, ExitOrEnter
  PROVE  ToldInv'
<1> DEFINE f == Head(todo)
           n == f.of
           e == f.event
<1>1. /\ todo # <<>> /\ ~throwing
      /\ \/ f.op = "exit" /\ Do(InnerExit(n, e) \o <<Call("exit", n, 0, e)>>)
         \/ f.op = "enter" /\ Do(<<Call("enter", n, 0, e)>> \o InnerEnter(n, e))
      /\ UNCHANGED <<tree, program, event, res, throwing, history>>
  BY DEF ExitOrEnter, Doing
<1>2. f \in Frame /\ Fits(f, event, current, Begun)
  BY <1>1, FirstCall
<1>3. n \in States /\ e \in Events \cup {None} /\ Scope(f) = Below(n)
  BY <1>1, <1>2, FrameFields DEF Scope, OpNames
<1>4. Lost' = Lost
  BY <1>1, SameLost DEF tree, history
<1>5. Told(res')
  BY <1>1, <1>4, WasTold DEF Told, Tells
<1>6. \A kind \in {"exit", "enter"} :
         /\ <<Call(kind, n, 0, e)>> \in Seq(Frame)
         /\ \A g \in ToSet(<<Call(kind, n, 0, e)>>) : g.op = "call"
  BY <1>3, CallFrame, ToSetOne
<1> HIDE DEF f, n, e
<1>7. CASE f.op = "exit" /\ Do(InnerExit(n, e) \o <<Call("exit", n, 0, e)>>)
  <2> DEFINE inner == InnerExit(n, e)
             one == <<Call("exit", n, 0, e)>>
             ops == inner \o one
  <2>1. /\ inner \in Seq(Frame)
        /\ \A g \in ToSet(inner) : g.op = "exit" /\ Scope(g) \subseteq Below(n)
    BY <1>3, InnerExitFacts, InnerExitOps
  <2>2. one \in Seq(Frame) /\ \A g \in ToSet(one) : g.op = "call"
    BY <1>6
  <2>3. Do(ops)
    BY <1>7
  <2> HIDE DEF inner, one
  <2>4. ops \in Seq(Frame) /\ ToSet(ops) = ToSet(inner) \cup ToSet(one)
    BY <2>1, <2>2, ConcatFacts
  <2> HIDE DEF ops
  <2>5. \A i \in DOMAIN ops : ops[i] \in ToSet(ops)
    BY DEF ToSet
  <2>6. \A g \in ToSet(one) : Scope(g) = {}
    BY <2>2 DEF Scope
  <2>7. \A i \in DOMAIN ops : ops[i].op \in FreeOps /\ Scope(ops[i]) \subseteq Scope(f)
    BY <1>3, <2>1, <2>2, <2>4, <2>5, <2>6 DEF FreeOps
  <2>8. QED
    BY <1>1, <1>4, <1>5, <1>7, <2>3, <2>4, <2>7, FreeDo DEF f
<1>8. CASE f.op = "enter" /\ Do(<<Call("enter", n, 0, e)>> \o InnerEnter(n, e))
  <2> DEFINE inner == InnerEnter(n, e)
             one == <<Call("enter", n, 0, e)>>
             ops == one \o inner
  <2>1. Due(event, Begun) /\ ToldAfter(todo, 1)
    BY <1>1, <1>2, <1>8, WasTold DEF Fits, FitsTransition, f
  <2>2. /\ inner \in Seq(Frame)
        /\ \A g \in ToSet(inner) : g.op \in {"enter", "default"} /\ Scope(g) \subseteq Below(n)
    BY <1>3, <2>1, InnerEnterFacts, InnerEnterOps
  <2>3. one \in Seq(Frame) /\ \A g \in ToSet(one) : g.op = "call"
    BY <1>6
  <2>4. Do(ops)
    BY <1>8
  <2> HIDE DEF inner, one
  <2>5. ops \in Seq(Frame) /\ ToSet(ops) = ToSet(one) \cup ToSet(inner)
    BY <2>2, <2>3, ConcatFacts
  <2> HIDE DEF ops
  <2>6. \A i \in DOMAIN ops : ops[i] \in ToSet(ops)
    BY DEF ToSet
  <2>7. \A g \in ToSet(one) : Scope(g) = {}
    BY <2>3 DEF Scope
  <2>8. \A i \in DOMAIN ops : /\ ops[i].op \in {"call", "enter", "default"}
                              /\ Scope(ops[i]) \subseteq Scope(f)
    BY <1>3, <2>2, <2>3, <2>5, <2>6, <2>7
  <2>9. InTurn(ops) /\ Sheltered(ops)
    BY <2>8 DEF InTurn, Sheltered, Dispatches, Denies
  <2>10. QED
    BY <1>1, <1>4, <1>8, <2>1, <2>4, <2>5, <2>8, <2>9, ToldDo DEF f
<1>9. QED
  BY <1>1, <1>7, <1>8

-----------------------------------------------------------------------------
(* Steps that change current states, and handlers *)

\* A call moves only what is in its scope.
LEMMA LostInScope ==
  ASSUME NEW S, \A m \in Machines \ S : current'[m] = current[m], start' = start, undone' = undone
  PROVE  Lost' \subseteq Lost \cup S
<1>1. Gone' = Gone
  BY DEF Gone, Undone
<1>2. QED
  BY <1>1 DEF Lost

LEMMA ClearSourceTold ==
  ASSUME TypeOK, StackInv, ToldInv, ClearSource
  PROVE  ToldInv'
<1> DEFINE f == Head(todo)
           inside == IF f.of \in History THEN {} ELSE Below(f.of)
<1>1. /\ todo # <<>> /\ ~throwing /\ f.op = "clear" /\ Do(<<>>)
      /\ current' = [m \in Machines |-> IF m \in inside THEN Initial[m] ELSE current[m]]
      /\ UNCHANGED <<program, event, res, throwing, history>>
  BY DEF ClearSource, Doing
<1>2. Scope(f) = Below(f.of) /\ inside \subseteq Below(f.of)
  BY <1>1 DEF Scope
<1>3. \A m \in Machines \ Scope(f) : current'[m] = current[m]
  BY <1>1, <1>2
<1>4. Lost' \subseteq Lost \cup Scope(f)
  BY <1>1, <1>3, LostInScope DEF history
<1>5. Told(res')
  BY <1>1, WasTold DEF Told
<1>6. QED
  BY <1>1, <1>4, <1>5, FreeNone

LEMMA CompleteTransitionTold ==
  ASSUME TypeOK, StackInv, ToldInv, CompleteTransition
  PROVE  ToldInv'
<1> DEFINE f == Head(todo)
<1>1. /\ todo # <<>> /\ ~throwing /\ f.op = "set" /\ Do(<<>>) /\ res' = "process"
      /\ current' = [current EXCEPT ![f.of] = f.to]
      /\ UNCHANGED <<throwing, start, undone>>
  BY DEF CompleteTransition, Doing, Return
<1>2. Scope(f) = {f.of}
  BY <1>1 DEF Scope
<1>3. \A m \in Machines \ Scope(f) : current'[m] = current[m]
  BY <1>1, <1>2 DEF TypeOK
<1>4. Lost' \subseteq Lost \cup Scope(f)
  BY <1>1, <1>3, LostInScope
<1>5. QED
  BY <1>1, <1>4, FreeNone DEF Told

LEMMA RunHandlerTold ==
  ASSUME TypeOK, StackInv, ToldInv, RunHandler
  PROVE  ToldInv'
<1>1. /\ todo # <<>> /\ ~throwing /\ Head(todo).op = "call" /\ Do(<<>>)
      /\ UNCHANGED <<current, res, throwing, start, undone>>
  BY DEF RunHandler, Doing
<1>2. Lost' = Lost
  BY <1>1, SameLost
<1>3. Told(res')
  BY <1>1, <1>2, WasTold DEF Told, Tells
<1>4. QED
  BY <1>1, <1>2, <1>3, FreeNone

LEMMA HandlerThrowsTold ==
  ASSUME TypeOK, StackInv, ToldInv, HandlerThrows
  PROVE  ToldInv'
<1>1. /\ todo # <<>> /\ Head(todo).op = "call" /\ todo' = Tail(todo) /\ throwing'
      /\ UNCHANGED <<current, start, undone>>
  BY DEF HandlerThrows, Doing, ThrowNow
<1>2. Do(<<>>)
  <2>1. Tail(todo) \in Seq(Frame)
    BY <1>1, FirstCall, TailFacts
  <2>2. QED
    BY <1>1, <2>1 DEF Do
<1>3. Lost' = Lost
  BY <1>1, SameLost
<1>4. QED
  BY <1>1, <1>2, <1>3, FreeNone

LEMMA GuardThrowsTold ==
  ASSUME TypeOK, StackInv, ToldInv, GuardThrows
  PROVE  ToldInv'
<1> DEFINE f == Head(todo)
           i == First(Candidates(f))
           t == Try(f.of, f.event, i)
           ops == <<t>>
<1>1. /\ todo # <<>> /\ ~throwing /\ throwing'
      /\ \/ f.op = "rows" /\ Candidates(f) # {} /\ Do(Tried(f.of, f.event, i))
         \/ f.op = "internal" /\ Do(<<>>)
      /\ UNCHANGED <<tree, start, undone>>
  BY DEF GuardThrows, Doing, ThrowNow
<1>2. Lost' = Lost
  BY <1>1, SameLost DEF tree
<1>3. CASE f.op \in {"rows", "internal"} /\ Do(<<>>)
  BY <1>1, <1>2, <1>3, FreeNone
<1>4. CASE f.op = "rows" /\ Candidates(f) # {} /\ Do(ops)
  <2>1. f \in Frame /\ Fits(f, event, current, Begun) /\ event \in Events
    BY <1>1, FirstCall
  <2>2. f.of \in Machines /\ f.event \in Events \cup {None} /\ f.row >= 1
    BY <1>4, <2>1, FrameFields DEF Fits, FitsDispatch
  <2>3. i \in Nat /\ res = "refuse"
    BY <1>4, <2>1, <2>2, FirstCandidate
  <2>4. t \in Frame /\ t.op = "try" /\ t.of = f.of
    <3>1. dirty \subseteq States
      BY DEF TypeOK
    <3> HIDE DEF i
    <3>2. QED
      BY <2>2, <2>3, <3>1, TryFrame
  <2> HIDE DEF t
  <2>5. Lost' = {} \/ ToldAfter(todo, 1)
    BY <1>1, <1>2, <1>4, <2>3, WasTold DEF Tells
  <2>6. Scope(t) = Scope(f) /\ ~Dispatches(t) /\ ~Denies(t)
    BY <1>4, <2>4 DEF Scope, Dispatches, Denies
  <2>7. ops \in Seq(Frame) /\ DOMAIN ops = {1} /\ ops[1] = t
    BY <2>4, OneCall
  <2> HIDE DEF ops
  <2>8. \A k \in DOMAIN ops :
           /\ Scope(ops[k]) \subseteq Scope(f) /\ ~Dispatches(ops[k]) /\ ~Denies(ops[k])
           /\ ops[k].op \notin {"default", "enter", "clear"}
    BY <2>4, <2>6, <2>7
  <2>9. InTurn(ops)
    BY <2>8 DEF InTurn
  <2>10. Sheltered(ops)
    <3>1. ~(1 < 1 - 1)
      OBVIOUS
    <3>2. QED
      BY <2>7, <3>1 DEF Sheltered
  <2>11. QED
    BY <1>1, <1>2, <1>4, <2>5, <2>7, <2>8, <2>9, <2>10, ToldDo
<1>5. QED
  BY <1>1, <1>3, <1>4 DEF Tried

LEMMA EscapeTold ==
  ASSUME Escape
  PROVE  ToldInv'
<1>1. throwing' /\ todo' = <<>>
  BY DEF Escape
<1>2. QED
  BY <1>1 DEF ToldInv, Arranged, InTurn, Followed, Sheltered, Reported, ToldLater, ToldOutside

\* What is rolled back has not moved: the rest was told of outside of the `try`.
LEMMA CatchTold ==
  ASSUME TypeOK, StackInv, ToldInv, Catch
  PROVE  ToldInv'
<1> DEFINE at == First({i \in DOMAIN todo : todo[i].op = "try"})
           f == todo[at]
           r == Table[f.of][f.row]
           rest == SubSeq(todo, at + 1, Len(todo))
           restored == Below(r.from) \cup Below(r.to)
           again == Rows(f.of, f.event, f.row + 1)
<1>1. /\ throwing /\ \E i \in DOMAIN todo : todo[i].op = "try"
      /\ current' = [x \in Machines |-> IF x \in restored THEN Initial[x] ELSE current[x]]
      /\ undone' = undone \cup {<<f.of, f.row>>}
      /\ \/ todo' = rest /\ UNCHANGED <<res, throwing>>
         \/ todo' = <<again>> \o rest /\ res' = "refuse" /\ throwing' = FALSE
      /\ UNCHANGED <<event, start>>
  BY DEF Catch, Restore
<1>2. todo # <<>> /\ at \in DOMAIN todo /\ f.op = "try"
  BY <1>1, Innermost
<1>3. /\ todo \in Seq(Frame) /\ f \in Frame /\ Guarded(todo, event, current, Begun)
      /\ rest \in Seq(Frame)
  <2>1. todo \in Seq(Frame) /\ Stacked(todo, event, current, Begun)
    BY <1>2, FirstCall
  <2>2. f \in Frame
    BY <1>2, <2>1
  <2>3. rest \in Seq(Frame)
    BY <1>2, <2>1, StackedRest
  <2>4. Guarded(todo, event, current, Begun)
    BY <2>1 DEF Stacked
  <2>5. QED
    BY <2>1, <2>2, <2>3, <2>4
<1>4. Arranged(todo) /\ Reported(todo, Lost, TRUE)
  BY <1>1 DEF ToldInv
<1>5. f.of \in Machines /\ f.row \in Nat /\ f.event \in Events \cup {None} /\ Scope(f) = Below(f.of)
  BY <1>2, <1>3, FrameFields DEF Scope
<1>6. Lost' \subseteq Lost /\ (Lost' = {} \/ ToldAfter(todo, at))
  <2>1. restored = Risked(f)
    BY DEF Risked
  <2>2. Gone' = Gone \cup restored
    <3>1. <<f.of, f.row>>[1] = f.of /\ <<f.of, f.row>>[2] = f.row
      OBVIOUS
    <3>2. Undone' = Undone \cup {r.from, r.to}
      BY <1>1, <3>1 DEF Undone
    <3>3. QED
      BY <3>2 DEF Gone
  <2>3. Lost' \subseteq Lost \ restored
    BY <1>1, <2>2 DEF Lost
  <2>4. ToldAfter(todo, at) \/ Lost \subseteq Risked(f)
    BY <1>2, <1>4 DEF Reported, ToldOutside
  <2>5. QED
    BY <2>1, <2>3, <2>4
<1>7. CASE todo' = rest /\ UNCHANGED <<res, throwing>>
  <2> DEFINE ops == <<>>
  <2>1. ops \in Seq(Frame) /\ DOMAIN ops = {} /\ ops = <<>> /\ ops \o rest = rest
    BY <1>3
  <2> HIDE DEF ops
  <2>2. Put(todo', ops, todo, at)
    BY <1>2, <1>3, <1>7, <2>1, PutRest
  <2>3. InTurn(ops) /\ Sheltered(ops)
    BY <2>1 DEF InTurn, Sheltered
  <2>4. Arranged(todo')
    BY <1>2, <1>3, <1>4, <2>1, <2>2, <2>3, ArrangedPut
  <2>5. Reported(todo', Lost', TRUE)
    BY <1>2, <1>3, <1>4, <1>6, <2>1, <2>2, ReportedPut
  <2>6. QED
    BY <1>1, <1>7, <2>4, <2>5 DEF ToldInv
<1>8. CASE todo' = <<again>> \o rest /\ res' = "refuse" /\ throwing' = FALSE
  <2> DEFINE ops == <<again>>
  <2>1. again \in Frame /\ again.op = "rows" /\ again.of = f.of
    <3> DEFINE m == f.of
               e == f.event
               i == f.row + 1
    <3>1. m \in Machines /\ e \in Events \cup {None} /\ i \in Nat
      BY ONLY <1>5
    <3>2. again = Rows(m, e, i)
      OBVIOUS
    <3> HIDE DEF m, e, i
    <3>3. Rows(m, e, i) \in Frame /\ Rows(m, e, i).op = "rows" /\ Rows(m, e, i).of = m
      BY ONLY <3>1, RowsFrame
    <3>4. QED
      BY ONLY <3>2, <3>3 DEF m
  <2> HIDE DEF again
  <2>2. ops \in Seq(Frame) /\ DOMAIN ops = {1} /\ ops[1] = again /\ Len(ops) = 1
    BY <2>1
  <2>3. todo' = ops \o rest
    BY <1>8
  <2> HIDE DEF ops
  <2>4. Put(todo', ops, todo, at)
    BY <1>2, <1>3, <2>2, <2>3, PutRest
  <2>5. Scope(again) = Below(f.of) /\ ~Dispatches(again) /\ ~Denies(again)
    BY <2>1 DEF Scope, Dispatches, Denies
  <2>6. InTurn(ops) /\ Sheltered(ops)
    BY <2>1, <2>2, <2>5 DEF InTurn, Sheltered
  <2>7. Arranged(todo')
    BY <1>2, <1>3, <1>4, <1>5, <2>1, <2>2, <2>4, <2>5, <2>6, ArrangedPut
  <2>8. Reported(todo', Lost', FALSE)
    BY <1>2, <1>3, <1>4, <1>6, <2>1, <2>2, <2>4, <2>5, ReportedPut
  <2>9. Lost' = {} \/ ToldAfter(todo', 0)
    <3>1. 0 \in 0..Len(ops)
      BY <2>2
    <3>2. QED
      BY <1>2, <1>3, <1>6, <2>2, <2>4, <3>1, PutTold
  <2>10. QED
    BY <1>8, <2>7, <2>8, <2>9 DEF ToldInv, Answered
<1>9. QED
  BY <1>1, <1>7, <1>8

LEMMA ReceiveTold ==
  ASSUME NEW e \in Events, Receive(e)
  PROVE  ToldInv'
<1> DEFINE f == Op("dispatch", Root, e)
<1>1. todo' = <<f>> /\ start' = Now /\ current' = current /\ ~throwing'
  BY DEF Receive, Resting, tree
<1>2. f.op = "dispatch"
  BY DEF Op
<1> HIDE DEF f
<1>3. DOMAIN todo' = {1} /\ todo'[1] = f
  BY <1>1
<1>4. Lost' = {}
  BY <1>1 DEF Lost, Now
<1>5. Arranged(todo')
  BY <1>2, <1>3 DEF Arranged, InTurn, Followed, Sheltered, Denies
<1>6. Reported(todo', Lost', throwing')
  BY <1>2, <1>3, <1>4 DEF Reported, ToldLater, ToldOutside
<1>7. QED
  BY <1>4, <1>5, <1>6 DEF ToldInv, Answered

-----------------------------------------------------------------------------
(* The invariant, and what follows from it *)

LEMMA InitTold ==
  ASSUME Init
  PROVE  ToldInv
<1>1. todo = <<>> /\ start = Now
  BY DEF Init
<1>2. Lost = {}
  BY <1>1 DEF Lost, Now
<1>3. QED
  BY <1>1, <1>2 DEF ToldInv, Arranged, InTurn, Followed, Sheltered, Reported, ToldLater,
                    ToldOutside, Answered

LEMMA NextTold ==
  ASSUME TypeOK, StackInv, ToldInv, [Next]_vars
  PROVE  ToldInv'
<1>1. ASSUME NEW e \in Events, Receive(e)
      PROVE  ToldInv'
  BY <1>1, ReceiveTold
<1>2. CASE Dispatch
  BY <1>2, DispatchTold
<1>3. CASE NextRegion
  BY <1>3, NextRegionTold
<1>4. CASE NoMoreRows
  BY <1>4, NoMoreRowsTold
<1>5. CASE TestRow
  BY <1>5, TestRowTold
<1>6. CASE TestInternalRow
  BY <1>6, TestInternalRowTold
<1>7. CASE Settle
  BY <1>7, SettleTold
<1>8. CASE CheckDefault
  BY <1>8, CheckDefaultTold
<1>9. CASE GiveAnswer
  BY <1>9, GiveAnswerTold
<1>10. CASE ExitOrEnter
  BY <1>10, ExitOrEnterTold
<1>11. CASE ClearSource
  BY <1>11, ClearSourceTold
<1>12. CASE CompleteTransition
  BY <1>12, CompleteTransitionTold
<1>13. CASE LeaveTry
  BY <1>13, LeaveTryTold
<1>14. CASE RunHandler
  BY <1>14, RunHandlerTold
<1>15. CASE HandlerThrows
  BY <1>15, HandlerThrowsTold
<1>16. CASE GuardThrows
  BY <1>16, GuardThrowsTold
<1>17. CASE Escape
  BY <1>17, EscapeTold
<1>18. CASE Catch
  BY <1>18, CatchTold
<1>19. CASE UNCHANGED vars
  <2>1. Lost' = Lost
    BY <1>19, SameLost DEF vars, tree, history
  <2>2. QED
    BY <1>19, <2>1 DEF vars, control, ToldInv
<1>20. QED
  BY <1>1, <1>2, <1>3, <1>4, <1>5, <1>6, <1>7, <1>8, <1>9, <1>10, <1>11, <1>12, <1>13,
     <1>14, <1>15, <1>16, <1>17, <1>18, <1>19 DEF Next, Step, Stuck

\* Whatever has moved for the event is told of: by the answer there is, or by
\* a call that is still to come, also when an exception takes away some of them.
THEOREM ToldInvariant == Spec => [](TypeOK /\ StackInv /\ ToldInv)
<1>1. Init => ToldInv
  BY InitTold
<1>2. (TypeOK /\ StackInv /\ ToldInv) /\ [Next]_vars => ToldInv'
  BY NextTold
<1>3. QED
  BY <1>1, <1>2, StackInvariant, PTL DEF Spec

\* An event that process_event does not report as processed has moved no
\* machine of the hierarchy, at any depth and in any region: but for what a
\* transition that failed has reset.
THEOREM MovesTold == Spec => []MovesAreTold
<1>1. ToldInv => MovesAreTold
  <2> SUFFICES ASSUME ToldInv, Resting, res # "process", NEW m \in Machines \ (Undone \cup Inside)
               PROVE  current[m] = start.current[m]
    BY DEF MovesAreTold
  <2>1. Answered(<<>>, Lost, res)
    BY DEF ToldInv, Resting
  <2>2. Lost = {}
    BY <2>1 DEF Answered, ToldAfter
  <2>3. m \notin Gone
    BY DEF Inside, Gone
  <2>4. QED
    BY <2>2, <2>3 DEF Lost
<1>2. QED
  BY <1>1, ToldInvariant, PTL

-----------------------------------------------------------------------------
(* Data that handlers have changed *)

LEMMA SaysPut ==
  ASSUME NEW s \in Seq(Frame), NEW k \in DOMAIN s, NEW ops \in Seq(Frame), NEW r, Put(r, ops, s, k)
  PROVE  /\ \A i \in DOMAIN s : i >= k /\ SaysAfter(s, i) => SaysAfter(r, Len(ops) + (i - k))
         /\ \A j \in 0..Len(ops) : SaysAfter(s, k) \/ SaysAfter(ops, j) => SaysAfter(r, j)
<1> DEFINE n == Len(ops)
<1>1. /\ n \in Nat /\ DOMAIN ops = 1..n /\ DOMAIN s \subseteq Nat \ {0}
      /\ \A j \in DOMAIN ops : j \in DOMAIN r /\ r[j] = ops[j]
      /\ \A i \in DOMAIN s : i > k => n + (i - k) \in DOMAIN r /\ r[n + (i - k)] = s[i]
  BY PutCalls
<1> HIDE DEF n
<1>2. ASSUME NEW i \in DOMAIN s, i >= k, SaysAfter(s, i)
      PROVE  SaysAfter(r, n + (i - k))
  <2>1. PICK j \in DOMAIN s : j > i /\ Says(s[j])
    BY <1>2 DEF SaysAfter
  <2>2. j > k /\ n + (j - k) > n + (i - k)
    BY <1>1, <1>2, <2>1
  <2>3. QED
    BY <1>1, <2>1, <2>2 DEF SaysAfter
<1>3. ASSUME NEW j \in 0..n, SaysAfter(s, k)
      PROVE  SaysAfter(r, j)
  <2>1. PICK i \in DOMAIN s : i > k /\ Says(s[i])
    BY <1>3 DEF SaysAfter
  <2>2. n + (i - k) > j
    BY <1>1, <2>1
  <2>3. QED
    BY <1>1, <2>1, <2>2 DEF SaysAfter
<1>4. ASSUME NEW j \in 0..n, SaysAfter(ops, j)
      PROVE  SaysAfter(r, j)
  BY <1>1, <1>4 DEF SaysAfter
<1>5. QED
  BY <1>2, <1>3, <1>4 DEF n

\* A step on the way: nothing was rolled back, and nothing is thrown.
Smooth == undone = {} /\ ~throwing /\ undone' = {} /\ ~throwing' /\ start' = start

LEMMA SaidDo ==
  ASSUME TypeOK, StackInv, ToldInv, SaidInv, todo # <<>>, Smooth,
         NEW ops \in Seq(Frame), Do(ops),
         \A i \in DOMAIN ops : ops[i].op = "answer" => ops[i].of \in Done,
         \A i \in DOMAIN ops : Touches(ops[i]) => SaysAfter(todo, 1) \/ SaysAfter(ops, i),
         Touched' => \/ SaysAfter(todo, 1) \/ SaysAfter(ops, 0)
                     \/ res' \in Done /\ \A i \in DOMAIN ops : ~Dispatches(ops[i])
  PROVE  SaidInv'
<1>1. todo \in Seq(Frame) /\ Accounted(todo) /\ InTurn(todo)
  BY FirstCall DEF SaidInv, Smooth, ToldInv, Arranged
<1>2. Put(todo', ops, todo, 1) /\ 1 \in DOMAIN todo
  BY <1>1, PutFirst DEF Do
<1>3. /\ Len(ops) \in Nat /\ DOMAIN ops = 1..Len(ops) /\ DOMAIN todo \subseteq Nat \ {0}
      /\ \A j \in DOMAIN todo' :
            \/ j \in DOMAIN ops /\ todo'[j] = ops[j]
            \/ \E i \in DOMAIN todo : i > 1 /\ j = Len(ops) + (i - 1) /\ todo'[j] = todo[i]
  BY <1>1, <1>2, PutCalls
<1>4. /\ \A i \in DOMAIN todo : i >= 1 /\ SaysAfter(todo, i) => SaysAfter(todo', Len(ops) + (i - 1))
      /\ \A j \in 0..Len(ops) : SaysAfter(todo, 1) \/ SaysAfter(ops, j) => SaysAfter(todo', j)
  BY <1>1, <1>2, SaysPut
<1>5. ASSUME NEW j \in DOMAIN todo'
      PROVE  /\ todo'[j].op = "answer" => todo'[j].of \in Done
             /\ Touches(todo'[j]) => SaysAfter(todo', j)
  <2>1. CASE j \in DOMAIN ops /\ todo'[j] = ops[j]
    <3>1. j \in 0..Len(ops)
      BY <1>3, <2>1
    <3>2. QED
      BY <1>4, <2>1, <3>1
  <2>2. ASSUME NEW i \in DOMAIN todo, i > 1, j = Len(ops) + (i - 1), todo'[j] = todo[i]
        PROVE  /\ todo'[j].op = "answer" => todo'[j].of \in Done
               /\ Touches(todo'[j]) => SaysAfter(todo', j)
    <3>1. i >= 1
      BY <1>3, <2>2
    <3>2. QED
      BY <1>1, <1>4, <2>2, <3>1 DEF Accounted
  <2>3. QED
    BY <1>3, <2>1, <2>2
<1>6. ASSUME Touched'
      PROVE  Acknowledged(todo', res')
  <2>1. CASE SaysAfter(todo, 1) \/ SaysAfter(ops, 0)
    <3>1. 0 \in 0..Len(ops)
      BY <1>3
    <3>2. QED
      BY <1>4, <2>1, <3>1 DEF Acknowledged
  <2>2. CASE res' \in Done /\ \A i \in DOMAIN ops : ~Dispatches(ops[i])
    <3>1. ASSUME NEW i \in DOMAIN todo, i > 1 PROVE ~Dispatches(todo[i])
      BY <1>1, <1>3, <3>1 DEF InTurn
    <3>2. \A j \in DOMAIN todo' : ~Dispatches(todo'[j])
      BY <1>3, <2>2, <3>1
    <3>3. QED
      BY <2>2, <3>2 DEF Acknowledged
  <2>3. QED
    BY <1>6, <2>1, <2>2
<1>7. QED
  BY <1>5, <1>6 DEF SaidInv, Accounted

LEMMA WasSaid ==
  ASSUME TypeOK, StackInv, SaidInv, todo # <<>>, undone = {}, ~throwing
  PROVE  /\ Touches(Head(todo)) => SaysAfter(todo, 1)
         /\ Head(todo).op = "answer" => Head(todo).of \in Done
         /\ Touched => \/ SaysAfter(todo, 1) \/ Says(Head(todo))
                       \/ res \in Done /\ ~Dispatches(Head(todo))
<1>1. todo \in Seq(Frame) /\ DOMAIN todo \subseteq Nat \ {0}
  BY FirstCall
<1>2. 1 \in DOMAIN todo /\ Head(todo) = todo[1]
  BY <1>1, TailFacts
<1>3. SaysAfter(todo, 0) => Says(todo[1]) \/ SaysAfter(todo, 1)
  <2> SUFFICES ASSUME NEW j \in DOMAIN todo, Says(todo[j]) PROVE Says(todo[1]) \/ SaysAfter(todo, 1)
    BY DEF SaysAfter
  <2>1. j = 1 \/ j > 1
    BY <1>1
  <2>2. QED
    BY <2>1 DEF SaysAfter
<1>4. Accounted(todo) /\ (Touched => Acknowledged(todo, res))
  BY DEF SaidInv
<1>5. QED
  BY <1>2, <1>3, <1>4 DEF Accounted, Acknowledged

\* A call that an answer follows may become any calls that answer nothing.
LEMMA SaidUnder ==
  ASSUME TypeOK, StackInv, ToldInv, SaidInv, todo # <<>>, Smooth, Touches(Head(todo)),
         NEW ops \in Seq(Frame), Do(ops), \A i \in DOMAIN ops : ops[i].op # "answer"
  PROVE  SaidInv'
<1>1. SaysAfter(todo, 1)
  BY WasSaid DEF Smooth
<1>2. QED
  BY <1>1, SaidDo

\* A call returns.
LEMMA SaidNone ==
  ASSUME TypeOK, StackInv, ToldInv, SaidInv, todo # <<>>, Smooth, Do(<<>>),
         Touched' => SaysAfter(todo, 1) \/ res' \in Done
  PROVE  SaidInv'
<1> DEFINE ops == <<>>
<1>1. ops \in Seq(Frame) /\ DOMAIN ops = {} /\ ops = <<>>
  OBVIOUS
<1> HIDE DEF ops
<1>2. QED
  BY <1>1, SaidDo

\* Calls that do not touch data, and answer nothing.
QuietOps == {"rows", "internal", "settle", "region"}

LEMMA SaidQuiet ==
  ASSUME TypeOK, StackInv, ToldInv, SaidInv, todo # <<>>, Smooth,
         NEW ops \in Seq(Frame), Do(ops), \A i \in DOMAIN ops : ops[i].op \in QuietOps,
         Touched' => SaysAfter(todo, 1) \/ res' \in Done
  PROVE  SaidInv'
<1>1. \A i \in DOMAIN ops :
         ops[i].op # "answer" /\ ~Touches(ops[i]) /\ ~Dispatches(ops[i])
  BY DEF QuietOps, Touches, Dispatches
<1>2. QED
  BY <1>1, SaidDo

LEMMA SaidOne ==
  ASSUME TypeOK, StackInv, ToldInv, SaidInv, todo # <<>>, Smooth,
         NEW f \in Frame, Do(<<f>>), f.op \in QuietOps,
         Touched' => SaysAfter(todo, 1) \/ res' \in Done
  PROVE  SaidInv'
<1> DEFINE ops == <<f>>
<1>1. ops \in Seq(Frame) /\ DOMAIN ops = {1} /\ ops[1] = f
  BY OneCall
<1>2. Do(ops)
  OBVIOUS
<1> HIDE DEF ops
<1>3. QED
  BY <1>1, <1>2, SaidQuiet

LEMMA SameTouched ==
  ASSUME dirty' = dirty, start' = start
  PROVE  Touched' = Touched
  BY DEF Touched

LEMMA DispatchSaid ==
  ASSUME TypeOK, StackInv, ToldInv, SaidInv, Smooth, Dispatch
  PROVE  SaidInv'
<1> DEFINE f == Head(todo)
           n == f.of
           i == InternalRows(n, 1)
<1>1. /\ todo # <<>> /\ f.op = "dispatch" /\ DispatchTo(n)
      /\ UNCHANGED <<tree, program, event, throwing, history>>
  BY DEF Dispatch, Doing
<1>2. /\ f \in Frame /\ event \in Events
  BY <1>1, FirstCall
<1>3. n \in States
  BY <1>1, <1>2, FrameFields DEF OpNames
<1>4. Touched' => SaysAfter(todo, 1)
  BY <1>1, WasSaid, SameTouched DEF Smooth, tree, Dispatches, Says
<1>5. i \in Frame /\ i.op = "internal"
  BY <1>3, InternalFrame
<1> HIDE DEF f, n, i
<1>6. CASE Do(<<>>)
  BY <1>1, <1>4, <1>6, SaidNone
<1>7. CASE n \in Machines /\ Do(MachineDispatch(n))
  <2> DEFINE ops == MachineDispatch(n)
  <2>1. /\ ops \in Seq(Frame) /\ DOMAIN ops = {1, 2, 3, 4} /\ Dispatches(ops[1])
        /\ \A j \in {2, 3, 4} : ops[j].op \in FreeOps
    BY <1>2, <1>7, MachineCalls
  <2>2. ops[2].op = "rows" /\ ops[3].op = "settle" /\ ops[4].op = "internal"
    BY DEF MachineDispatch, Rows, Op, InternalRows
  <2>3. Do(ops)
    BY <1>7
  <2> HIDE DEF ops
  <2>4. \A j \in DOMAIN ops : ops[j].op # "answer" /\ ~Touches(ops[j])
    BY <2>1, <2>2 DEF Dispatches, Touches
  <2>5. QED
    BY <1>1, <1>4, <2>1, <2>3, <2>4, SaidDo
<1>8. CASE n \in Orthogonal /\ Do(<<Region(n, 1, "refuse"), InternalRows(n, 1)>>)
  <2> DEFINE g == Region(n, 1, "refuse")
             ops == <<g, i>>
  <2>1. g \in Frame /\ g.op = "region"
    BY <1>8, RegionFrame DEF Answers
  <2>2. Do(ops)
    BY <1>8 DEF i
  <2> HIDE DEF g
  <2>3. ops \in Seq(Frame) /\ DOMAIN ops = {1, 2} /\ ops[1] = g /\ ops[2] = i
    BY <1>5, <2>1, TwoCalls
  <2> HIDE DEF ops
  <2>4. \A j \in DOMAIN ops : ops[j].op \in QuietOps
    BY <1>5, <2>1, <2>3 DEF QuietOps
  <2>5. QED
    BY <1>1, <1>4, <2>2, <2>3, <2>4, SaidQuiet
<1>9. CASE Do(<<i>>)
  BY <1>1, <1>4, <1>5, <1>9, SaidOne DEF QuietOps
<1>10. QED
  BY <1>1, <1>6, <1>7, <1>8, <1>9, TreeAssumption
     DEF DispatchTo, Return, RegionsDispatch, StateDispatch, i

LEMMA NextRegionSaid ==
  ASSUME TypeOK, StackInv, ToldInv, SaidInv, Smooth, NextRegion
  PROVE  SaidInv'
<1> DEFINE f == Head(todo)
           best == Better(f.best, res)
           o == f.of
<1>1. /\ todo # <<>> /\ f.op = "region"
      /\ UNCHANGED <<tree, program, event, throwing, history>>
      /\ IF f.row > Len(Regions[o])
         THEN Return(best)
         ELSE /\ Do(<<Op("dispatch", Regions[o][f.row], event), Region(o, f.row + 1, best)>>)
              /\ UNCHANGED res
  BY DEF NextRegion, Doing
<1>2. /\ f \in Frame /\ Fits(f, event, current, Begun) /\ event \in Events /\ res \in Answers
  BY <1>1, FirstCall
<1>3. /\ o \in Orthogonal /\ f.row \in Nat /\ f.best \in Answers /\ f.row >= 1
  BY <1>1, <1>2, FrameFields DEF Fits, FitsDispatch
<1>4. best \in Answers /\ (f.best \in Done \/ res \in Done => best \in Done)
  <2>1. \A r \in Answers : \A q \in Done : Rank[q] < Rank[r] => r \in Done
    BY DEF Answers, Rank, Done
  <2>2. \A r \in Answers : \A q \in Done : ~(Rank[r] < Rank[q]) => r \in Done
    BY DEF Answers, Rank, Done
  <2>3. QED
    BY <1>2, <1>3, <2>1, <2>2 DEF Better
<1>5. Touched' => SaysAfter(todo, 1) \/ best \in Done
  BY <1>1, <1>4, WasSaid, SameTouched DEF Smooth, tree, Says
<1> HIDE DEF f, best, o
<1>6. CASE f.row > Len(Regions[o])
  BY <1>1, <1>5, <1>6, SaidNone DEF Return
<1>7. CASE ~(f.row > Len(Regions[o]))
  <2> DEFINE s == Regions[o][f.row]
             d == Op("dispatch", s, event)
             g == Region(o, f.row + 1, best)
             ops == <<d, g>>
  <2>1. Do(ops)
    BY <1>1, <1>7
  <2>2. f.row \in 1..Len(Regions[o]) /\ f.row + 1 \in Nat
    BY <1>3, <1>7, RegionsOf
  <2>3. s \in States
    BY <1>3, <2>2, RegionsApart
  <2>4. /\ d \in Frame /\ d.op = "dispatch"
        /\ g \in Frame /\ g.op = "region" /\ g.best = best
    BY <1>2, <1>3, <1>4, <2>2, <2>3, OpFrame, RegionFrame DEF OpNames
  <2> HIDE DEF d, g, s
  <2>5. ops \in Seq(Frame) /\ DOMAIN ops = {1, 2} /\ ops[1] = d /\ ops[2] = g
    BY <2>4, TwoCalls
  <2> HIDE DEF ops
  <2>6. \A j \in DOMAIN ops : ops[j].op # "answer" /\ ~Touches(ops[j])
    BY <2>4, <2>5 DEF Touches
  <2>7. best \in Done => SaysAfter(ops, 0)
    <3>1. 2 \in DOMAIN ops /\ 2 > 0
      BY <2>5
    <3>2. QED
      BY <2>4, <2>5, <3>1 DEF SaysAfter, Says
  <2>8. QED
    BY <1>1, <1>5, <2>1, <2>5, <2>6, <2>7, SaidDo
<1>8. QED
  BY <1>6, <1>7

LEMMA TransitionSaid ==
  ASSUME TypeOK, NEW m \in Machines, NEW e \in Events \cup {None}, NEW i \in DOMAIN Table[m]
  PROVE  LET ops == Transition(m, e, i) IN
         /\ ops \in Seq(Frame)
         /\ \A k \in DOMAIN ops : ops[k].op # "answer" /\ (Touches(ops[k]) => SaysAfter(ops, k))
<1> DEFINE ops == Transition(m, e, i)
<1>1. /\ ops \in Seq(Frame) /\ DOMAIN ops \subseteq {1, 2, 3, 4, 5, 6}
      /\ {1, 2, 3, 4, 5} \subseteq DOMAIN ops
      /\ ops[1].op = "exit" /\ ops[2].op = "call" /\ ops[3].op = "enter"
      /\ ops[4].op = "clear" /\ ops[5].op = "set"
      /\ 6 \in DOMAIN ops => ops[6].op = "try"
  <2>1. /\ ops \in Seq(Frame) /\ DOMAIN ops \subseteq {1, 2, 3, 4, 5, 6}
        /\ {1, 2, 3, 4, 5} \subseteq DOMAIN ops
        /\ 6 \in DOMAIN ops => ops[6].op = "try"
    BY TransitionCalls
  <2>2. /\ ops[1].op = "exit" /\ ops[2].op = "call" /\ ops[3].op = "enter"
        /\ ops[4].op = "clear" /\ ops[5].op = "set"
    BY TransitionCalls
  <2>3. QED
    BY <2>1, <2>2
<1> HIDE DEF ops
<1>2. ASSUME NEW k \in DOMAIN ops
      PROVE  ops[k].op # "answer" /\ (Touches(ops[k]) => SaysAfter(ops, k))
  <2>1. k \in {1, 2, 3, 4} \/ ops[k].op \in {"set", "try"}
    BY <1>1
  <2>2. k \in {1, 2, 3, 4} => ops[k].op # "answer" /\ 5 > k
    BY <1>1
  <2>3. QED
    BY <1>1, <2>1, <2>2 DEF Touches, SaysAfter, Says
<1>3. QED
  BY <1>1, <1>2 DEF ops

LEMMA TestRowSaid ==
  ASSUME TypeOK, StackInv, ToldInv, SaidInv, Smooth, TestRow
  PROVE  SaidInv'
<1> DEFINE f == Head(todo)
           m == f.of
           e == f.event
           i == First(Candidates(f))
           next == Rows(m, e, i + 1)
           ops == Transition(m, e, i)
<1>1. /\ todo # <<>> /\ f.op = "rows" /\ Candidates(f) # {}
      /\ Do(ops) \/ Do(<<next>>)
      /\ UNCHANGED <<tree, program, event, res, throwing, history>>
  BY DEF TestRow, Doing
<1>2. f \in Frame /\ Fits(f, event, current, Begun) /\ event \in Events
  BY <1>1, FirstCall
<1>3. m \in Machines /\ e \in Events \cup {None} /\ f.row >= 1
  BY <1>1, <1>2, FrameFields DEF Fits, FitsDispatch
<1>4. i \in DOMAIN Table[m] /\ i + 1 \in Nat /\ res = "refuse"
  BY <1>1, <1>2, <1>3, FirstCandidate
<1>5. Touched' => SaysAfter(todo, 1)
  BY <1>1, <1>4, WasSaid, SameTouched DEF Smooth, tree, Says, Done
<1> HIDE DEF f, m, e, i
<1>6. CASE Do(ops)
  <2>1. /\ ops \in Seq(Frame)
        /\ \A k \in DOMAIN ops : ops[k].op # "answer" /\ (Touches(ops[k]) => SaysAfter(ops, k))
    BY ONLY TypeOK, <1>3, <1>4, TransitionSaid
  <2> HIDE DEF ops
  <2>2. QED
    BY <1>1, <1>5, <1>6, <2>1, SaidDo
<1>7. CASE Do(<<next>>)
  <2>1. next \in Frame /\ next.op = "rows"
    BY ONLY <1>3, <1>4, RowsFrame
  <2> HIDE DEF next
  <2>2. QED
    BY <1>1, <1>5, <1>7, <2>1, SaidOne DEF QuietOps
<1>8. QED
  BY <1>1, <1>6, <1>7

LEMMA TestInternalRowSaid ==
  ASSUME TypeOK, StackInv, ToldInv, SaidInv, Smooth, TestInternalRow
  PROVE  SaidInv'
<1> DEFINE f == Head(todo)
           n == f.of
           i == First(InternalCandidates(f))
           call == Call("internal", n, i, event)
           answer == Answer("in_state")
           next == InternalRows(n, i + 1)
           ops == <<call, answer>>
<1>1. /\ todo # <<>> /\ f.op = "internal" /\ InternalCandidates(f) # {}
      /\ Do(ops) \/ Do(<<next>>)
      /\ UNCHANGED <<tree, program, event, res, throwing, history>>
  BY DEF TestInternalRow, Doing
<1>2. /\ f \in Frame /\ Fits(f, event, current, Begun) /\ event \in Events
  BY <1>1, FirstCall
<1>3. n \in States /\ f.row >= 1
  BY <1>1, <1>2, FrameFields DEF Fits, FitsDispatch
<1>4. i \in Nat /\ i + 1 \in Nat /\ res = "refuse"
  BY <1>1, <1>2, <1>3, FirstInternalCandidate
<1>5. Touched' => SaysAfter(todo, 1)
  BY <1>1, <1>4, WasSaid, SameTouched DEF Smooth, tree, Says, Done
<1> HIDE DEF f, n, i
<1>6. CASE Do(ops)
  <2>1. call \in Frame /\ call.op = "call"
    BY <1>2, <1>3, <1>4, CallFrame
  <2>2. answer \in Frame /\ answer.op = "answer" /\ answer.of = "in_state"
    BY AnswerFrame DEF Answers
  <2> HIDE DEF call, answer
  <2>3. ops \in Seq(Frame) /\ DOMAIN ops = {1, 2} /\ ops[1] = call /\ ops[2] = answer
    BY <2>1, <2>2, TwoCalls
  <2> HIDE DEF ops
  <2>4. SaysAfter(ops, 1)
    <3>1. 2 \in DOMAIN ops /\ 2 > 1
      BY <2>3
    <3>2. QED
      BY <2>2, <2>3, <3>1 DEF SaysAfter, Says
  <2>5. \A k \in DOMAIN ops :
           /\ ops[k].op = "answer" => ops[k].of \in Done
           /\ Touches(ops[k]) => SaysAfter(ops, k)
    BY <2>1, <2>2, <2>3, <2>4 DEF Touches, Done
  <2>6. QED
    BY <1>1, <1>5, <1>6, <2>3, <2>5, SaidDo
<1>7. CASE Do(<<next>>)
  <2>1. next \in Frame /\ next.op = "internal"
    BY <1>3, <1>4, InternalFrame
  <2> HIDE DEF next
  <2>2. QED
    BY <1>1, <1>5, <1>7, <2>1, SaidOne DEF QuietOps
<1>8. QED
  BY <1>1, <1>6, <1>7

\* Rows that do not fit, and the end of a `try`.
LEMMA NoMoreSaid ==
  ASSUME TypeOK, StackInv, ToldInv, SaidInv, Smooth, NoMoreRows \/ LeaveTry
  PROVE  SaidInv'
<1>1. /\ todo # <<>> /\ Head(todo).op \in {"rows", "internal", "try"} /\ Do(<<>>)
      /\ UNCHANGED <<tree, program, event, res, throwing, history>>
  BY DEF NoMoreRows, LeaveTry, Doing
<1>2. Touched' => SaysAfter(todo, 1) \/ res' \in Done
  BY <1>1, WasSaid, SameTouched DEF Smooth, tree, Says
<1>3. QED
  BY <1>1, <1>2, SaidNone

LEMMA SettleSaid ==
  ASSUME TypeOK, StackInv, ToldInv, SaidInv, Smooth, Settle
  PROVE  SaidInv'
<1> DEFINE f == Head(todo)
           default == Op("default", f.of, None)
           answer == Answer("process")
           ops == <<default, answer>>
<1>1. /\ todo # <<>> /\ f.op = "settle"
      /\ Do(ops) \/ Do(<<>>)
      /\ UNCHANGED <<tree, program, event, res, throwing, history>>
  BY DEF Settle, Doing
<1>2. f \in Frame /\ f.of \in States
  BY <1>1, FirstCall, FrameFields DEF OpNames
<1>3. CASE Do(ops)
  <2>1. /\ default \in Frame /\ default.op = "default"
        /\ answer \in Frame /\ answer.op = "answer" /\ answer.of = "process"
    BY <1>2, OpFrame, AnswerFrame DEF OpNames, Answers
  <2> HIDE DEF default, answer
  <2>2. ops \in Seq(Frame) /\ DOMAIN ops = {1, 2} /\ ops[1] = default /\ ops[2] = answer
    BY <2>1, TwoCalls
  <2>3. Do(ops)
    BY <1>3
  <2> HIDE DEF ops
  <2>4. SaysAfter(ops, 0) /\ SaysAfter(ops, 1)
    <3>1. 2 \in DOMAIN ops /\ 2 > 0 /\ 2 > 1
      BY <2>2
    <3>2. QED
      BY <2>1, <2>2, <3>1 DEF SaysAfter, Says
  <2>5. \A k \in DOMAIN ops :
           /\ ops[k].op = "answer" => ops[k].of \in Done
           /\ Touches(ops[k]) => SaysAfter(ops, k)
    BY <2>1, <2>2, <2>4 DEF Touches, Done
  <2>6. QED
    BY <1>1, <2>2, <2>3, <2>4, <2>5, SaidDo
<1>4. CASE Do(<<>>)
  <2>1. Touched' => SaysAfter(todo, 1) \/ res' \in Done
    BY <1>1, WasSaid, SameTouched DEF Smooth, tree, Says
  <2>2. QED
    BY <1>1, <1>4, <2>1, SaidNone
<1>5. QED
  BY <1>1, <1>3, <1>4

LEMMA CheckDefaultSaid ==
  ASSUME TypeOK, StackInv, ToldInv, SaidInv, Smooth, CheckDefault
  PROVE  SaidInv'
<1> DEFINE f == Head(todo)
           next == Rows(f.of, None, 1)
<1>1. todo # <<>> /\ f.op = "default" /\ Do(<<next>>)
  BY DEF CheckDefault, Doing
<1>2. f.of \in Machines
  BY <1>1, FirstCall DEF Fits, FitsTransition
<1>3. next \in Frame /\ next.op = "rows"
  BY <1>2, RowsFrame
<1> HIDE DEF next
<1>4. SaysAfter(todo, 1)
  BY <1>1, WasSaid DEF Smooth, Touches
<1>5. QED
  BY <1>1, <1>3, <1>4, SaidOne DEF QuietOps

\* The calls that answer `process`, or that something was done in the state.
LEMMA AnswerSaid ==
  ASSUME TypeOK, StackInv, ToldInv, SaidInv, Smooth, GiveAnswer \/ CompleteTransition
  PROVE  SaidInv'
<1>1. todo # <<>> /\ Do(<<>>)
  BY DEF GiveAnswer, CompleteTransition, Doing, Return
<1>2. CASE GiveAnswer
  <2>1. Head(todo).op = "answer" /\ res' = Head(todo).of
    BY <1>2 DEF GiveAnswer, Doing, Return
  <2>2. res' \in Done
    BY <1>1, <2>1, WasSaid DEF Smooth
  <2>3. QED
    BY <1>1, <2>2, SaidNone
<1>3. CASE CompleteTransition
  <2>1. res' \in Done
    BY <1>3 DEF CompleteTransition, Return, Done
  <2>2. QED
    BY <1>1, <2>1, SaidNone
<1>4. QED
  BY <1>2, <1>3

LEMMA ExitOrEnterSaid ==
  ASSUME TypeOK, StackInv, ToldInv, SaidInv, Smooth, ExitOrEnter
  PROVE  SaidInv'
<1> DEFINE f == Head(todo)
           n == f.of
           e == f.event
<1>1. /\ todo # <<>>
      /\ \/ f.op = "exit" /\ Do(InnerExit(n, e) \o <<Call("exit", n, 0, e)>>)
         \/ f.op = "enter" /\ Do(<<Call("enter", n, 0, e)>> \o InnerEnter(n, e))
  BY DEF ExitOrEnter, Doing
<1>2. f \in Frame /\ Fits(f, event, current, Begun) /\ event \in Events
  BY <1>1, FirstCall
<1>3. n \in States /\ e \in Events \cup {None}
  BY <1>1, <1>2, FrameFields DEF OpNames
<1>4. \A kind \in {"exit", "enter"} :
         /\ <<Call(kind, n, 0, e)>> \in Seq(Frame)
         /\ \A g \in ToSet(<<Call(kind, n, 0, e)>>) : g.op = "call"
  BY <1>3, CallFrame, ToSetOne
<1>5. Due(event, Begun) \/ f.op # "enter"
  BY <1>1, <1>2 DEF Fits, FitsTransition
<1>6. Touches(f)
  BY <1>1 DEF Touches
<1> HIDE DEF f, n, e
<1>7. CASE f.op = "exit" /\ Do(InnerExit(n, e) \o <<Call("exit", n, 0, e)>>)
  <2> DEFINE inner == InnerExit(n, e)
             one == <<Call("exit", n, 0, e)>>
             ops == inner \o one
  <2>1. inner \in Seq(Frame) /\ \A g \in ToSet(inner) : g.op = "exit"
    BY <1>3, InnerExitFacts, InnerExitOps
  <2>2. one \in Seq(Frame) /\ \A g \in ToSet(one) : g.op = "call"
    BY <1>4
  <2>3. Do(ops)
    BY <1>7
  <2> HIDE DEF inner, one
  <2>4. ops \in Seq(Frame) /\ ToSet(ops) = ToSet(inner) \cup ToSet(one)
    BY <2>1, <2>2, ConcatFacts
  <2> HIDE DEF ops
  <2>5. \A i \in DOMAIN ops : ops[i] \in ToSet(ops)
    BY DEF ToSet
  <2>6. \A i \in DOMAIN ops : ops[i].op # "answer"
    BY <2>1, <2>2, <2>4, <2>5
  <2>7. QED
    BY <1>1, <1>6, <2>3, <2>4, <2>6, SaidUnder DEF f
<1>8. CASE f.op = "enter" /\ Do(<<Call("enter", n, 0, e)>> \o InnerEnter(n, e))
  <2> DEFINE inner == InnerEnter(n, e)
             one == <<Call("enter", n, 0, e)>>
             ops == one \o inner
  <2>1. inner \in Seq(Frame) /\ \A g \in ToSet(inner) : g.op \in {"enter", "default"}
    BY <1>3, <1>5, <1>8, InnerEnterFacts, InnerEnterOps
  <2>2. one \in Seq(Frame) /\ \A g \in ToSet(one) : g.op = "call"
    BY <1>4
  <2>3. Do(ops)
    BY <1>8
  <2> HIDE DEF inner, one
  <2>4. ops \in Seq(Frame) /\ ToSet(ops) = ToSet(one) \cup ToSet(inner)
    BY <2>1, <2>2, ConcatFacts
  <2> HIDE DEF ops
  <2>5. \A i \in DOMAIN ops : ops[i] \in ToSet(ops)
    BY DEF ToSet
  <2>6. \A i \in DOMAIN ops : ops[i].op # "answer"
    BY <2>1, <2>2, <2>4, <2>5
  <2>7. QED
    BY <1>1, <1>6, <2>3, <2>4, <2>6, SaidUnder DEF f
<1>9. QED
  BY <1>1, <1>7, <1>8

\* Data changes here.
LEMMA HandlerSaid ==
  ASSUME TypeOK, StackInv, ToldInv, SaidInv, Smooth, ClearSource \/ RunHandler
  PROVE  SaidInv'
<1>1. todo # <<>> /\ Head(todo).op \in {"clear", "call"} /\ Do(<<>>)
  BY DEF ClearSource, RunHandler, Doing
<1>2. SaysAfter(todo, 1)
  BY <1>1, WasSaid DEF Smooth, Touches
<1>3. QED
  BY <1>1, <1>2, SaidNone

\* After an exception nothing is claimed any more for this event.
LEMMA ThrownSaid ==
  ASSUME HandlerThrows \/ GuardThrows \/ Escape \/ Catch
  PROVE  SaidInv'
<1>1. CASE HandlerThrows \/ GuardThrows \/ Escape
  BY <1>1 DEF HandlerThrows, GuardThrows, ThrowNow, Escape, SaidInv
<1>2. CASE Catch
  <2>1. undone' # {}
    BY <1>2 DEF Catch
  <2>2. QED
    BY <2>1 DEF SaidInv
<1>3. QED
  BY <1>1, <1>2

LEMMA ReceiveSaid ==
  ASSUME NEW e \in Events, Receive(e)
  PROVE  SaidInv'
<1> DEFINE f == Op("dispatch", Root, e)
<1>1. todo' = <<f>> /\ start' = Now /\ dirty' = dirty
  BY DEF Receive, tree
<1>2. f.op = "dispatch"
  BY DEF Op
<1> HIDE DEF f
<1>3. DOMAIN todo' = {1} /\ todo'[1] = f
  BY <1>1
<1>4. ~Touched'
  BY <1>1 DEF Touched, Now
<1>5. Accounted(todo')
  BY <1>2, <1>3 DEF Accounted, Touches
<1>6. QED
  BY <1>4, <1>5 DEF SaidInv

LEMMA InitSaid ==
  ASSUME Init
  PROVE  SaidInv
<1>1. todo = <<>> /\ start = Now
  BY DEF Init
<1>2. ~Touched
  BY <1>1 DEF Touched, Now
<1>3. QED
  BY <1>1, <1>2 DEF SaidInv, Accounted

LEMMA NextSaid ==
  ASSUME TypeOK, StackInv, ToldInv, SaidInv, [Next]_vars
  PROVE  SaidInv'
<1>1. ASSUME NEW e \in Events, Receive(e)
      PROVE  SaidInv'
  BY <1>1, ReceiveSaid
<1>2. CASE HandlerThrows \/ GuardThrows \/ Escape \/ Catch
  BY <1>2, ThrownSaid
<1>3. CASE UNCHANGED vars
  <2>1. Touched' = Touched
    BY <1>3, SameTouched DEF vars, tree, history
  <2>2. QED
    BY <1>3, <2>1 DEF vars, control, history, SaidInv
<1>4. CASE Dispatch \/ NextRegion \/ NoMoreRows \/ TestRow \/ TestInternalRow \/ Settle
           \/ CheckDefault \/ GiveAnswer \/ ExitOrEnter \/ ClearSource \/ CompleteTransition
           \/ LeaveTry \/ RunHandler
  <2>1. UNCHANGED <<undone, throwing, start>>
    BY <1>4 DEF Dispatch, NextRegion, NoMoreRows, TestRow, TestInternalRow, Settle, CheckDefault,
                GiveAnswer, ExitOrEnter, ClearSource, CompleteTransition, LeaveTry, RunHandler,
                history
  <2>2. CASE Smooth
    BY <1>4, <2>2, DispatchSaid, NextRegionSaid, NoMoreSaid, TestRowSaid, TestInternalRowSaid,
       SettleSaid, CheckDefaultSaid, AnswerSaid, ExitOrEnterSaid, HandlerSaid
  <2>3. CASE ~Smooth
    BY <2>1, <2>3 DEF Smooth, SaidInv
  <2>4. QED
    BY <2>2, <2>3
<1>5. QED
  BY <1>1, <1>2, <1>3, <1>4 DEF Next, Step, Stuck

\* For an event for which nothing was rolled back: data that has changed is
\* told of, by the answer there is or by a call that is still to come.
THEOREM SaidInvariant == Spec => []SaidInv
<1>1. Init => SaidInv
  BY InitSaid
<1>2. (TypeOK /\ StackInv /\ ToldInv) /\ SaidInv /\ [Next]_vars => SaidInv'
  BY NextSaid
<1>3. QED
  BY <1>1, <1>2, ToldInvariant, PTL DEF Spec

\* Whatever throws for earlier events: an event that is refused or deferred has
\* left no trace in any data, if no transition was rolled back for it.
Untouched ==
    Resting /\ undone = {} /\ res \in {"refuse", "defer"} => dirty = start.dirty
THEOREM RefusedLeavesNoTrace == Spec => []Untouched
<1>1. SaidInv => Untouched
  <2> SUFFICES ASSUME SaidInv, Resting, undone = {}, res \in {"refuse", "defer"}
               PROVE  dirty = start.dirty
    BY DEF Untouched
  <2>1. ~SaysAfter(todo, 0) /\ res \notin Done
    BY DEF Resting, SaysAfter, Done
  <2>2. QED
    BY <2>1 DEF SaidInv, Resting, Touched, Acknowledged
<1>2. QED
  BY <1>1, SaidInvariant, PTL

LEMMA NothingUndone ==
  ASSUME Throwing = {}
  PROVE  Spec => [](undone = {})
<1>1. Init => undone = {}
  BY DEF Init
<1>2. ~throwing /\ undone = {} /\ [Next]_vars => (undone = {})'
  BY DEF Next, Step, Stuck, vars, history, Receive, Dispatch, NextRegion, NoMoreRows, TestRow,
         TestInternalRow, Settle, CheckDefault, GiveAnswer, ExitOrEnter, ClearSource,
         CompleteTransition, LeaveTry, RunHandler, HandlerThrows, GuardThrows, Escape, Catch
<1>3. QED
  BY <1>1, <1>2, NothingThrown, PTL DEF Spec

\* When nothing throws, the answer tells what happened: a machine has moved only
\* for an event that was processed, and data has changed only for one that was
\* processed or handled in a state; what is refused or deferred leaves no trace.
THEOREM AnswerTrue ==
  ASSUME Throwing = {}
  PROVE  Spec => []AnswerIsTrue
<1>1. MovesAreTold /\ Untouched /\ undone = {} => AnswerIsTrue
  BY DEF AnswerIsTrue, Untouched
<1>2. QED
  BY <1>1, MovesTold, RefusedLeavesNoTrace, NothingUndone, PTL
=============================================================================

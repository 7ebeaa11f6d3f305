--------------------------- MODULE Pushdown_proofs ---------------------------
(***************************************************************************)
(* For every definition of a machine with a pushdown stack, however deep   *)
(* its states nest, every tables, guards and handlers: the frames below    *)
(* the topmost wait in push states, what is entered is exited but for what *)
(* a pop skips, and is_in_state tells what is active.                      *)
(*                                                                         *)
(* A definition is a tree, and what is computed from it is computed by     *)
(* recursion over the tree: what contains what, which states of a frame    *)
(* are active, the path to a state.  The first parts prove that each of    *)
(* these recursions has a solution, by NestingAssumption, and what its     *)
(* solution is.  The invariant, PushInv, then says of every frame that     *)
(*   - each machine in it is in one of its own states (FrameOK);           *)
(*   - a machine that is not active is as new (AsNew), so that a           *)
(*     transition enters below its target what the definition says;        *)
(*   - if it is not the topmost, its innermost state is a push (Waits).    *)
(* The balance of entries and exits, BalanceInv, is a sum over the states  *)
(* of the region, which a transition changes in at most two of them, and a *)
(* push or a pop in one more.                                              *)
(***************************************************************************)
EXTENDS Pushdown, FiniteSetTheorems, SequenceTheorems, WellFoundedInduction, TLAPS

-----------------------------------------------------------------------------
(* States inside states *)

\* The recursion of contains_substate has a solution: the least set of machines
\* that holds those with s among their states or in one of them.
LEMMA ContainsEquation ==
  ASSUME NEW s
  PROVE  \E c : c = [n \in AllStates |-> n \in Machines /\ \E i \in Inner[n] : i = s \/ c[i]]
<1> DEFINE Holds(T, n) == n \in Machines /\ \E i \in Inner[n] : i = s \/ i \in T
           Closed(T) == \A n \in AllStates : Holds(T, n) => n \in T
           L == {n \in AllStates : \A T \in SUBSET AllStates : Closed(T) => n \in T}
           c == [n \in AllStates |-> n \in L]
<1>1. \A n \in Machines : n \in AllStates /\ Inner[n] \subseteq AllStates
  BY DefinitionAssumption
<1>2. Closed(L)
  <2>1. SUFFICES ASSUME NEW n \in AllStates, Holds(L, n),
                        NEW T \in SUBSET AllStates, Closed(T)
                 PROVE  n \in T
    OBVIOUS
  <2>2. Holds(T, n)
    BY <2>1, <1>1
  <2>3. QED
    BY <2>1, <2>2
<1>3. \A n \in L : Holds(L, n)
  <2>1. SUFFICES ASSUME NEW n \in L, ~Holds(L, n) PROVE FALSE
    OBVIOUS
  <2>2. Closed(L \ {n})
    <3>1. SUFFICES ASSUME NEW k \in AllStates, Holds(L \ {n}, k) PROVE k \in L \ {n}
      OBVIOUS
    <3>2. Holds(L, k)
      BY <3>1
    <3>3. k \in L
      BY <3>2, <1>2
    <3>4. k # n
      BY <3>2, <2>1
    <3>5. QED
      BY <3>3, <3>4
  <2>3. L \ {n} \in SUBSET AllStates
    OBVIOUS
  <2>4. n \in L \ {n}
    BY <2>2, <2>3
  <2>5. QED
    BY <2>4
<1>4. ASSUME NEW n \in AllStates
      PROVE  (n \in L) <=> (n \in Machines /\ \E i \in Inner[n] : i = s \/ c[i])
  <2>1. n \in L <=> Holds(L, n)
    BY <1>2, <1>3
  <2>2. n \in Machines => \A i \in Inner[n] : c[i] <=> i \in L
    BY <1>1
  <2>3. QED
    BY <2>1, <2>2
<1>5. c = [n \in AllStates |-> n \in Machines /\ \E i \in Inner[n] : i = s \/ c[i]]
  <2>1. c = [n \in AllStates |-> n \in L]
    OBVIOUS
  <2> HIDE DEF L, c
  <2>2. QED
    BY <1>4, <2>1, SMT
<1>6. QED
  BY <1>5

\* What that solution is.
LEMMA ContainsRec ==
  ASSUME NEW s, NEW m \in AllStates
  PROVE  ContainsSubstate(m, s)
            <=> m \in Machines /\ \E i \in Inner[m] : i = s \/ ContainsSubstate(i, s)
<1> DEFINE c == CHOOSE d : d = [n \in AllStates |->
                                  n \in Machines /\ \E i \in Inner[n] : i = s \/ d[i]]
<1>1. c = [n \in AllStates |-> n \in Machines /\ \E i \in Inner[n] : i = s \/ c[i]]
  <2>1. \E d : d = [n \in AllStates |-> n \in Machines /\ \E i \in Inner[n] : i = s \/ d[i]]
    BY ContainsEquation
  <2>2. QED
    BY <2>1, Zenon
<1>2. \A n : ContainsSubstate(n, s) = c[n]
  BY DEF ContainsSubstate
<1> HIDE DEF c
<1>3. c[m] = (m \in Machines /\ \E i \in Inner[m] : i = s \/ c[i])
  BY <1>1
<1>4. QED
  BY <1>2, <1>3

\* The states of a machine are in it ...
LEMMA InnerStates ==
  ASSUME NEW m \in Machines, NEW i \in Inner[m]
  PROVE  m \in AllStates /\ i \in AllStates /\ ContainsSubstate(m, i)
<1>1. m \in AllStates /\ i \in AllStates
  BY DefinitionAssumption
<1>2. QED
  BY <1>1, ContainsRec

\* ... and so is what is in them.
LEMMA ContainsTransitive ==
  ASSUME NEW b \in AllStates, NEW c
  PROVE  \A a \in AllStates : ContainsSubstate(a, b) /\ ContainsSubstate(b, c)
                                => ContainsSubstate(a, c)
<1> DEFINE S == {a \in AllStates : ContainsSubstate(a, b) /\ ContainsSubstate(b, c)
                                      => ContainsSubstate(a, c)}
<1>1. ASSUME NEW a \in AllStates, a \in Machines => Inner[a] \subseteq S
      PROVE  a \in S
  <2>1. SUFFICES ASSUME ContainsSubstate(a, b), ContainsSubstate(b, c)
                 PROVE  ContainsSubstate(a, c)
    OBVIOUS
  <2>2. a \in Machines /\ \E i \in Inner[a] : i = b \/ ContainsSubstate(i, b)
    BY <2>1, ContainsRec
  <2>3. PICK i \in Inner[a] : i = b \/ ContainsSubstate(i, b)
    BY <2>2
  <2>4. ContainsSubstate(i, c)
    BY <1>1, <2>1, <2>2, <2>3
  <2>5. QED
    BY <2>2, <2>4, ContainsRec
<1>2. S \in SUBSET AllStates
  OBVIOUS
<1>3. S = AllStates
  <2> HIDE DEF S
  <2>1. QED
    BY <1>1, <1>2, NestingAssumption
<1>4. QED
  BY <1>3

\* No state is inside itself.
LEMMA NotInItself ==
  \A s \in AllStates : ~ContainsSubstate(s, s)
<1> DEFINE S == {s \in AllStates : ~ContainsSubstate(s, s)}
<1>1. ASSUME NEW s \in AllStates, s \in Machines => Inner[s] \subseteq S
      PROVE  s \in S
  <2>1. SUFFICES ASSUME ContainsSubstate(s, s) PROVE FALSE
    OBVIOUS
  <2>2. s \in Machines /\ \E i \in Inner[s] : i = s \/ ContainsSubstate(i, s)
    BY <2>1, ContainsRec
  <2>3. PICK i \in Inner[s] : i = s \/ ContainsSubstate(i, s)
    BY <2>2
  <2>4. i \in S
    BY <1>1, <2>2
  <2>5. ContainsSubstate(i, s)
    BY <2>1, <2>3
  <2>6. ContainsSubstate(s, i)
    BY <2>2, InnerStates
  <2>7. ContainsSubstate(i, i)
    BY <2>4, <2>5, <2>6, ContainsTransitive
  <2>8. QED
    BY <2>4, <2>7
<1>2. S \in SUBSET AllStates
  OBVIOUS
<1>3. S = AllStates
  <2> HIDE DEF S
  <2>1. QED
    BY <1>1, <1>2, NestingAssumption
<1>4. QED
  BY <1>3

-----------------------------------------------------------------------------
(* The active states of a frame *)

\* One of its states is next for some machines.
Leads(X, next) ==
    /\ X \subseteq Machines
    /\ \A m \in X : next[m] \in Inner[m] /\ next[m] \in AllStates

\* The states from s on, by what is next, to the first that has none.
IsChain(X, next, s, c) ==
    /\ c \in Seq(AllStates) /\ c # <<>>
    /\ c[1] = s
    /\ c[Len(c)] \notin X
    /\ \A i \in 1..(Len(c) - 1) : c[i] \in X /\ c[i + 1] = next[c[i]]

\* A sequence of states with one more in front.
LEMMA Prepended ==
  ASSUME NEW n \in AllStates, NEW c \in Seq(AllStates), c # <<>>
  PROVE  /\ <<n>> \o c \in Seq(AllStates) /\ <<n>> \o c # <<>>
         /\ Len(c) \in Nat \ {0} /\ Len(<<n>> \o c) = Len(c) + 1
         /\ (<<n>> \o c)[1] = n
         /\ \A i \in 1..Len(c) : (<<n>> \o c)[i + 1] = c[i]
         /\ (<<n>> \o c)[Len(<<n>> \o c)] = c[Len(c)]
         /\ ToSet(<<n>> \o c) = {n} \cup ToSet(c)
<1>1. /\ <<n>> \o c \in Seq(AllStates) /\ <<n>> \o c # <<>>
      /\ Len(c) \in Nat \ {0} /\ Len(<<n>> \o c) = Len(c) + 1
      /\ (<<n>> \o c)[1] = n
      /\ \A i \in 1..Len(c) : (<<n>> \o c)[i + 1] = c[i]
  OBVIOUS
<1>2. (<<n>> \o c)[Len(<<n>> \o c)] = c[Len(c)]
  BY <1>1
<1>3. DOMAIN (<<n>> \o c) = 1..(Len(c) + 1) /\ DOMAIN c = 1..Len(c)
  BY <1>1
<1>4. ASSUME NEW x PROVE x \in ToSet(<<n>> \o c) <=> x = n \/ x \in ToSet(c)
  <2>1. ASSUME NEW j \in 1..(Len(c) + 1), x = (<<n>> \o c)[j]
        PROVE  x = n \/ x \in ToSet(c)
    <3>1. CASE j = 1
      BY <1>1, <2>1, <3>1
    <3>2. CASE j # 1
      <4>1. j - 1 \in 1..Len(c) /\ (j - 1) + 1 = j
        BY <1>1, <2>1, <3>2
      <4>2. x = c[j - 1]
        BY <1>1, <2>1, <4>1
      <4>3. QED
        BY <1>3, <4>1, <4>2 DEF ToSet
    <3>3. QED
      BY <3>1, <3>2
  <2>2. ASSUME NEW i \in 1..Len(c), x = c[i]
        PROVE  x \in ToSet(<<n>> \o c)
    <3>1. i + 1 \in 1..(Len(c) + 1) /\ x = (<<n>> \o c)[i + 1]
      BY <1>1, <2>2
    <3>2. QED
      BY <1>3, <3>1 DEF ToSet
  <2>3. n \in ToSet(<<n>> \o c)
    <3>1. 1 \in 1..(Len(c) + 1)
      BY <1>1
    <3>2. QED
      BY <1>1, <1>3, <3>1 DEF ToSet
  <2>4. QED
    BY <1>3, <2>1, <2>2, <2>3 DEF ToSet
<1>5. QED
  BY <1>1, <1>2, <1>4

\* A chain with one more state in front is one.
LEMMA ChainPrepended ==
  ASSUME NEW X, NEW next, NEW n \in X, n \in AllStates, NEW c,
         IsChain(X, next, next[n], c)
  PROVE  IsChain(X, next, n, <<n>> \o c)
<1>1. c \in Seq(AllStates) /\ c # <<>> /\ c[1] = next[n] /\ c[Len(c)] \notin X
  BY DEF IsChain
<1>2. ASSUME NEW i \in 1..(Len(<<n>> \o c) - 1)
      PROVE  (<<n>> \o c)[i] \in X /\ (<<n>> \o c)[i + 1] = next[(<<n>> \o c)[i]]
  <2>1. i \in 1..Len(c)
    BY <1>1, Prepended
  <2>2. CASE i = 1
    BY <1>1, <2>1, <2>2, Prepended
  <2>3. CASE i # 1
    <3>1. i - 1 \in 1..(Len(c) - 1) /\ i - 1 \in 1..Len(c) /\ (i - 1) + 1 = i
      BY <1>1, <2>1, <2>3
    <3>2. c[i - 1] \in X /\ c[(i - 1) + 1] = next[c[i - 1]]
      BY <3>1 DEF IsChain
    <3>3. (<<n>> \o c)[(i - 1) + 1] = c[i - 1] /\ (<<n>> \o c)[i + 1] = c[i]
      BY <1>1, <2>1, <3>1, Prepended
    <3>4. QED
      BY <3>1, <3>2, <3>3
  <2>4. QED
    BY <2>2, <2>3
<1>3. QED
  BY <1>1, <1>2, Prepended DEF IsChain

\* A chain of a machine without its first state.
LEMMA ChainBelow ==
  ASSUME NEW X, NEW next, NEW n \in X, NEW c, IsChain(X, next, n, c)
  PROVE  /\ Len(c) \in Nat /\ Len(c) > 1
         /\ IsChain(X, next, next[n], Tail(c))
         /\ c = <<n>> \o Tail(c)
<1>1. c \in Seq(AllStates) /\ c # <<>> /\ c[1] = n /\ c[Len(c)] \notin X
  BY DEF IsChain
<1>2. Len(c) \in Nat /\ Len(c) > 1
  BY <1>1
<1>3. /\ Tail(c) \in Seq(AllStates) /\ Len(Tail(c)) = Len(c) - 1
      /\ \A i \in 1..(Len(c) - 1) : Tail(c)[i] = c[i + 1]
  BY <1>1, <1>2
<1>4. Tail(c) # <<>> /\ Tail(c)[1] = next[n] /\ Tail(c)[Len(Tail(c))] = c[Len(c)]
  <2>1. 1 \in 1..(Len(c) - 1) /\ Len(c) - 1 \in 1..(Len(c) - 1)
    BY <1>2
  <2>2. c[1 + 1] = next[c[1]]
    BY <2>1 DEF IsChain
  <2>3. Tail(c)[1] = c[1 + 1] /\ Tail(c)[Len(c) - 1] = c[(Len(c) - 1) + 1]
    BY <1>3, <2>1
  <2>4. (Len(c) - 1) + 1 = Len(c)
    BY <1>2
  <2>5. Tail(c) # <<>>
    <3>1. Len(Tail(c)) # 0
      <4>1. \A k \in Nat : k > 1 => k - 1 # 0
        OBVIOUS
      <4>2. Len(c) - 1 # 0
        BY <1>2, <4>1
      <4>3. QED
        BY <1>3, <4>2
    <3>2. \A t : t = <<>> => Len(t) = 0
      OBVIOUS
    <3>3. QED
      BY <3>1, <3>2
  <2>6. QED
    BY <1>1, <1>3, <2>2, <2>3, <2>4, <2>5
<1>5. ASSUME NEW i \in 1..(Len(Tail(c)) - 1)
      PROVE  Tail(c)[i] \in X /\ Tail(c)[i + 1] = next[Tail(c)[i]]
  <2>1. i \in 1..(Len(c) - 1) /\ i + 1 \in 1..(Len(c) - 1)
    BY <1>2, <1>3
  <2>2. c[i + 1] \in X /\ c[(i + 1) + 1] = next[c[i + 1]]
    BY <2>1 DEF IsChain
  <2>3. QED
    BY <1>3, <2>1, <2>2
<1>6. c = <<n>> \o Tail(c)
  <2>1. c = <<Head(c)>> \o Tail(c) /\ Head(c) = c[1]
    BY <1>1, <1>2
  <2>2. QED
    BY <1>1, <2>1
<1>7. QED
  BY <1>1, <1>2, <1>3, <1>4, <1>5, <1>6 DEF IsChain

\* There is a chain from every state, as nesting ends ...
LEMMA ChainExists ==
  ASSUME NEW X, NEW next, Leads(X, next)
  PROVE  \A s \in AllStates : \E c : IsChain(X, next, s, c)
<1> DEFINE S == {s \in AllStates : \E c : IsChain(X, next, s, c)}
<1>1. ASSUME NEW s \in AllStates, s \in Machines => Inner[s] \subseteq S
      PROVE  s \in S
  <2>1. CASE s \in X
    <3>1. next[s] \in S
      BY <1>1, <2>1 DEF Leads
    <3>2. PICK c : IsChain(X, next, next[s], c)
      BY <3>1
    <3>3. QED
      BY <2>1, <3>2, ChainPrepended
  <2>2. CASE s \notin X
    <3>1. <<s>> \in Seq(AllStates) /\ <<s>> # <<>> /\ Len(<<s>>) = 1 /\ <<s>>[1] = s
      OBVIOUS
    <3>2. IsChain(X, next, s, <<s>>)
      BY <2>2, <3>1 DEF IsChain
    <3>3. QED
      BY <3>2
  <2>3. QED
    BY <2>1, <2>2
<1>2. S \in SUBSET AllStates
  OBVIOUS
<1>3. S = AllStates
  <2> HIDE DEF S
  <2>1. QED
    BY <1>1, <1>2, NestingAssumption
<1>4. QED
  BY <1>3

\* ... and only one.
LEMMA ChainUnique ==
  ASSUME NEW X, NEW next, Leads(X, next)
  PROVE  \A s \in AllStates : \A c, d : IsChain(X, next, s, c) /\ IsChain(X, next, s, d) => c = d
<1> DEFINE S == {s \in AllStates : \A c, d : IsChain(X, next, s, c) /\ IsChain(X, next, s, d) => c = d}
<1>1. ASSUME NEW s \in AllStates, s \in Machines => Inner[s] \subseteq S
      PROVE  s \in S
  <2>1. SUFFICES ASSUME NEW c, NEW d, IsChain(X, next, s, c), IsChain(X, next, s, d)
                 PROVE  c = d
    OBVIOUS
  <2>2. CASE s \in X
    <3>1. next[s] \in S
      BY <1>1, <2>2 DEF Leads
    <3>2. /\ IsChain(X, next, next[s], Tail(c)) /\ c = <<s>> \o Tail(c)
          /\ IsChain(X, next, next[s], Tail(d)) /\ d = <<s>> \o Tail(d)
      BY <2>1, <2>2, ChainBelow
    <3>3. Tail(c) = Tail(d)
      BY <3>1, <3>2
    <3>4. QED
      BY <3>2, <3>3
  <2>3. CASE s \notin X
    <3>1. ASSUME NEW b, IsChain(X, next, s, b) PROVE b = <<s>>
      <4>1. b \in Seq(AllStates) /\ b # <<>> /\ b[1] = s
        BY <3>1 DEF IsChain
      <4>2. ~(1 \in 1..(Len(b) - 1))
        BY <2>3, <3>1, <4>1 DEF IsChain
      <4>3. Len(b) = 1
        <5>1. Len(b) \in Nat \ {0}
          BY <4>1
        <5>2. \A k \in Nat \ {0} : ~(1 \in 1..(k - 1)) => k = 1
          OBVIOUS
        <5>3. QED
          BY <4>2, <5>1, <5>2
      <4>4. QED
        BY <4>1, <4>3
    <3>2. QED
      BY <2>1, <3>1
  <2>4. QED
    BY <2>2, <2>3
<1>2. S \in SUBSET AllStates
  OBVIOUS
<1>3. S = AllStates
  <2> HIDE DEF S
  <2>1. QED
    BY <1>1, <1>2, NestingAssumption
<1>4. QED
  BY <1>3

\* Such a chain for every state is what a recursion along `next` computes.
LEMMA ChainRecursion ==
  ASSUME NEW X, NEW next, Leads(X, next)
  PROVE  \E b : /\ \A n \in AllStates : IsChain(X, next, n, b[n])
                /\ b = [n \in AllStates |-> IF n \in X THEN <<n>> \o b[next[n]] ELSE <<n>>]
<1> DEFINE b == [n \in AllStates |-> CHOOSE c : IsChain(X, next, n, c)]
<1>1. ASSUME NEW n \in AllStates PROVE IsChain(X, next, n, b[n])
  <2>1. \E c : IsChain(X, next, n, c)
    BY ChainExists
  <2>2. IsChain(X, next, n, CHOOSE c : IsChain(X, next, n, c))
    BY <2>1, Zenon
  <2>3. QED
    BY <2>2
<1>2. b = [n \in AllStates |-> b[n]]
  OBVIOUS
<1> HIDE DEF b
<1>3. ASSUME NEW n \in AllStates
      PROVE  b[n] = IF n \in X THEN <<n>> \o b[next[n]] ELSE <<n>>
  <2>1. CASE n \in X
    <3>1. next[n] \in AllStates
      BY <2>1 DEF Leads
    <3>2. IsChain(X, next, n, <<n>> \o b[next[n]])
      BY <1>1, <2>1, <3>1, ChainPrepended
    <3>3. QED
      BY <1>1, <2>1, <3>2, ChainUnique
  <2>2. CASE n \notin X
    <3>1. <<n>> \in Seq(AllStates) /\ <<n>> # <<>> /\ Len(<<n>>) = 1 /\ <<n>>[1] = n
      OBVIOUS
    <3>2. IsChain(X, next, n, <<n>>)
      BY <2>2, <3>1 DEF IsChain
    <3>3. QED
      BY <1>1, <2>2, <3>2, ChainUnique
  <2>3. QED
    BY <2>1, <2>2
<1>4. b = [n \in AllStates |-> IF n \in X THEN <<n>> \o b[next[n]] ELSE <<n>>]
  BY <1>2, <1>3
<1>5. QED
  BY <1>1, <1>4

\* In every machine of a frame one of its states is current.
FrameOK(frame) ==
    /\ frame.current \in [Machines -> AllStates]
    /\ \A m \in Machines : frame.current[m] \in Inner[m]

\* The recursion of Chain has a solution, and what it is.
LEMMA ChainRec ==
  ASSUME NEW frame, FrameOK(frame), NEW s \in AllStates
  PROVE  /\ Chain(frame, s) \in Seq(AllStates) /\ Chain(frame, s) # <<>>
         /\ s \in Machines => Chain(frame, s) = <<s>> \o Chain(frame, frame.current[s])
         /\ s \notin Machines => Chain(frame, s) = <<s>>
<1> DEFINE B == CHOOSE d : d = [n \in AllStates |->
                                  IF n \in Machines THEN <<n>> \o d[frame.current[n]] ELSE <<n>>]
<1>1. Leads(Machines, frame.current)
  BY DEF FrameOK, Leads
<1>2. \E d : d = [n \in AllStates |-> IF n \in Machines THEN <<n>> \o d[frame.current[n]] ELSE <<n>>]
  BY <1>1, ChainRecursion
<1>3. B = [n \in AllStates |-> IF n \in Machines THEN <<n>> \o B[frame.current[n]] ELSE <<n>>]
  BY <1>2, Zenon
<1>4. \A n : Chain(frame, n) = B[n]
  BY DEF Chain
<1> HIDE DEF B
<1>5. ASSUME NEW n \in AllStates
      PROVE  /\ n \in Machines => Chain(frame, n) = <<n>> \o Chain(frame, frame.current[n])
             /\ n \notin Machines => Chain(frame, n) = <<n>>
  BY <1>3, <1>4
<1> DEFINE S == {n \in AllStates : Chain(frame, n) \in Seq(AllStates) /\ Chain(frame, n) # <<>>}
<1>6. ASSUME NEW n \in AllStates, n \in Machines => Inner[n] \subseteq S
      PROVE  n \in S
  <2>1. CASE n \in Machines
    <3>1. frame.current[n] \in S
      BY <1>6, <2>1 DEF FrameOK
    <3> DEFINE c == Chain(frame, frame.current[n])
    <3>2. c \in Seq(AllStates) /\ c # <<>>
      BY <3>1
    <3>3. Chain(frame, n) = <<n>> \o c
      BY <1>5, <2>1
    <3> HIDE DEF c
    <3>4. QED
      BY <3>2, <3>3, Prepended
  <2>2. CASE n \notin Machines
    <3>1. Chain(frame, n) = <<n>>
      BY <1>5, <2>2
    <3>2. <<n>> \in Seq(AllStates) /\ <<n>> # <<>>
      OBVIOUS
    <3>3. QED
      BY <3>1, <3>2
  <2>3. QED
    BY <2>1, <2>2
<1>7. S \in SUBSET AllStates
  OBVIOUS
<1>8. S = AllStates
  <2> HIDE DEF S
  <2>1. QED
    BY <1>6, <1>7, NestingAssumption
<1>9. QED
  BY <1>5, <1>8

On(frame, s) == ToSet(Chain(frame, s))
Leaf(frame, s) == Chain(frame, s)[Len(Chain(frame, s))]

\* What is active from s down, by the same recursion.
LEMMA OnRec ==
  ASSUME NEW frame, FrameOK(frame), NEW s \in AllStates
  PROVE  /\ s \in On(frame, s) /\ On(frame, s) \subseteq AllStates
         /\ s \in Machines => /\ frame.current[s] \in Inner[s] /\ frame.current[s] \in AllStates
                              /\ On(frame, s) = {s} \cup On(frame, frame.current[s])
                              /\ Leaf(frame, s) = Leaf(frame, frame.current[s])
         /\ s \notin Machines => On(frame, s) = {s} /\ Leaf(frame, s) = s
<1>1. CASE s \in Machines
  <2>1. frame.current[s] \in Inner[s] /\ frame.current[s] \in AllStates
    BY <1>1 DEF FrameOK
  <2> DEFINE c == Chain(frame, frame.current[s])
  <2>2. c \in Seq(AllStates) /\ c # <<>>
    BY <2>1, ChainRec
  <2>3. Chain(frame, s) = <<s>> \o c
    BY <1>1, ChainRec
  <2> HIDE DEF c
  <2>4. On(frame, s) = {s} \cup ToSet(c)
    BY <2>2, <2>3, Prepended DEF On
  <2>5. Leaf(frame, s) = c[Len(c)]
    BY <2>2, <2>3, Prepended DEF Leaf
  <2>6. ToSet(c) \subseteq AllStates
    BY <2>2 DEF ToSet
  <2>7. ToSet(c) = On(frame, frame.current[s]) /\ c[Len(c)] = Leaf(frame, frame.current[s])
    BY DEF On, Leaf, c
  <2>8. QED
    BY <1>1, <2>1, <2>4, <2>5, <2>6, <2>7
<1>2. CASE s \notin Machines
  <2>1. Chain(frame, s) = <<s>>
    BY <1>2, ChainRec
  <2>2. ToSet(<<s>>) = {s} /\ <<s>>[Len(<<s>>)] = s
    BY DEF ToSet
  <2>3. QED
    BY <1>2, <2>1, <2>2 DEF On, Leaf
<1>3. QED
  BY <1>1, <1>2

\* The last active state is a simple one.
LEMMA LeafNoMachine ==
  ASSUME NEW frame, FrameOK(frame)
  PROVE  \A s \in AllStates : Leaf(frame, s) \in On(frame, s) \ Machines
<1> DEFINE S == {s \in AllStates : Leaf(frame, s) \in On(frame, s) \ Machines}
<1>1. ASSUME NEW s \in AllStates, s \in Machines => Inner[s] \subseteq S
      PROVE  s \in S
  <2>1. CASE s \in Machines
    <3>1. frame.current[s] \in S
      BY <1>1, <2>1, OnRec
    <3>2. QED
      BY <2>1, <3>1, OnRec
  <2>2. CASE s \notin Machines
    BY <2>2, OnRec
  <2>3. QED
    BY <2>1, <2>2
<1>2. S \in SUBSET AllStates
  OBVIOUS
<1>3. S = AllStates
  <2> HIDE DEF S
  <2>1. QED
    BY <1>1, <1>2, NestingAssumption
<1>4. QED
  BY <1>3

\* What is active below s is s or inside it.
LEMMA OnBelow ==
  ASSUME NEW frame, FrameOK(frame), NEW n
  PROVE  \A s \in AllStates : n \in On(frame, s) => n = s \/ ContainsSubstate(s, n)
<1> DEFINE S == {s \in AllStates : n \in On(frame, s) => n = s \/ ContainsSubstate(s, n)}
<1>1. ASSUME NEW s \in AllStates, s \in Machines => Inner[s] \subseteq S
      PROVE  s \in S
  <2>1. CASE s \in Machines
    <3>1. frame.current[s] \in S
      BY <1>1, <2>1, OnRec
    <3>2. SUFFICES ASSUME n \in On(frame, s), n # s PROVE ContainsSubstate(s, n)
      OBVIOUS
    <3>3. n = frame.current[s] \/ ContainsSubstate(frame.current[s], n)
      BY <2>1, <3>1, <3>2, OnRec
    <3>4. QED
      BY <2>1, <3>3, OnRec, ContainsRec
  <2>2. CASE s \notin Machines
    BY <2>2, OnRec
  <2>3. QED
    BY <2>1, <2>2
<1>2. S \in SUBSET AllStates
  OBVIOUS
<1>3. S = AllStates
  <2> HIDE DEF S
  <2>1. QED
    BY <1>1, <1>2, NestingAssumption
<1>4. QED
  BY <1>3

\* Below an active state is what is active below s ...
LEMMA OnInner ==
  ASSUME NEW frame, FrameOK(frame), NEW m \in AllStates
  PROVE  \A s \in AllStates : m \in On(frame, s) =>
            On(frame, m) \subseteq On(frame, s) /\ Leaf(frame, m) = Leaf(frame, s)
<1> DEFINE S == {s \in AllStates : m \in On(frame, s) =>
                    On(frame, m) \subseteq On(frame, s) /\ Leaf(frame, m) = Leaf(frame, s)}
<1>1. ASSUME NEW s \in AllStates, s \in Machines => Inner[s] \subseteq S
      PROVE  s \in S
  <2>1. SUFFICES ASSUME m \in On(frame, s), m # s
                 PROVE  On(frame, m) \subseteq On(frame, s) /\ Leaf(frame, m) = Leaf(frame, s)
    OBVIOUS
  <2>2. s \in Machines
    BY <2>1, OnRec
  <2>3. frame.current[s] \in S
    BY <1>1, <2>2, OnRec
  <2>4. m \in On(frame, frame.current[s])
    BY <2>1, <2>2, OnRec
  <2>5. QED
    BY <2>2, <2>3, <2>4, OnRec
<1>2. S \in SUBSET AllStates
  OBVIOUS
<1>3. S = AllStates
  <2> HIDE DEF S
  <2>1. QED
    BY <1>1, <1>2, NestingAssumption
<1>4. QED
  BY <1>3

\* ... and of two active states one is below the other.
LEMMA OnInLine ==
  ASSUME NEW frame, FrameOK(frame), NEW m \in AllStates, NEW n \in AllStates
  PROVE  \A s \in AllStates : m \in On(frame, s) /\ n \in On(frame, s) =>
            n \in On(frame, m) \/ m \in On(frame, n)
<1> DEFINE S == {s \in AllStates : m \in On(frame, s) /\ n \in On(frame, s) =>
                    n \in On(frame, m) \/ m \in On(frame, n)}
<1>1. ASSUME NEW s \in AllStates, s \in Machines => Inner[s] \subseteq S
      PROVE  s \in S
  <2>1. SUFFICES ASSUME m \in On(frame, s), n \in On(frame, s), m # s, n # s
                 PROVE  n \in On(frame, m) \/ m \in On(frame, n)
    OBVIOUS
  <2>2. s \in Machines
    BY <2>1, OnRec
  <2>3. frame.current[s] \in S
    BY <1>1, <2>2, OnRec
  <2>4. m \in On(frame, frame.current[s]) /\ n \in On(frame, frame.current[s])
    BY <2>1, <2>2, OnRec
  <2>5. QED
    BY <2>3, <2>4
<1>2. S \in SUBSET AllStates
  OBVIOUS
<1>3. S = AllStates
  <2> HIDE DEF S
  <2>1. QED
    BY <1>1, <1>2, NestingAssumption
<1>4. QED
  BY <1>3

\* What is active and inside m is below the current state of m.
LEMMA OnWithin ==
  ASSUME NEW frame, FrameOK(frame), NEW s \in AllStates,
         NEW m \in Machines, m \in On(frame, s),
         NEW n \in On(frame, s), ContainsSubstate(m, n)
  PROVE  n \in On(frame, frame.current[m])
<1>1. m \in AllStates /\ n \in AllStates
  BY OnRec
<1>2. n # m
  BY <1>1, NotInItself
<1>3. m \notin On(frame, n)
  <2>1. SUFFICES ASSUME m \in On(frame, n) PROVE FALSE
    OBVIOUS
  <2>2. ContainsSubstate(n, m)
    BY <1>1, <1>2, <2>1, OnBelow
  <2>3. ContainsSubstate(n, n)
    BY <1>1, <2>2, ContainsTransitive
  <2>4. QED
    BY <1>1, <2>3, NotInItself
<1>4. n \in On(frame, m)
  BY <1>1, <1>3, OnInLine
<1>5. QED
  BY <1>1, <1>2, <1>4, OnRec

\* A state stays active if the current states above it stay.
LEMMA OnKept ==
  ASSUME NEW frame, FrameOK(frame), NEW other, FrameOK(other), NEW m \in AllStates
  PROVE  \A s \in AllStates :
            /\ m \in On(frame, s)
            /\ \A n \in Machines : n \in On(frame, s) /\ ContainsSubstate(n, m)
                                      => other.current[n] = frame.current[n]
            => m \in On(other, s)
<1> DEFINE Same(s) == \A n \in Machines : n \in On(frame, s) /\ ContainsSubstate(n, m)
                                            => other.current[n] = frame.current[n]
           S == {s \in AllStates : m \in On(frame, s) /\ Same(s) => m \in On(other, s)}
<1>1. ASSUME NEW s \in AllStates, s \in Machines => Inner[s] \subseteq S
      PROVE  s \in S
  <2>1. SUFFICES ASSUME m \in On(frame, s), Same(s) PROVE m \in On(other, s)
    OBVIOUS
  <2>2. CASE m = s
    BY <2>2, OnRec
  <2>3. CASE m # s
    <3>1. s \in Machines
      BY <2>1, <2>3, OnRec
    <3>2. frame.current[s] \in S
      BY <1>1, <3>1, OnRec
    <3>3. m \in On(frame, frame.current[s]) /\ On(frame, frame.current[s]) \subseteq On(frame, s)
      BY <2>1, <2>3, <3>1, OnRec
    <3>4. m \in On(other, frame.current[s])
      BY <2>1, <3>2, <3>3
    <3>5. s \in On(frame, s) /\ ContainsSubstate(s, m)
      BY <2>1, <2>3, OnRec, OnBelow
    <3>6. other.current[s] = frame.current[s]
      BY <2>1, <3>1, <3>5
    <3>7. QED
      BY <3>1, <3>4, <3>6, OnRec
  <2>4. QED
    BY <2>2, <2>3
<1>2. S \in SUBSET AllStates
  OBVIOUS
<1>3. S = AllStates
  <2> HIDE DEF S
  <2>1. QED
    BY <1>1, <1>2, NestingAssumption
<1>4. QED
  BY <1>3

\* A chain depends only on the machines at its beginning and inside it.
LEMMA ChainSame ==
  ASSUME NEW frame, FrameOK(frame), NEW other, FrameOK(other)
  PROVE  \A s \in AllStates :
            (\A n \in Machines : n = s \/ ContainsSubstate(s, n)
                                    => other.current[n] = frame.current[n])
            => Chain(other, s) = Chain(frame, s)
<1> DEFINE Same(s) == \A n \in Machines : n = s \/ ContainsSubstate(s, n)
                                            => other.current[n] = frame.current[n]
           S == {s \in AllStates : Same(s) => Chain(other, s) = Chain(frame, s)}
<1>1. ASSUME NEW s \in AllStates, s \in Machines => Inner[s] \subseteq S
      PROVE  s \in S
  <2>1. SUFFICES ASSUME Same(s) PROVE Chain(other, s) = Chain(frame, s)
    OBVIOUS
  <2>2. CASE s \in Machines
    <3>1. frame.current[s] \in S
      BY <1>1, <2>2, OnRec
    <3>2. other.current[s] = frame.current[s]
      BY <2>1, <2>2
    <3>3. Same(frame.current[s])
      BY <2>1, <2>2, OnRec, ContainsRec
    <3>4. Chain(other, frame.current[s]) = Chain(frame, frame.current[s])
      BY <3>1, <3>3
    <3>5. QED
      BY <2>2, <3>2, <3>4, ChainRec
  <2>3. CASE s \notin Machines
    BY <2>3, ChainRec
  <2>4. QED
    BY <2>2, <2>3
<1>2. S \in SUBSET AllStates
  OBVIOUS
<1>3. S = AllStates
  <2> HIDE DEF S
  <2>1. QED
    BY <1>1, <1>2, NestingAssumption
<1>4. QED
  BY <1>3

-----------------------------------------------------------------------------
(* A transition in a frame *)

\* A machine that is not active is in its initial state.
AsNew(frame) ==
    \A n \in Machines : n \notin On(frame, Region) => frame.current[n] = InitialOf[n]

LEMMA RegionIsMachine ==
  Region \in Machines /\ Region \in AllStates
BY StackAssumption, DefinitionAssumption

\* A frame as it is pushed.
LEMMA NewFrameFacts ==
  FrameOK(NewFrame) /\ AsNew(NewFrame)
BY StackAssumption DEF FrameOK, AsNew, NewFrame

\* After a transition of m from its current state to `target`, the frame is in
\* order, m is active, and below it the states that were entered are.
LEMMA MovedFrame ==
  ASSUME NEW frame, FrameOK(frame), AsNew(frame),
         NEW m \in Machines, m \in On(frame, Region), NEW target \in Inner[m],
         NEW moved,
         moved.current = [n \in Machines |->
            IF n = m THEN target
            ELSE IF n = frame.current[m] \/ ContainsSubstate(frame.current[m], n)
                 THEN InitialOf[n] ELSE frame.current[n]]
  PROVE  /\ FrameOK(moved) /\ AsNew(moved)
         /\ m \in On(moved, Region)
         /\ Chain(moved, target) = Chain(NewFrame, target)
         /\ Leaf(moved, Region) = Leaf(NewFrame, target)
<1> DEFINE source == frame.current[m]
           Gone(n) == n = source \/ ContainsSubstate(source, n)
<1>1. /\ m \in AllStates /\ source \in AllStates /\ target \in AllStates
      /\ source \in Inner[m] /\ ContainsSubstate(m, source) /\ ContainsSubstate(m, target)
  BY InnerStates DEF FrameOK
<1>2. \A n \in Machines : n \in AllStates /\ InitialOf[n] \in Inner[n] /\ InitialOf[n] \in AllStates
  BY StackAssumption, DefinitionAssumption
<1>3. FrameOK(moved)
  BY <1>1, <1>2 DEF FrameOK
<1>4. ASSUME NEW n \in AllStates, Gone(n) PROVE ContainsSubstate(m, n) /\ ~ContainsSubstate(n, m) /\ n # m
  <2>1. ContainsSubstate(m, n)
    BY <1>1, <1>4, ContainsTransitive
  <2>2. QED
    BY <1>1, <2>1, ContainsTransitive, NotInItself
<1>5. ASSUME NEW n \in Machines, ContainsSubstate(n, m)
      PROVE  n # m /\ ~Gone(n) /\ moved.current[n] = frame.current[n]
  BY <1>1, <1>2, <1>4, <1>5, NotInItself
<1>6. m \in On(moved, Region)
  BY <1>1, <1>3, <1>5, RegionIsMachine, OnKept
<1>7. Chain(moved, target) = Chain(NewFrame, target)
  <2>1. ASSUME NEW n \in Machines, n = target \/ ContainsSubstate(target, n)
        PROVE  moved.current[n] = InitialOf[n]
    <3>1. ContainsSubstate(m, n)
      BY <1>1, <1>2, <2>1, ContainsTransitive
    <3>2. n # m
      BY <1>1, <3>1, NotInItself
    <3>3. CASE Gone(n)
      BY <3>2, <3>3
    <3>4. CASE ~Gone(n)
      <4>1. n \notin On(frame, Region)
        <5>1. SUFFICES ASSUME n \in On(frame, Region) PROVE FALSE
          OBVIOUS
        <5>2. n \in On(frame, source)
          BY <3>1, <5>1, RegionIsMachine, OnWithin
        <5>3. QED
          BY <1>1, <3>4, <5>2, OnBelow
      <4>2. QED
        BY <3>2, <3>4, <4>1 DEF AsNew
    <3>5. QED
      BY <3>3, <3>4
  <2>2. \A n \in Machines : n = target \/ ContainsSubstate(target, n)
                              => moved.current[n] = NewFrame.current[n]
    BY <2>1 DEF NewFrame
  <2>3. QED
    BY <1>1, <1>3, <2>2, NewFrameFacts, ChainSame
<1>8. Leaf(moved, Region) = Leaf(NewFrame, target)
  <2>1. Leaf(moved, Region) = Leaf(moved, m)
    BY <1>1, <1>3, <1>6, RegionIsMachine, OnInner
  <2>2. Leaf(moved, m) = Leaf(moved, target)
    <3>1. moved.current[m] = target
      OBVIOUS
    <3>2. QED
      BY <1>1, <1>3, <3>1, OnRec
  <2>3. QED
    BY <1>7, <2>1, <2>2 DEF Leaf
<1>9. AsNew(moved)
  <2>1. SUFFICES ASSUME NEW n \in Machines, n \notin On(moved, Region)
                 PROVE  moved.current[n] = InitialOf[n]
    BY DEF AsNew
  <2>2. n # m
    BY <1>6, <2>1
  <2>3. CASE Gone(n)
    BY <2>2, <2>3
  <2>4. CASE ~Gone(n)
    <3>1. moved.current[n] = frame.current[n]
      BY <2>2, <2>4
    <3>2. n \notin On(frame, Region)
      <4>1. SUFFICES ASSUME n \in On(frame, Region) PROVE FALSE
        OBVIOUS
      <4>2. ~ContainsSubstate(m, n)
        <5>1. SUFFICES ASSUME ContainsSubstate(m, n) PROVE FALSE
          OBVIOUS
        <5>2. n \in On(frame, source)
          BY <4>1, <5>1, RegionIsMachine, OnWithin
        <5>3. QED
          BY <1>1, <2>4, <5>2, OnBelow
      <4>3. m \in On(frame, n)
        <5>1. n \in On(frame, m) \/ m \in On(frame, n)
          BY <1>1, <1>2, <4>1, RegionIsMachine, OnInLine
        <5>2. n \notin On(frame, m)
          BY <1>1, <2>2, <4>2, OnBelow
        <5>3. QED
          BY <5>1, <5>2
      <4>4. ContainsSubstate(n, m)
        BY <1>2, <2>2, <4>3, OnBelow
      <4>5. ASSUME NEW k \in Machines, ContainsSubstate(k, n)
            PROVE  moved.current[k] = frame.current[k]
        <5>1. ContainsSubstate(k, m)
          BY <1>2, <4>4, <4>5, ContainsTransitive
        <5>2. QED
          BY <1>5, <5>1
      <4>6. n \in On(moved, Region)
        BY <1>2, <1>3, <4>1, <4>5, RegionIsMachine, OnKept
      <4>7. QED
        BY <2>1, <4>6
    <3>3. QED
      BY <3>1, <3>2 DEF AsNew
  <2>5. QED
    BY <2>3, <2>4
<1>10. QED
  BY <1>3, <1>6, <1>7, <1>8, <1>9

-----------------------------------------------------------------------------
(* Data, and the counts of entries and exits *)

\* A handler changes the values of data members, not which there are.
HandlersKeepMembers ==
    \A d, s, e : DOMAIN d = DOMAIN InitData =>
        DOMAIN OnEnter(d, s, e) = DOMAIN InitData /\ DOMAIN OnExit(d, s, e) = DOMAIN InitData

\* Induction over the natural numbers, for a set.
LEMMA NatSteps ==
  ASSUME NEW S \in SUBSET Nat, 0 \in S, \A n \in S : n + 1 \in S
  PROVE  S = Nat
<1> DEFINE T == Nat \ S
<1>1. SUFFICES ASSUME T # {} PROVE FALSE
  OBVIOUS
<1>2. T \subseteq Nat
  OBVIOUS
<1>3. PICK k \in T : \A j \in T : ~(<<j, k>> \in OpToRel(<, Nat))
  BY <1>1, <1>2, NatLessThanWellFounded, WFMin
<1>4. \A j \in T : ~(j < k)
  BY <1>2, <1>3 DEF OpToRel
<1>5. k - 1 \in Nat /\ k - 1 < k /\ (k - 1) + 1 = k
  <2>1. k \in Nat /\ k # 0
    OBVIOUS
  <2>2. QED
    BY <2>1
<1>6. k - 1 \in S
  BY <1>4, <1>5
<1>7. QED
  BY <1>5, <1>6

\* The calls of on_enter along a chain.
LEMMA EnterCalls ==
  ASSUME HandlersKeepMembers, NEW data, DOMAIN data = DOMAIN InitData,
         NEW chain, Len(chain) \in Nat, NEW e
  PROVE  DOMAIN Calls(OnEnter, data, chain, e) = DOMAIN InitData
<1> DEFINE n == Len(chain)
           Rec(a, k) == a = [i \in 0..k |-> IF i = 0 THEN data ELSE OnEnter(a[i - 1], chain[i], e)]
           S == {k \in Nat : \E a : Rec(a, k)}
<1>1. 0 \in S
  <2> DEFINE a == [i \in 0..0 |-> data]
  <2>1. Rec(a, 0)
    OBVIOUS
  <2>2. QED
    BY <2>1
<1>2. ASSUME NEW k \in S PROVE k + 1 \in S
  <2>1. PICK a : Rec(a, k)
    OBVIOUS
  <2> DEFINE b == [i \in 0..(k + 1) |-> IF i = k + 1 THEN OnEnter(a[k], chain[k + 1], e) ELSE a[i]]
  <2>2. ASSUME NEW i \in 0..(k + 1)
        PROVE  b[i] = IF i = 0 THEN data ELSE OnEnter(b[i - 1], chain[i], e)
    <3>1. CASE i = k + 1
      <4>1. i # 0 /\ i - 1 = k /\ k \in 0..(k + 1) /\ k # k + 1
        BY <3>1
      <4>2. b[i] = OnEnter(a[k], chain[k + 1], e) /\ b[k] = a[k]
        BY <3>1, <4>1
      <4>3. QED
        BY <3>1, <4>1, <4>2
    <3>2. CASE i # k + 1 /\ i # 0
      <4>1. i \in 0..k /\ i - 1 \in 0..(k + 1) /\ i - 1 # k + 1
        BY <3>2
      <4>2. b[i] = a[i] /\ b[i - 1] = a[i - 1]
        BY <3>2, <4>1
      <4>3. a[i] = OnEnter(a[i - 1], chain[i], e)
        BY <2>1, <3>2, <4>1
      <4>4. QED
        BY <3>2, <4>2, <4>3
    <3>3. CASE i = 0
      <4>1. 0 \in 0..k /\ 0 # k + 1
        OBVIOUS
      <4>2. b[0] = a[0] /\ a[0] = data
        BY <2>1, <4>1
      <4>3. QED
        BY <3>3, <4>2
    <3>4. QED
      BY <3>1, <3>2, <3>3
  <2>3. b = [i \in 0..(k + 1) |-> b[i]]
    OBVIOUS
  <2> HIDE DEF b
  <2>4. Rec(b, k + 1)
    BY <2>2, <2>3
  <2>5. k + 1 \in Nat
    OBVIOUS
  <2> HIDE DEF Rec
  <2>6. QED
    BY <2>4, <2>5
<1>3. S = Nat
  <2>1. S \in SUBSET Nat
    OBVIOUS
  <2> HIDE DEF S
  <2>2. QED
    BY <1>1, <1>2, <2>1, NatSteps
<1> DEFINE a == CHOOSE d : d = [i \in 0..n |-> IF i = 0 THEN data ELSE OnEnter(d[i - 1], chain[i], e)]
<1>4. \E d : d = [i \in 0..n |-> IF i = 0 THEN data ELSE OnEnter(d[i - 1], chain[i], e)]
  BY <1>3
<1>5. a = [i \in 0..n |-> IF i = 0 THEN data ELSE OnEnter(a[i - 1], chain[i], e)]
  BY <1>4, Zenon
<1>6. Calls(OnEnter, data, chain, e) = a[n]
  BY DEF Calls
<1> HIDE DEF a
<1> DEFINE K == {k \in Nat : k \in 0..n => DOMAIN a[k] = DOMAIN InitData}
<1>7. 0 \in K
  <2>1. 0 \in 0..n
    OBVIOUS
  <2>2. a[0] = data
    BY <1>5, <2>1
  <2>3. QED
    BY <2>2
<1>8. ASSUME NEW k \in K PROVE k + 1 \in K
  <2>1. SUFFICES ASSUME k + 1 \in 0..n PROVE DOMAIN a[k + 1] = DOMAIN InitData
    OBVIOUS
  <2>2. k \in 0..n /\ k + 1 # 0 /\ (k + 1) - 1 = k
    BY <2>1
  <2>3. a[k + 1] = OnEnter(a[k], chain[k + 1], e)
    BY <1>5, <2>1, <2>2
  <2>4. DOMAIN a[k] = DOMAIN InitData
    BY <2>2
  <2>5. QED
    BY <2>3, <2>4 DEF HandlersKeepMembers
<1>9. K = Nat
  <2>1. K \in SUBSET Nat
    OBVIOUS
  <2> HIDE DEF K
  <2>2. QED
    BY <1>7, <1>8, <2>1, NatSteps
<1>10. n \in K /\ n \in 0..n
  BY <1>9
<1>11. QED
  BY <1>6, <1>10

\* The calls of on_exit along a chain.
LEMMA ExitCalls ==
  ASSUME HandlersKeepMembers, NEW data, DOMAIN data = DOMAIN InitData,
         NEW chain, Len(chain) \in Nat, NEW e
  PROVE  DOMAIN Calls(OnExit, data, chain, e) = DOMAIN InitData
<1> DEFINE n == Len(chain)
           Rec(a, k) == a = [i \in 0..k |-> IF i = 0 THEN data ELSE OnExit(a[i - 1], chain[i], e)]
           S == {k \in Nat : \E a : Rec(a, k)}
<1>1. 0 \in S
  <2> DEFINE a == [i \in 0..0 |-> data]
  <2>1. Rec(a, 0)
    OBVIOUS
  <2>2. QED
    BY <2>1
<1>2. ASSUME NEW k \in S PROVE k + 1 \in S
  <2>1. PICK a : Rec(a, k)
    OBVIOUS
  <2> DEFINE b == [i \in 0..(k + 1) |-> IF i = k + 1 THEN OnExit(a[k], chain[k + 1], e) ELSE a[i]]
  <2>2. ASSUME NEW i \in 0..(k + 1)
        PROVE  b[i] = IF i = 0 THEN data ELSE OnExit(b[i - 1], chain[i], e)
    <3>1. CASE i = k + 1
      <4>1. i # 0 /\ i - 1 = k /\ k \in 0..(k + 1) /\ k # k + 1
        BY <3>1
      <4>2. b[i] = OnExit(a[k], chain[k + 1], e) /\ b[k] = a[k]
        BY <3>1, <4>1
      <4>3. QED
        BY <3>1, <4>1, <4>2
    <3>2. CASE i # k + 1 /\ i # 0
      <4>1. i \in 0..k /\ i - 1 \in 0..(k + 1) /\ i - 1 # k + 1
        BY <3>2
      <4>2. b[i] = a[i] /\ b[i - 1] = a[i - 1]
        BY <3>2, <4>1
      <4>3. a[i] = OnExit(a[i - 1], chain[i], e)
        BY <2>1, <3>2, <4>1
      <4>4. QED
        BY <3>2, <4>2, <4>3
    <3>3. CASE i = 0
      <4>1. 0 \in 0..k /\ 0 # k + 1
        OBVIOUS
      <4>2. b[0] = a[0] /\ a[0] = data
        BY <2>1, <4>1
      <4>3. QED
        BY <3>3, <4>2
    <3>4. QED
      BY <3>1, <3>2, <3>3
  <2>3. b = [i \in 0..(k + 1) |-> b[i]]
    OBVIOUS
  <2> HIDE DEF b
  <2>4. Rec(b, k + 1)
    BY <2>2, <2>3
  <2>5. k + 1 \in Nat
    OBVIOUS
  <2> HIDE DEF Rec
  <2>6. QED
    BY <2>4, <2>5
<1>3. S = Nat
  <2>1. S \in SUBSET Nat
    OBVIOUS
  <2> HIDE DEF S
  <2>2. QED
    BY <1>1, <1>2, <2>1, NatSteps
<1> DEFINE a == CHOOSE d : d = [i \in 0..n |-> IF i = 0 THEN data ELSE OnExit(d[i - 1], chain[i], e)]
<1>4. \E d : d = [i \in 0..n |-> IF i = 0 THEN data ELSE OnExit(d[i - 1], chain[i], e)]
  BY <1>3
<1>5. a = [i \in 0..n |-> IF i = 0 THEN data ELSE OnExit(a[i - 1], chain[i], e)]
  BY <1>4, Zenon
<1>6. Calls(OnExit, data, chain, e) = a[n]
  BY DEF Calls
<1> HIDE DEF a
<1> DEFINE K == {k \in Nat : k \in 0..n => DOMAIN a[k] = DOMAIN InitData}
<1>7. 0 \in K
  <2>1. 0 \in 0..n
    OBVIOUS
  <2>2. a[0] = data
    BY <1>5, <2>1
  <2>3. QED
    BY <2>2
<1>8. ASSUME NEW k \in K PROVE k + 1 \in K
  <2>1. SUFFICES ASSUME k + 1 \in 0..n PROVE DOMAIN a[k + 1] = DOMAIN InitData
    OBVIOUS
  <2>2. k \in 0..n /\ k + 1 # 0 /\ (k + 1) - 1 = k
    BY <2>1
  <2>3. a[k + 1] = OnExit(a[k], chain[k + 1], e)
    BY <1>5, <2>1, <2>2
  <2>4. DOMAIN a[k] = DOMAIN InitData
    BY <2>2
  <2>5. QED
    BY <2>3, <2>4 DEF HandlersKeepMembers
<1>9. K = Nat
  <2>1. K \in SUBSET Nat
    OBVIOUS
  <2> HIDE DEF K
  <2>2. QED
    BY <1>7, <1>8, <2>1, NatSteps
<1>10. n \in K /\ n \in 0..n
  BY <1>9
<1>11. QED
  BY <1>6, <1>10

LEMMA CountType ==
  ASSUME NEW counts \in [AllStates -> Nat], NEW chain \in Seq(AllStates)
  PROVE  Count(counts, chain) \in [AllStates -> Nat]
<1>1. ASSUME NEW s \in AllStates
      PROVE  Cardinality({i \in DOMAIN chain : chain[i] = s}) \in Nat
  <2>1. Len(chain) \in Nat /\ DOMAIN chain = 1..Len(chain)
    OBVIOUS
  <2>2. IsFiniteSet(DOMAIN chain)
    BY <2>1, FS_Interval
  <2>3. QED
    BY <2>2, FS_Subset, FS_CardinalityType
<1>2. QED
  BY <1>1 DEF Count

LEMMA ReverseType ==
  ASSUME NEW c \in Seq(AllStates)
  PROVE  Reverse(c) \in Seq(AllStates) /\ Len(Reverse(c)) = Len(c)
<1>1. Len(c) \in Nat
  OBVIOUS
<1>2. Reverse(c) = [i \in 1..Len(c) |-> c[(Len(c) - i) + 1]]
  BY DEF Reverse
<1>3. \A i \in 1..Len(c) : (Len(c) - i) + 1 \in 1..Len(c)
  BY <1>1
<1>4. \A i \in 1..Len(c) : c[(Len(c) - i) + 1] \in AllStates
  BY <1>3
<1>5. QED
  BY <1>1, <1>2, <1>4

-----------------------------------------------------------------------------
(* The stack *)

\* A frame of the stack.
FrameInv(frame) ==
    /\ DOMAIN frame = {"current", "data"} /\ DOMAIN frame.data = DOMAIN InitData
    /\ FrameOK(frame) /\ AsNew(frame)

StackInv ==
    /\ \E S : stack \in Seq(S)
    /\ stack # <<>>
    /\ \A i \in 1..Len(stack) : FrameInv(stack[i])

\* A frame that has pushed another is in a push state.
Waits(frame) == Root \in PushesTo[Leaf(frame, Region)]

CountInv == entered \in [AllStates -> Nat] /\ exited \in [AllStates -> Nat]

QueueInv == posted \in Seq(Events) /\ tokens \in Seq(Events) /\ answer \in {"process", "refuse"}

PushInv ==
    /\ StackInv /\ CountInv /\ QueueInv
    /\ \A i \in 1..(Len(stack) - 1) : Waits(stack[i])

\* The frame that a push makes.
LEMMA PushedFrame ==
  ASSUME HandlersKeepMembers, NEW frames, NEW e
  PROVE  \E new : FrameInv(new) /\ Pushed(frames, e) = Append(frames, new)
<1> DEFINE chain == Chain(NewFrame, Region)
           data == Calls(OnEnter, InitData, chain, e)
           new == [NewFrame EXCEPT !.data = data]
<1>1. chain \in Seq(AllStates)
  BY NewFrameFacts, RegionIsMachine, ChainRec
<1>2. DOMAIN data = DOMAIN InitData
  BY <1>1, EnterCalls
<1>3. /\ DOMAIN new = {"current", "data"}
      /\ new.current = NewFrame.current /\ new.data = data
  BY DEF NewFrame
<1> HIDE DEF data
<1>4. FrameOK(new) /\ AsNew(new)
  <2>1. new.current = InitialOf
    BY <1>3 DEF NewFrame
  <2>2. QED
    BY <2>1, StackAssumption DEF FrameOK, AsNew
<1>5. Pushed(frames, e) = Append(frames, new)
  BY DEF Pushed, data
<1> HIDE DEF new
<1>6. QED
  BY <1>2, <1>3, <1>4, <1>5 DEF FrameInv

\* What the transition makes of the topmost frame.
MovedTop(frame, data, m, target) ==
    [Cleared([frame EXCEPT !.data = data], frame.current[m]) EXCEPT !.current[m] = target]

\* The topmost frame after that, data included.
LEMMA TopMoved ==
  ASSUME NEW frame, FrameInv(frame), NEW m \in Machines, m \in On(frame, Region),
         NEW target \in Inner[m], NEW data, DOMAIN data = DOMAIN InitData
  PROVE  LET moved == MovedTop(frame, data, m, target)
         IN  /\ FrameInv(moved)
             /\ m \in On(moved, Region)
             /\ Chain(moved, target) = Chain(NewFrame, target)
             /\ Leaf(moved, Region) = Leaf(NewFrame, target)
<1> DEFINE source == frame.current[m]
           gone == {n \in Machines : n = source \/ ContainsSubstate(source, n)}
           told == [frame EXCEPT !.data = data]
           cleared == Cleared(told, source)
           moved == [cleared EXCEPT !.current[m] = target]
<1>1. told.current = frame.current /\ told.data = data
  BY DEF FrameInv
<1> HIDE DEF told
<1>2. cleared = [current |-> [n \in Machines |-> IF n \in gone THEN InitialOf[n] ELSE frame.current[n]],
                 data |-> [n \in DOMAIN InitData |-> IF n \in gone THEN InitData[n] ELSE data[n]]]
  BY <1>1 DEF Cleared
<1> HIDE DEF cleared, source
<1>3. /\ moved.data = cleared.data /\ moved.current = [cleared.current EXCEPT ![m] = target]
      /\ DOMAIN moved = {"current", "data"}
  BY <1>2
<1>4. DOMAIN moved.data = DOMAIN InitData
  BY <1>2, <1>3
<1> HIDE DEF moved
<1>5. moved.current = [n \in Machines |-> IF n = m THEN target
                          ELSE IF n = source \/ ContainsSubstate(source, n)
                               THEN InitialOf[n] ELSE frame.current[n]]
  BY <1>2, <1>3
<1>6. /\ FrameOK(moved) /\ AsNew(moved)
      /\ m \in On(moved, Region)
      /\ Chain(moved, target) = Chain(NewFrame, target)
      /\ Leaf(moved, Region) = Leaf(NewFrame, target)
  BY <1>5, MovedFrame DEF FrameInv, source
<1>7. moved = MovedTop(frame, data, m, target)
  BY DEF MovedTop, moved, cleared, told, source
<1>8. QED
  BY <1>3, <1>4, <1>5, <1>6, <1>7 DEF FrameInv

LEMMA TopFrame ==
  ASSUME StackInv
  PROVE  /\ Len(stack) \in Nat \ {0} /\ Len(stack) \in 1..Len(stack)
         /\ FrameInv(Top)
<1>1. PICK S : stack \in Seq(S)
  BY DEF StackInv
<1>2. Len(stack) \in Nat \ {0} /\ Len(stack) \in 1..Len(stack)
  BY <1>1 DEF StackInv
<1>3. QED
  BY <1>2 DEF StackInv, Top

LEMMA ActiveIsOn ==
  ASSUME StackInv, NEW m \in ActiveMachines
  PROVE  m \in Machines /\ m \in On(Top, Region)
BY DEF ActiveMachines, On

\* A transition leaves the stack with its topmost frame moved, with a new frame
\* on top of that, or without the topmost frame.
LEMMA StackMoved ==
  ASSUME StackInv, HandlersKeepMembers, NEW e, NEW m \in ActiveMachines,
         NEW row \in Triggered(m, e), Transition(m, row, e)
  PROVE  \E moved, new :
            LET leaf == Leaf(NewFrame, row.target)
                done == [stack EXCEPT ![Len(stack)] = moved]
            IN  /\ FrameInv(moved) /\ FrameInv(new)
                /\ m \in On(moved, Region)
                /\ Leaf(moved, Region) = leaf
                /\ \/ Root \in PushesTo[leaf] /\ stack' = Append(done, new)
                   \/ /\ Root \notin PushesTo[leaf] /\ Root \in PopsFrom[leaf] /\ Pops(stack)
                      /\ stack' = SubSeq(stack, 1, Len(stack) - 1)
                   \/ /\ Root \notin PushesTo[leaf] /\ ~(Root \in PopsFrom[leaf] /\ Pops(stack))
                      /\ stack' = done
<1> DEFINE depth == Len(stack)
           out == Reverse(Chain(Top, row.source))
           in == EnteredBy(row)
           leaf == in[Len(in)]
           left == Calls(OnExit, Top.data, out, e)
           data == Calls(OnEnter, left, in, e)
           before == [stack EXCEPT ![depth].data = data]
           pushes == Root \in PushesTo[leaf]
           pops == Root \in PopsFrom[leaf] /\ Pops(stack)
           moved == [Cleared(before[depth], row.source) EXCEPT !.current[m] = row.target]
           done == [before EXCEPT ![depth] = moved]
<1>1. /\ m \in Machines /\ m \in On(Top, Region)
      /\ depth \in Nat \ {0} /\ depth \in 1..depth /\ FrameInv(Top) /\ DOMAIN stack = 1..depth
  <2>1. PICK S : stack \in Seq(S)
    BY DEF StackInv
  <2>2. QED
    BY <2>1, TopFrame, ActiveIsOn
<1>2. /\ row \in Rows[m] /\ row.source = Top.current[m]
      /\ row.source \in AllStates /\ row.target \in Inner[m] /\ row.target \in AllStates
  <2>1. row \in Rows[m] /\ row.source = Top.current[m]
    BY DEF Triggered
  <2>2. QED
    BY <1>1, <2>1, StackAssumption, InnerStates
<1>3. in = Chain(NewFrame, row.target) /\ leaf = Leaf(NewFrame, row.target)
  BY DEF EnteredBy, Leaf
<1>4. DOMAIN data = DOMAIN InitData
  <2>1. Chain(Top, row.source) \in Seq(AllStates) /\ in \in Seq(AllStates)
    BY <1>1, <1>2, <1>3, NewFrameFacts, ChainRec DEF FrameInv
  <2>2. Len(out) \in Nat /\ Len(in) \in Nat
    BY <2>1, ReverseType
  <2>3. DOMAIN left = DOMAIN InitData
    BY <1>1, <2>2, ExitCalls DEF FrameInv
  <2> HIDE DEF left, in
  <2>4. QED
    BY <2>2, <2>3, EnterCalls
<1>5. stack' = CASE pushes -> Pushed(done, e)
                 [] pops   -> SubSeq(stack, 1, depth - 1)
                 [] OTHER  -> done
  BY DEF Transition
<1> HIDE DEF data
<1>6. before[depth] = [Top EXCEPT !.data = data] /\ DOMAIN before = DOMAIN stack
      /\ \A i \in DOMAIN stack : i # depth => before[i] = stack[i]
  BY <1>1 DEF Top
<1> HIDE DEF before
<1>7. /\ FrameInv(moved) /\ m \in On(moved, Region)
      /\ Leaf(moved, Region) = Leaf(NewFrame, row.target)
  <2>1. moved = MovedTop(Top, data, m, row.target)
    BY <1>2, <1>6 DEF MovedTop
  <2> HIDE DEF moved
  <2>2. QED
    BY <1>1, <1>2, <1>4, <2>1, TopMoved
<1> HIDE DEF moved
<1>8. done = [stack EXCEPT ![depth] = moved]
  <2>1. PICK S : stack \in Seq(S)
    BY DEF StackInv
  <2>2. before = [i \in DOMAIN stack |-> before[i]]
    BY <1>6 DEF before
  <2>3. QED
    BY <1>1, <1>6, <2>2
<1>a. ~(pushes /\ pops)
  <2>1. leaf \in AllStates
    BY <1>2, <1>3, NewFrameFacts, LeafNoMachine, OnRec
  <2>2. QED
    BY <2>1, DefinitionAssumption
<1> HIDE DEF done, pushes, pops, in
<1>9. PICK new : FrameInv(new) /\ Pushed(done, e) = Append(done, new)
  BY PushedFrame
<1>10. \/ pushes /\ stack' = Append(done, new)
       \/ ~pushes /\ pops /\ stack' = SubSeq(stack, 1, depth - 1)
       \/ ~pushes /\ ~pops /\ stack' = done
  BY <1>5, <1>9, <1>a
<1>11. QED
  BY <1>3, <1>7, <1>8, <1>9, <1>10 DEF pushes, pops

\* What is true of the frames stays so.
LEMMA StackKept ==
  ASSUME StackInv, HandlersKeepMembers, NEW e, NEW m \in ActiveMachines,
         NEW row \in Triggered(m, e), Transition(m, row, e),
         \A i \in 1..(Len(stack) - 1) : Waits(stack[i])
  PROVE  StackInv' /\ \A i \in 1..(Len(stack') - 1) : Waits(stack'[i])
<1> DEFINE depth == Len(stack)
           leaf == Leaf(NewFrame, row.target)
<1>1. PICK moved, new :
         /\ FrameInv(moved) /\ FrameInv(new)
         /\ Leaf(moved, Region) = leaf
         /\ \/ Root \in PushesTo[leaf] /\ stack' = Append([stack EXCEPT ![depth] = moved], new)
            \/ Pops(stack) /\ stack' = SubSeq(stack, 1, depth - 1)
            \/ stack' = [stack EXCEPT ![depth] = moved]
  BY StackMoved
<1>2. PICK S : stack \in Seq(S)
  BY DEF StackInv
<1> DEFINE done == [stack EXCEPT ![depth] = moved]
           T == S \cup {moved, new}
<1>3. /\ depth \in Nat \ {0} /\ depth \in 1..depth /\ stack \in Seq(T)
      /\ \A i \in 1..depth : FrameInv(stack[i])
  BY <1>2, TopFrame DEF StackInv
<1>4. /\ done \in Seq(T) /\ Len(done) = depth /\ done[depth] = moved
      /\ \A i \in 1..(depth - 1) : done[i] = stack[i]
  BY <1>3
<1> HIDE DEF leaf, done, T
<1>5. CASE Root \in PushesTo[leaf] /\ stack' = Append(done, new)
  <2>1. /\ stack' \in Seq(T) /\ Len(stack') = depth + 1 /\ stack' # <<>>
        /\ \A i \in 1..depth : stack'[i] = done[i]
        /\ stack'[depth + 1] = new
    BY <1>3, <1>4, <1>5 DEF T
  <2>2. ASSUME NEW i \in 1..Len(stack')
        PROVE  FrameInv(stack'[i]) /\ (i # Len(stack') => Waits(stack'[i]))
    <3>1. CASE i = depth + 1
      BY <1>1, <2>1, <3>1
    <3>2. CASE i = depth
      BY <1>1, <1>3, <1>4, <1>5, <2>1, <3>2 DEF Waits
    <3>3. CASE i # depth + 1 /\ i # depth
      <4>1. i \in 1..(depth - 1) /\ i \in 1..depth
        BY <1>3, <2>1, <3>3
      <4>2. stack'[i] = stack[i]
        BY <1>4, <2>1, <4>1
      <4>3. QED
        BY <1>3, <4>1, <4>2
    <3>4. QED
      BY <3>1, <3>2, <3>3
  <2>3. \A i \in 1..(Len(stack') - 1) : i \in 1..Len(stack') /\ i # Len(stack')
    BY <1>3, <2>1
  <2>4. QED
    BY <2>1, <2>2, <2>3 DEF StackInv
<1>6. CASE Pops(stack) /\ stack' = SubSeq(stack, 1, depth - 1)
  <2>1. depth > 1
    BY <1>6 DEF Pops
  <2>2. /\ stack' \in Seq(T) /\ Len(stack') = depth - 1 /\ stack' # <<>>
        /\ \A i \in 1..(depth - 1) : stack'[i] = stack[i]
    <3>1. depth - 1 \in 1..depth /\ depth - 1 >= 1 /\ 1 \in 1..(depth + 1)
      BY <1>3, <2>1
    <3>2. /\ stack' \in Seq(T) /\ Len(stack') = depth - 1
          /\ \A i \in 1..(depth - 1) : stack'[i] = stack[i]
      BY <1>3, <1>6, <3>1, SubSeqProperties
    <3>3. QED
      BY <3>1, <3>2
  <2>3. /\ \A i \in 1..Len(stack') : i \in 1..(depth - 1) /\ i \in 1..depth
        /\ \A i \in 1..(Len(stack') - 1) : i \in 1..(depth - 1)
    BY <1>3, <2>2
  <2>4. QED
    BY <1>3, <2>2, <2>3 DEF StackInv
<1>7. CASE stack' = done
  <2>1. stack' \in Seq(T) /\ Len(stack') = depth /\ stack' # <<>>
    BY <1>3, <1>4, <1>7
  <2>2. ASSUME NEW i \in 1..depth PROVE FrameInv(stack'[i])
    <3>1. i = depth \/ i \in 1..(depth - 1)
      BY <1>3
    <3>2. QED
      BY <1>1, <1>3, <1>4, <1>7, <3>1
  <2>3. \A i \in 1..(Len(stack') - 1) : stack'[i] = stack[i] /\ i \in 1..(depth - 1)
    BY <1>4, <1>7, <2>1
  <2>4. QED
    BY <2>1, <2>2, <2>3 DEF StackInv
<1>8. QED
  BY <1>1, <1>5, <1>6, <1>7 DEF done

\* Counts stay numbers.
LEMMA CountsKept ==
  ASSUME StackInv, CountInv, NEW e, NEW m \in ActiveMachines,
         NEW row \in Triggered(m, e), Transition(m, row, e)
  PROVE  CountInv'
<1> DEFINE out == Reverse(Chain(Top, row.source))
           in == EnteredBy(row)
           leaf == in[Len(in)]
           more == IF Root \in PushesTo[leaf] THEN Chain(NewFrame, Region) ELSE <<>>
           less == IF Root \in PopsFrom[leaf] /\ Pops(stack) THEN ExitedByPop(Top) ELSE <<>>
<1>1. row.source \in AllStates /\ row.target \in AllStates
  <2>1. row \in Rows[m] /\ m \in Machines
    BY DEF Triggered, ActiveMachines
  <2>2. QED
    BY <2>1, StackAssumption, InnerStates
<1>2. FrameOK(Top) /\ FrameOK(NewFrame)
  BY TopFrame, NewFrameFacts DEF FrameInv
<1>3. in \in Seq(AllStates) /\ out \in Seq(AllStates)
  BY <1>1, <1>2, ChainRec, ReverseType DEF EnteredBy
<1>4. more \in Seq(AllStates) /\ less \in Seq(AllStates)
  <2>1. Chain(NewFrame, Region) \in Seq(AllStates) /\ ExitedByPop(Top) \in Seq(AllStates)
    BY <1>2, RegionIsMachine, ChainRec, ReverseType DEF ExitedByPop
  <2>2. <<>> \in Seq(AllStates)
    OBVIOUS
  <2>3. QED
    BY <2>1, <2>2
<1>5. entered' = Count(Count(entered, in), more) /\ exited' = Count(Count(exited, out), less)
  BY DEF Transition
<1> HIDE DEF in, out, more, less
<1>6. Count(entered, in) \in [AllStates -> Nat] /\ Count(exited, out) \in [AllStates -> Nat]
  BY <1>3, CountType DEF CountInv
<1>7. QED
  BY <1>4, <1>5, <1>6, CountType DEF CountInv

\* A dispatch keeps what the invariant says of the stack, the counts and the queue.
LEMMA DispatchKept ==
  ASSUME PushInv, HandlersKeepMembers, NEW e \in Events, NEW rest \in Seq(Events),
         Dispatch(e, rest)
  PROVE  /\ StackInv' /\ CountInv'
         /\ posted' \in Seq(Events) /\ answer' \in {"process", "refuse"}
         /\ \A i \in 1..(Len(stack') - 1) : Waits(stack'[i])
<1>1. CASE ~Accepts(e) /\ Refuse(rest)
  <2>1. stack' = stack /\ entered' = entered /\ exited' = exited /\ posted' = rest
        /\ answer' = "refuse"
    BY <1>1 DEF Refuse
  <2>2. QED
    BY <2>1 DEF PushInv, StackInv, CountInv
<1>2. CASE \E m \in ActiveMachines :
              /\ Takes(m, e)
              /\ \E row \in Triggered(m, e) :
                    /\ Transition(m, row, e)
                    /\ posted' = IF row.posts THEN Append(rest, e) ELSE rest
              /\ answer' = "process"
  <2>1. PICK m \in ActiveMachines : \E row \in Triggered(m, e) :
           /\ Transition(m, row, e)
           /\ posted' = IF row.posts THEN Append(rest, e) ELSE rest
    BY <1>2
  <2>2. PICK row \in Triggered(m, e) :
           /\ Transition(m, row, e)
           /\ posted' = IF row.posts THEN Append(rest, e) ELSE rest
    BY <2>1
  <2>3. posted' \in Seq(Events)
    BY <2>2
  <2>4. QED
    BY <1>2, <2>2, <2>3, StackKept, CountsKept DEF PushInv
<1>3. QED
  BY <1>1, <1>2 DEF Dispatch

LEMMA InitPush ==
  ASSUME Init PROVE PushInv
<1>1. stack = <<NewFrame>> /\ stack \in Seq({NewFrame}) /\ Len(stack) = 1 /\ stack[1] = NewFrame
  BY DEF Init
<1>2. FrameInv(NewFrame)
  BY NewFrameFacts DEF FrameInv, NewFrame
<1>3. StackInv
  <2>1. \E S : stack \in Seq(S)
    BY <1>1
  <2>2. stack # <<>> /\ \A i \in 1..Len(stack) : i = 1
    BY <1>1
  <2>3. QED
    BY <1>1, <1>2, <2>1, <2>2 DEF StackInv
<1>4. \A i \in 1..(Len(stack) - 1) : Waits(stack[i])
  BY <1>1
<1>5. CountInv /\ QueueInv
  BY DEF Init, CountInv, QueueInv
<1>6. QED
  BY <1>3, <1>4, <1>5 DEF PushInv

LEMMA NextPush ==
  ASSUME PushInv, HandlersKeepMembers, [Next]_vars
  PROVE  PushInv'
<1>1. ASSUME NEW e \in Events, Receive(e) PROVE PushInv'
  <2>1. Dispatch(e, <<>>) /\ tokens' = IF Accepts(e) THEN Append(tokens, e) ELSE tokens
    BY <1>1 DEF Receive
  <2>2. <<>> \in Seq(Events)
    OBVIOUS
  <2>3. tokens' \in Seq(Events)
    BY <2>1 DEF PushInv, QueueInv
  <2>4. QED
    BY <2>1, <2>2, <2>3, DispatchKept DEF PushInv, QueueInv
<1>2. ASSUME RunPosted PROVE PushInv'
  <2>1. Dispatch(Head(posted), Tail(posted)) /\ posted # <<>> /\ tokens' = tokens
    BY <1>2 DEF RunPosted
  <2>2. Head(posted) \in Events /\ Tail(posted) \in Seq(Events)
    BY <2>1 DEF PushInv, QueueInv
  <2>3. QED
    BY <2>1, <2>2, DispatchKept DEF PushInv, QueueInv
<1>3. CASE UNCHANGED vars
  BY <1>3 DEF vars, PushInv, StackInv, CountInv, QueueInv
<1>4. QED
  BY <1>1, <1>2, <1>3 DEF Next, Exhausted

-----------------------------------------------------------------------------
(* Paths, and is_in_state *)

\* What contains a state is its machine, or contains that.
LEMMA ContainsParent ==
  ASSUME NEW p \in Machines, NEW s \in Inner[p]
  PROVE  \A a \in AllStates : ContainsSubstate(a, s) => a = p \/ ContainsSubstate(a, p)
<1> DEFINE S == {a \in AllStates : ContainsSubstate(a, s) => a = p \/ ContainsSubstate(a, p)}
<1>1. ASSUME NEW a \in AllStates, a \in Machines => Inner[a] \subseteq S
      PROVE  a \in S
  <2>1. SUFFICES ASSUME ContainsSubstate(a, s) PROVE a = p \/ ContainsSubstate(a, p)
    OBVIOUS
  <2>2. a \in Machines /\ \E i \in Inner[a] : i = s \/ ContainsSubstate(i, s)
    BY <2>1, ContainsRec
  <2>3. PICK i \in Inner[a] : i = s \/ ContainsSubstate(i, s)
    BY <2>2
  <2>4. CASE i = s
    BY <2>2, <2>4, StackAssumption
  <2>5. CASE ContainsSubstate(i, s)
    <3>1. i = p \/ ContainsSubstate(i, p)
      BY <1>1, <2>2, <2>5
    <3>2. QED
      BY <2>2, <3>1, ContainsRec
  <2>6. QED
    BY <2>3, <2>4, <2>5
<1>2. S \in SUBSET AllStates
  OBVIOUS
<1>3. S = AllStates
  <2> HIDE DEF S
  <2>1. QED
    BY <1>1, <1>2, NestingAssumption
<1>4. QED
  BY <1>3

\* Of two states that contain s, one contains the other.
LEMMA ContainsInLine ==
  ASSUME NEW s, NEW b \in AllStates
  PROVE  \A a \in AllStates : ContainsSubstate(a, s) /\ ContainsSubstate(b, s) =>
            a = b \/ ContainsSubstate(a, b) \/ ContainsSubstate(b, a)
<1> DEFINE S == {a \in AllStates : ContainsSubstate(a, s) /\ ContainsSubstate(b, s) =>
                    a = b \/ ContainsSubstate(a, b) \/ ContainsSubstate(b, a)}
<1>1. ASSUME NEW a \in AllStates, a \in Machines => Inner[a] \subseteq S
      PROVE  a \in S
  <2>1. SUFFICES ASSUME ContainsSubstate(a, s), ContainsSubstate(b, s)
                 PROVE  a = b \/ ContainsSubstate(a, b) \/ ContainsSubstate(b, a)
    OBVIOUS
  <2>2. a \in Machines /\ \E i \in Inner[a] : i = s \/ ContainsSubstate(i, s)
    BY <2>1, ContainsRec
  <2>3. PICK i \in Inner[a] : i = s \/ ContainsSubstate(i, s)
    BY <2>2
  <2>4. CASE i = s
    BY <2>1, <2>2, <2>4, ContainsParent
  <2>5. CASE ContainsSubstate(i, s)
    <3>1. i \in S
      BY <1>1, <2>2
    <3>2. i = b \/ ContainsSubstate(i, b) \/ ContainsSubstate(b, i)
      BY <2>1, <2>5, <3>1
    <3>3. i = b \/ ContainsSubstate(i, b) => ContainsSubstate(a, b)
      BY <2>2, ContainsRec
    <3>4. ContainsSubstate(b, i) => b = a \/ ContainsSubstate(b, a)
      BY <2>2, ContainsParent
    <3>5. QED
      BY <3>2, <3>3, <3>4
  <2>6. QED
    BY <2>3, <2>4, <2>5
<1>2. S \in SUBSET AllStates
  OBVIOUS
<1>3. S = AllStates
  <2> HIDE DEF S
  <2>1. QED
    BY <1>1, <1>2, NestingAssumption
<1>4. QED
  BY <1>3

\* What is inside a machine is in one of its states only.
LEMMA OneInner ==
  ASSUME NEW s \in AllStates, NEW m \in Machines, NEW i \in Inner[m], NEW j \in Inner[m],
         i = s \/ ContainsSubstate(i, s), j = s \/ ContainsSubstate(j, s)
  PROVE  i = j
<1>1. /\ m \in AllStates /\ i \in AllStates /\ j \in AllStates
      /\ ContainsSubstate(m, i) /\ ContainsSubstate(m, j)
  BY InnerStates
<1>2. i = j \/ ContainsSubstate(i, j) \/ ContainsSubstate(j, i)
  BY <1>1, ContainsInLine
<1>3. ASSUME NEW a \in Inner[m], NEW b \in Inner[m] PROVE ~ContainsSubstate(a, b)
  <2>1. SUFFICES ASSUME ContainsSubstate(a, b) PROVE FALSE
    OBVIOUS
  <2>2. a \in AllStates /\ ContainsSubstate(m, a)
    BY InnerStates
  <2>3. a = m \/ ContainsSubstate(a, m)
    BY <2>1, <2>2, ContainsParent
  <2>4. ContainsSubstate(m, m)
    BY <1>1, <2>2, <2>3, ContainsTransitive
  <2>5. QED
    BY <1>1, <2>4, NotInItself
<1>4. QED
  BY <1>2, <1>3

\* The step from n towards a state inside it is well defined.
LEMMA TowardFacts ==
  ASSUME NEW s \in AllStates, NEW n \in AllStates, ContainsSubstate(n, s)
  PROVE  /\ n \in Machines /\ n # s
         /\ Toward(n, s) \in Inner[n] /\ Toward(n, s) \in AllStates
         /\ Toward(n, s) = s \/ ContainsSubstate(Toward(n, s), s)
         /\ \A i \in Inner[n] : i = s \/ ContainsSubstate(i, s) => i = Toward(n, s)
<1>1. n \in Machines /\ \E i \in Inner[n] : i = s \/ ContainsSubstate(i, s)
  BY ContainsRec
<1>2. /\ Toward(n, s) \in Inner[n]
      /\ Toward(n, s) = s \/ ContainsSubstate(Toward(n, s), s)
  BY <1>1, Zenon DEF Toward
<1>3. QED
  BY <1>1, <1>2, OneInner, InnerStates, NotInItself

\* The recursion of state_path has a solution.
LEMMA PathRec ==
  ASSUME NEW s \in AllStates, NEW m \in AllStates, m = s \/ ContainsSubstate(m, s)
  PROVE  /\ StatePath(m, s) \in Seq(AllStates) /\ StatePath(m, s) # <<>>
         /\ StatePath(m, s)[1] = m
         /\ m = s => StatePath(m, s) = <<s>>
         /\ m # s => StatePath(m, s) = <<m>> \o StatePath(Toward(m, s), s)
<1> DEFINE X == {n \in AllStates : n # s /\ ContainsSubstate(n, s)}
           next == [n \in X |-> Toward(n, s)]
           Solves(d) == d = [n \in AllStates |->
                IF n = s THEN <<n>>
                ELSE IF ContainsSubstate(n, s) THEN <<n>> \o d[Toward(n, s)] ELSE <<>>]
<1>1. Leads(X, next)
  BY TowardFacts DEF Leads
<1>2. PICK b : /\ \A n \in AllStates : IsChain(X, next, n, b[n])
               /\ b = [n \in AllStates |-> IF n \in X THEN <<n>> \o b[next[n]] ELSE <<n>>]
  <2> HIDE DEF X, next
  <2>1. QED
    BY <1>1, ChainRecursion
<1> DEFINE c == [n \in AllStates |-> IF n \in X \cup {s} THEN b[n] ELSE <<>>]
<1>3. ASSUME NEW n \in AllStates
      PROVE  c[n] = IF n = s THEN <<n>>
                    ELSE IF ContainsSubstate(n, s) THEN <<n>> \o c[Toward(n, s)] ELSE <<>>
  <2>1. CASE n = s
    <3>1. b[n] = <<n>>
      BY <1>2, <2>1
    <3>2. QED
      BY <2>1, <3>1
  <2>2. CASE n # s /\ ContainsSubstate(n, s)
    <3>1. n \in X /\ next[n] = Toward(n, s) /\ Toward(n, s) \in AllStates /\ Toward(n, s) \in X \cup {s}
      BY <2>2, TowardFacts
    <3>2. b[n] = <<n>> \o b[next[n]]
      BY <1>2, <3>1
    <3>3. c[n] = b[n] /\ c[Toward(n, s)] = b[Toward(n, s)]
      BY <3>1
    <3>4. QED
      BY <2>2, <3>1, <3>2, <3>3
  <2>3. CASE n # s /\ ~ContainsSubstate(n, s)
    BY <2>3
  <2>4. QED
    BY <2>1, <2>2, <2>3
<1>4. \E d : Solves(d)
  <2>1. c = [n \in AllStates |-> c[n]]
    OBVIOUS
  <2> HIDE DEF c
  <2>2. Solves(c)
    BY <1>3, <2>1
  <2>3. QED
    BY <2>2
<1> DEFINE P == CHOOSE d : d = [n \in AllStates |->
                IF n = s THEN <<n>>
                ELSE IF ContainsSubstate(n, s) THEN <<n>> \o d[Toward(n, s)] ELSE <<>>]
<1>5. Solves(P)
  BY <1>4, Zenon
<1>6. \A n : StatePath(n, s) = P[n]
  BY DEF StatePath
<1> HIDE DEF P
<1>7. ASSUME NEW n \in AllStates
      PROVE  /\ n = s => StatePath(n, s) = <<s>>
             /\ n # s /\ ContainsSubstate(n, s) => StatePath(n, s) = <<n>> \o StatePath(Toward(n, s), s)
  BY <1>5, <1>6
<1> DEFINE S == {n \in AllStates : n = s \/ ContainsSubstate(n, s) =>
                    StatePath(n, s) \in Seq(AllStates) /\ StatePath(n, s) # <<>> /\ StatePath(n, s)[1] = n}
<1>8. ASSUME NEW n \in AllStates, n \in Machines => Inner[n] \subseteq S
      PROVE  n \in S
  <2>1. CASE n = s
    <3>1. StatePath(n, s) = <<s>>
      BY <1>7, <2>1
    <3>2. <<s>> \in Seq(AllStates) /\ <<s>> # <<>> /\ <<s>>[1] = s
      OBVIOUS
    <3>3. QED
      BY <2>1, <3>1, <3>2
  <2>2. CASE n # s /\ ContainsSubstate(n, s)
    <3> DEFINE t == StatePath(Toward(n, s), s)
    <3>1. t \in Seq(AllStates) /\ t # <<>>
      BY <1>8, <2>2, TowardFacts
    <3>2. StatePath(n, s) = <<n>> \o t
      BY <1>7, <2>2
    <3> HIDE DEF t
    <3>3. QED
      BY <3>1, <3>2, Prepended
  <2>3. CASE n # s /\ ~ContainsSubstate(n, s)
    BY <2>3
  <2>4. QED
    BY <2>1, <2>2, <2>3
<1>9. S \in SUBSET AllStates
  OBVIOUS
<1>10. S = AllStates
  <2> HIDE DEF S
  <2>1. QED
    BY <1>8, <1>9, NestingAssumption
<1>11. QED
  BY <1>7, <1>10

\* The recursion of is_in_state.
SolvesInState(c, current, s) ==
    c = [n \in AllStates |->
            \/ n = s
            \/ /\ n \in Machines
               /\ \/ Containment(n, s) = "immediate" /\ InImmediate(current, n, s)
                  \/ /\ Containment(n, s) = "substate"
                     /\ \E i \in Inner[n] : /\ ContainsSubstate(i, s)
                                            /\ InImmediate(current, n, i)
                                            /\ c[i]]

\* The recursion of is_in_state has a solution, as that of contains_substate.
LEMMA InStateEquation ==
  ASSUME NEW current, NEW s
  PROVE  \E c : SolvesInState(c, current, s)
<1> DEFINE Asks(n, i) == /\ Containment(n, s) = "substate"
                         /\ ContainsSubstate(i, s) /\ InImmediate(current, n, i)
           Known(n) == n = s \/ (n \in Machines /\ Containment(n, s) = "immediate"
                                                /\ InImmediate(current, n, s))
           Told(T, n) == Known(n) \/ (n \in Machines /\ \E i \in Inner[n] : Asks(n, i) /\ i \in T)
           Closed(T) == \A n \in AllStates : Told(T, n) => n \in T
           L == {n \in AllStates : \A T \in SUBSET AllStates : Closed(T) => n \in T}
           c == [n \in AllStates |-> n \in L]
<1>1. \A n \in Machines : n \in AllStates /\ Inner[n] \subseteq AllStates
  BY DefinitionAssumption
<1>a. \A n : Told(L, n) <=>
            \/ n = s
            \/ /\ n \in Machines
               /\ \/ Containment(n, s) = "immediate" /\ InImmediate(current, n, s)
                  \/ /\ Containment(n, s) = "substate"
                     /\ \E i \in Inner[n] : /\ ContainsSubstate(i, s)
                                            /\ InImmediate(current, n, i)
                                            /\ i \in L
  <2> HIDE DEF L
  <2>1. QED
    OBVIOUS
<1> HIDE DEF Known, Asks
<1>2. Closed(L)
  <2>1. SUFFICES ASSUME NEW n \in AllStates, Told(L, n),
                        NEW T \in SUBSET AllStates, Closed(T)
                 PROVE  n \in T
    OBVIOUS
  <2>2. Told(T, n)
    BY <2>1, <1>1
  <2>3. QED
    BY <2>1, <2>2
<1>3. \A n \in L : Told(L, n)
  <2>1. SUFFICES ASSUME NEW n \in L, ~Told(L, n) PROVE FALSE
    OBVIOUS
  <2>2. Closed(L \ {n})
    <3>1. SUFFICES ASSUME NEW k \in AllStates, Told(L \ {n}, k) PROVE k \in L \ {n}
      OBVIOUS
    <3>2. Told(L, k)
      BY <3>1
    <3>3. k \in L
      BY <3>2, <1>2
    <3>4. k # n
      BY <3>2, <2>1
    <3>5. QED
      BY <3>3, <3>4
  <2>3. L \ {n} \in SUBSET AllStates
    OBVIOUS
  <2>4. n \in L \ {n}
    BY <2>2, <2>3
  <2>5. QED
    BY <2>4
<1>4. \A n \in AllStates : n \in L <=> Told(L, n)
  BY <1>2, <1>3
<1>5. c = [n \in AllStates |-> n \in L]
  OBVIOUS
<1> HIDE DEF L, c, Told
<1>6. ASSUME NEW n \in AllStates
      PROVE  n \in L <=>
            \/ n = s
            \/ /\ n \in Machines
               /\ \/ Containment(n, s) = "immediate" /\ InImmediate(current, n, s)
                  \/ /\ Containment(n, s) = "substate"
                     /\ \E i \in Inner[n] : /\ ContainsSubstate(i, s)
                                            /\ InImmediate(current, n, i)
                                            /\ c[i]
  <2>1. n \in Machines => \A i \in Inner[n] : c[i] <=> i \in L
    BY <1>1, <1>5
  <2>2. QED
    BY <1>4, <1>a, <2>1
<1> DEFINE d == [n \in AllStates |->
            \/ n = s
            \/ /\ n \in Machines
               /\ \/ Containment(n, s) = "immediate" /\ InImmediate(current, n, s)
                  \/ /\ Containment(n, s) = "substate"
                     /\ \E i \in Inner[n] : /\ ContainsSubstate(i, s)
                                            /\ InImmediate(current, n, i)
                                            /\ c[i]]
<1>7. c = d
  <2>1. \A n \in AllStates : c[n] <=> d[n]
    BY <1>5, <1>6
  <2>2. \A n \in AllStates : c[n] \in BOOLEAN /\ d[n] \in BOOLEAN
    BY <1>5
  <2>3. d = [n \in AllStates |-> d[n]] /\ c = [n \in AllStates |-> c[n]]
    BY <1>5
  <2> HIDE DEF d
  <2>4. QED
    BY <2>1, <2>2, <2>3
<1>8. SolvesInState(c, current, s)
  BY <1>7 DEF SolvesInState
<1>9. QED
  BY <1>8

\* What that solution is.
LEMMA InStateRec ==
  ASSUME NEW current, NEW s, NEW m \in AllStates
  PROVE  IsInState(current, m, s) <=>
            \/ m = s
            \/ /\ m \in Machines
               /\ \/ Containment(m, s) = "immediate" /\ InImmediate(current, m, s)
                  \/ /\ Containment(m, s) = "substate"
                     /\ \E i \in Inner[m] : /\ ContainsSubstate(i, s)
                                            /\ InImmediate(current, m, i)
                                            /\ IsInState(current, i, s)
<1> DEFINE c == CHOOSE d : d = [n \in AllStates |->
            \/ n = s
            \/ /\ n \in Machines
               /\ \/ Containment(n, s) = "immediate" /\ InImmediate(current, n, s)
                  \/ /\ Containment(n, s) = "substate"
                     /\ \E i \in Inner[n] : /\ ContainsSubstate(i, s)
                                            /\ InImmediate(current, n, i)
                                            /\ d[i]]
<1>1. SolvesInState(c, current, s)
  <2>1. \E d : SolvesInState(d, current, s)
    BY InStateEquation
  <2>2. c = CHOOSE d : SolvesInState(d, current, s)
    BY DEF SolvesInState
  <2> HIDE DEF c
  <2>3. QED
    BY <2>1, <2>2, Zenon
<1>2. \A n : IsInState(current, n, s) = c[n]
  BY DEF IsInState
<1> HIDE DEF c
<1>3. c[m] = \/ m = s
             \/ /\ m \in Machines
                /\ \/ Containment(m, s) = "immediate" /\ InImmediate(current, m, s)
                   \/ /\ Containment(m, s) = "substate"
                      /\ \E i \in Inner[m] : /\ ContainsSubstate(i, s)
                                             /\ InImmediate(current, m, i)
                                             /\ c[i]
  BY <1>1 DEF SolvesInState
<1>4. QED
  BY <1>2, <1>3

\* The current states along a sequence of states.
Along(current, path) == \A i \in 2..Len(path) : current[path[i - 1]] = path[i]

\* ... with one more state in front.
LEMMA AlongPrepended ==
  ASSUME NEW current, NEW n \in AllStates, NEW c \in Seq(AllStates), c # <<>>
  PROVE  Along(current, <<n>> \o c) <=> current[n] = c[1] /\ Along(current, c)
<1> DEFINE d == <<n>> \o c
<1>1. /\ Len(c) \in Nat \ {0} /\ Len(d) = Len(c) + 1
      /\ d[1] = n /\ \A i \in 1..Len(c) : d[i + 1] = c[i]
  BY Prepended
<1> HIDE DEF d
<1>2. ASSUME Along(current, d)
      PROVE  current[n] = c[1] /\ Along(current, c)
  <2>1. 2 \in 2..Len(d) /\ 1 \in 1..Len(c)
    BY <1>1
  <2>2. current[n] = c[1]
    <3>1. current[d[2 - 1]] = d[2] /\ d[1 + 1] = c[1]
      BY <1>1, <1>2, <2>1 DEF Along
    <3>2. QED
      BY <1>1, <3>1
  <2>3. ASSUME NEW i \in 2..Len(c) PROVE current[c[i - 1]] = c[i]
    <3>1. i + 1 \in 2..Len(d) /\ (i + 1) - 1 = i /\ i - 1 \in 1..Len(c) /\ (i - 1) + 1 = i /\ i \in 1..Len(c)
      BY <1>1
    <3>2. current[d[i]] = d[i + 1]
      BY <1>2, <3>1 DEF Along
    <3>3. d[(i - 1) + 1] = c[i - 1] /\ d[i + 1] = c[i]
      BY <1>1, <3>1
    <3>4. QED
      BY <3>1, <3>2, <3>3
  <2>4. QED
    BY <2>2, <2>3 DEF Along
<1>3. ASSUME current[n] = c[1], Along(current, c)
      PROVE  Along(current, d)
  <2>1. SUFFICES ASSUME NEW j \in 2..Len(d) PROVE current[d[j - 1]] = d[j]
    BY DEF Along
  <2>2. j - 1 \in 1..Len(c) /\ (j - 1) + 1 = j
    BY <1>1
  <2>3. d[j] = c[j - 1]
    BY <1>1, <2>2
  <2>4. CASE j = 2
    BY <1>1, <1>3, <2>2, <2>3, <2>4
  <2>5. CASE j # 2
    <3>1. j - 1 \in 2..Len(c) /\ (j - 1) - 1 \in 1..Len(c) /\ ((j - 1) - 1) + 1 = j - 1
      BY <1>1, <2>2, <2>5
    <3>2. d[j - 1] = c[(j - 1) - 1]
      BY <1>1, <3>1
    <3>3. current[c[(j - 1) - 1]] = c[j - 1]
      BY <1>3, <3>1 DEF Along
    <3>4. QED
      BY <2>3, <3>2, <3>3
  <2>6. QED
    BY <2>4, <2>5
<1>4. QED
  BY <1>2, <1>3 DEF d

\* is_in_state asks about the states on the path.
LEMMA InStateAlong ==
  ASSUME NEW frame, FrameOK(frame), NEW s \in AllStates
  PROVE  \A m \in AllStates : m = s \/ ContainsSubstate(m, s) =>
            (IsInState(frame.current, m, s) <=> Along(frame.current, StatePath(m, s)))
<1> DEFINE cur == frame.current
           S == {m \in AllStates : m = s \/ ContainsSubstate(m, s) =>
                    (IsInState(cur, m, s) <=> Along(cur, StatePath(m, s)))}
<1>1. ASSUME NEW m \in AllStates, m \in Machines => Inner[m] \subseteq S
      PROVE  m \in S
  <2>1. CASE m = s
    <3>1. IsInState(cur, m, s)
      BY <2>1, InStateRec
    <3>2. StatePath(m, s) = <<s>>
      BY <2>1, PathRec
    <3>3. Along(cur, <<s>>)
      BY DEF Along
    <3>4. QED
      BY <3>1, <3>2, <3>3
  <2>2. CASE m # s /\ ContainsSubstate(m, s)
    <3> DEFINE i == Toward(m, s)
               t == StatePath(i, s)
    <3>1. /\ m \in Machines /\ i \in Inner[m] /\ i \in AllStates
          /\ i = s \/ ContainsSubstate(i, s)
          /\ \A j \in Inner[m] : j = s \/ ContainsSubstate(j, s) => j = i
      BY <2>2, TowardFacts
    <3>2. t \in Seq(AllStates) /\ t # <<>> /\ t[1] = i
      BY <3>1, PathRec
    <3>3. StatePath(m, s) = <<m>> \o t
      BY <2>2, PathRec
    <3>4. IsInState(cur, i, s) <=> Along(cur, t)
      BY <1>1, <3>1
    <3> HIDE DEF t
    <3>5. Along(cur, StatePath(m, s)) <=> cur[m] = i /\ Along(cur, t)
      <4>1. Along(cur, <<m>> \o t) <=> cur[m] = t[1] /\ Along(cur, t)
        BY <3>2, AlongPrepended
      <4>2. QED
        BY <3>2, <3>3, <4>1
    <3>6. InImmediate(cur, m, i) <=> cur[m] = i
      <4>1. m \in Regional => m = Root /\ Inner[m] = {Region}
        BY StackAssumption
      <4>2. cur[m] \in Inner[m]
        BY <3>1 DEF FrameOK
      <4>3. QED
        BY <3>1, <4>1, <4>2 DEF InImmediate
    <3> HIDE DEF i
    <3>7. CASE i = s
      <4>1. Containment(m, s) = "immediate"
        <5>1. s \in Inner[m] /\ ~\E j \in Inner[m] : ContainsSubstate(j, s)
          BY <3>1, <3>7, NotInItself
        <5>2. QED
          BY <2>2, <5>1 DEF Containment
      <4>2. IsInState(cur, m, s) <=> InImmediate(cur, m, s)
        BY <2>2, <3>1, <4>1, InStateRec
      <4>3. IsInState(cur, i, s)
        BY <3>1, <3>7, InStateRec
      <4>4. QED
        BY <3>4, <3>5, <3>6, <3>7, <4>2, <4>3
    <3>8. CASE i # s
      <4>1. s \notin Inner[m]
        BY <3>1, <3>8
      <4>2. Containment(m, s) = "substate"
        BY <2>2, <3>1, <3>8, <4>1 DEF Containment
      <4>3. IsInState(cur, m, s) <=> \E j \in Inner[m] : /\ ContainsSubstate(j, s)
                                                        /\ InImmediate(cur, m, j)
                                                        /\ IsInState(cur, j, s)
        BY <2>2, <3>1, <4>2, InStateRec
      <4>4. IsInState(cur, m, s) <=> InImmediate(cur, m, i) /\ IsInState(cur, i, s)
        BY <3>1, <3>8, <4>3
      <4>5. QED
        BY <3>4, <3>5, <3>6, <4>4
    <3>9. QED
      BY <3>7, <3>8
  <2>3. CASE m # s /\ ~ContainsSubstate(m, s)
    BY <2>3
  <2>4. QED
    BY <2>1, <2>2, <2>3
<1>2. S \in SUBSET AllStates
  OBVIOUS
<1>3. S = AllStates
  <2> HIDE DEF S
  <2>1. QED
    BY <1>1, <1>2, NestingAssumption
<1>4. QED
  BY <1>3

-----------------------------------------------------------------------------
(* Sums over a finite set of states *)

PickOf(T) == CHOOSE x \in T : TRUE

\* The recursion of SumFunctionOnSet.
SumsTo(d, f, S) == d = [T \in SUBSET S |-> IF T = {} THEN 0 ELSE f[PickOf(T)] + d[T \ {PickOf(T)}]]

\* A finite set without the element that CHOOSE picks.
LEMMA Picked ==
  ASSUME NEW T, IsFiniteSet(T), T # {}
  PROVE  /\ PickOf(T) \in T
         /\ IsFiniteSet(T \ {PickOf(T)})
         /\ Cardinality(T) \in Nat /\ Cardinality(T) # 0
         /\ Cardinality(T \ {PickOf(T)}) = Cardinality(T) - 1
<1>1. PickOf(T) \in T
  BY DEF PickOf
<1> HIDE DEF PickOf
<1>2. Cardinality(T) \in Nat /\ Cardinality(T) # 0
  BY FS_CardinalityType, FS_EmptySet
<1>3. QED
  BY <1>1, <1>2, FS_RemoveElement

\* What is so of the empty set, and of a set if it is so of it without one of
\* its elements, is so of all finite sets.
LEMMA SetSteps ==
  ASSUME NEW S, IsFiniteSet(S), NEW C, {} \in C,
         \A T \in SUBSET S : T # {} /\ T \ {PickOf(T)} \in C => T \in C
  PROVE  SUBSET S \subseteq C
<1> DEFINE K == {k \in Nat : \A T \in SUBSET S : Cardinality(T) = k => T \in C}
<1>1. \A T \in SUBSET S : IsFiniteSet(T) /\ Cardinality(T) \in Nat /\ (Cardinality(T) = 0 => T = {})
  BY FS_Subset, FS_CardinalityType, FS_EmptySet
<1>2. 0 \in K
  BY <1>1
<1>3. ASSUME NEW k \in K PROVE k + 1 \in K
  <2>1. SUFFICES ASSUME NEW T \in SUBSET S, Cardinality(T) = k + 1 PROVE T \in C
    OBVIOUS
  <2>2. T # {}
    <3>1. Cardinality({}) = 0 /\ k + 1 # 0
      BY FS_EmptySet
    <3>2. QED
      BY <2>1, <3>1
  <2>3. Cardinality(T \ {PickOf(T)}) = (k + 1) - 1 /\ T \ {PickOf(T)} \in SUBSET S
    BY <1>1, <2>1, <2>2, Picked
  <2>4. (k + 1) - 1 = k
    OBVIOUS
  <2>5. QED
    BY <2>2, <2>3, <2>4
<1>4. K = Nat
  <2>1. K \in SUBSET Nat
    OBVIOUS
  <2> HIDE DEF K
  <2>2. QED
    BY <1>2, <1>3, <2>1, NatSteps
<1>5. QED
  BY <1>1, <1>4

\* The recursion of SumFunctionOnSet has a solution.
LEMMA SumExists ==
  ASSUME NEW S, IsFiniteSet(S), NEW f
  PROVE  \E d : SumsTo(d, f, S)
<1> DEFINE Small(k) == {T \in SUBSET S : Cardinality(T) < k}
           Next1(d, T) == IF T = {} THEN 0 ELSE f[PickOf(T)] + d[T \ {PickOf(T)}]
           Rec(d, k) == d = [T \in Small(k) |-> Next1(d, T)]
           K == {k \in Nat : \E d : Rec(d, k)}
<1>1. \A T \in SUBSET S : /\ IsFiniteSet(T) /\ Cardinality(T) \in Nat
                          /\ T # {} => /\ T \ {PickOf(T)} \in SUBSET S
                                       /\ Cardinality(T \ {PickOf(T)}) = Cardinality(T) - 1
  BY FS_Subset, FS_CardinalityType, Picked
<1>2. 0 \in K
  <2>1. Small(0) = {}
    <3>1. \A n \in Nat : ~(n < 0)
      OBVIOUS
    <3>2. QED
      BY <1>1, <3>1
  <2> HIDE DEF Small
  <2>2. Rec([T \in {} |-> 0], 0)
    BY <2>1
  <2>3. QED
    BY <2>2
<1>3. ASSUME NEW k \in K PROVE k + 1 \in K
  <2>1. PICK d : Rec(d, k)
    OBVIOUS
  <2> DEFINE b == [T \in Small(k + 1) |-> Next1(d, T)]
  <2>2. ASSUME NEW T \in Small(k + 1) PROVE b[T] = Next1(b, T)
    <3>1. CASE T = {}
      BY <3>1
    <3>2. CASE T # {}
      <4> DEFINE U == T \ {PickOf(T)}
      <4>1. U \in Small(k) /\ U \in Small(k + 1)
        <5>1. \A n \in Nat : n < k + 1 => n - 1 < k /\ n - 1 < k + 1
          OBVIOUS
        <5>2. QED
          BY <1>1, <3>2, <5>1
      <4>2. b[T] = f[PickOf(T)] + d[U]
        BY <3>2
      <4>3. d[U] = Next1(d, U) /\ b[U] = Next1(d, U)
        <5> HIDE DEF Small, Next1, U
        <5>1. QED
          BY <2>1, <4>1
      <4> HIDE DEF b, U
      <4>4. QED
        BY <3>2, <4>2, <4>3 DEF U
    <3>3. QED
      BY <3>1, <3>2
  <2>3. b = [T \in Small(k + 1) |-> b[T]]
    OBVIOUS
  <2> HIDE DEF b, Next1, Small
  <2>4. Rec(b, k + 1)
    BY <2>2, <2>3
  <2>5. k + 1 \in Nat
    OBVIOUS
  <2> HIDE DEF Rec
  <2>6. QED
    BY <2>4, <2>5
<1>4. K = Nat
  <2>1. K \in SUBSET Nat
    OBVIOUS
  <2> HIDE DEF K
  <2>2. QED
    BY <1>2, <1>3, <2>1, NatSteps
<1> DEFINE n == Cardinality(S) + 1
<1>5. n \in Nat
  BY FS_CardinalityType
<1>6. Small(n) = SUBSET S
  <2>1. ASSUME NEW T \in SUBSET S PROVE Cardinality(T) < n
    <3>1. Cardinality(T) <= Cardinality(S) /\ Cardinality(T) \in Nat /\ Cardinality(S) \in Nat
      BY <1>1, FS_Subset, FS_CardinalityType
    <3>2. QED
      BY <3>1
  <2>2. QED
    BY <2>1
<1>7. PICK d : Rec(d, n)
  BY <1>4, <1>5
<1>8. SumsTo(d, f, S)
  <2> HIDE DEF Small
  <2>1. QED
    BY <1>6, <1>7 DEF SumsTo
<1>9. QED
  BY <1>8

\* The sum of f over S, and those over its subsets on the way to it.
AddsUp(d, f, S) ==
    /\ SumFunctionOnSet(f, S) = d[S]
    /\ d[{}] = 0
    /\ \A T \in SUBSET S : T # {} => /\ PickOf(T) \in T
                                     /\ d[T] = f[PickOf(T)] + d[T \ {PickOf(T)}]

LEMMA SumIs ==
  ASSUME NEW S, IsFiniteSet(S), NEW f
  PROVE  \E d : AddsUp(d, f, S)
<1> DEFINE d == CHOOSE a : a = [T \in SUBSET S |-> IF T = {} THEN 0
                                   ELSE f[CHOOSE x \in T : TRUE] + a[T \ {CHOOSE x \in T : TRUE}]]
<1>1. SumFunctionOnSet(f, S) = d[S]
  BY DEF SumFunctionOnSet, FoldFunctionOnSet, MapThenFoldSet
<1>2. d = CHOOSE a : SumsTo(a, f, S)
  BY DEF SumsTo, PickOf
<1> HIDE DEF d
<1>3. SumsTo(d, f, S)
  BY <1>2, SumExists, Zenon
<1>4. \A T \in SUBSET S : d[T] = IF T = {} THEN 0 ELSE f[PickOf(T)] + d[T \ {PickOf(T)}]
  BY <1>3 DEF SumsTo
<1>5. \A T \in SUBSET S : T # {} => PickOf(T) \in T
  BY FS_Subset, Picked
<1>6. {} \in SUBSET S
  OBVIOUS
<1>7. AddsUp(d, f, S)
  BY <1>1, <1>4, <1>5, <1>6 DEF AddsUp
<1>8. QED
  BY <1>7

\* A sum of integers, of which one has changed by v.
LEMMA SumChanged ==
  ASSUME NEW S, IsFiniteSet(S), NEW f, NEW g, NEW v \in Int, NEW x \in S,
         \A s \in S : f[s] \in Int /\ g[s] = f[s] + IF s = x THEN v ELSE 0
  PROVE  SumFunctionOnSet(f, S) \in Int /\ SumFunctionOnSet(g, S) = SumFunctionOnSet(f, S) + v
<1>1. PICK d : AddsUp(d, f, S)
  BY SumIs
<1>2. PICK c : AddsUp(c, g, S)
  BY SumIs
<1> DEFINE Adds(T) == IF x \in T THEN v ELSE 0
           C == {T \in SUBSET S : d[T] \in Int /\ c[T] = d[T] + Adds(T)}
<1>3. {} \in C
  BY <1>1, <1>2 DEF AddsUp
<1>4. ASSUME NEW T \in SUBSET S, T # {}, T \ {PickOf(T)} \in C
      PROVE  T \in C
  <2> DEFINE p == PickOf(T)
             U == T \ {p}
  <2>1. p \in T /\ p \in S /\ d[T] = f[p] + d[U] /\ c[T] = g[p] + c[U]
    BY <1>1, <1>2, <1>4 DEF AddsUp
  <2>2. d[U] \in Int /\ c[U] = d[U] + Adds(U)
    BY <1>4
  <2>3. f[p] \in Int /\ g[p] = f[p] + IF p = x THEN v ELSE 0
    BY <2>1
  <2>4. Adds(T) = Adds(U) + (IF p = x THEN v ELSE 0) /\ Adds(U) \in Int
    BY <2>1
  <2> HIDE DEF p, U, Adds
  <2>5. d[T] \in Int /\ c[T] = d[T] + Adds(T)
    BY <2>1, <2>2, <2>3, <2>4
  <2>6. QED
    BY <2>5
<1>5. SUBSET S \subseteq C
  <2> HIDE DEF C
  <2>1. QED
    BY <1>3, <1>4, SetSteps
<1>6. S \in C
  BY <1>5
<1>7. QED
  BY <1>1, <1>2, <1>6 DEF AddsUp

LEMMA SumOfZeros ==
  ASSUME NEW S, IsFiniteSet(S), NEW f, \A s \in S : f[s] = 0
  PROVE  SumFunctionOnSet(f, S) = 0
<1>1. PICK d : AddsUp(d, f, S)
  BY SumIs
<1> DEFINE C == {T \in SUBSET S : d[T] = 0}
<1>2. {} \in C
  BY <1>1 DEF AddsUp
<1>3. ASSUME NEW T \in SUBSET S, T # {}, T \ {PickOf(T)} \in C
      PROVE  T \in C
  <2>1. PickOf(T) \in S /\ d[T] = f[PickOf(T)] + d[T \ {PickOf(T)}]
    BY <1>1, <1>3 DEF AddsUp
  <2>2. f[PickOf(T)] = 0 /\ d[T \ {PickOf(T)}] = 0
    BY <1>3, <2>1
  <2>3. QED
    BY <2>1, <2>2
<1>4. SUBSET S \subseteq C
  <2> HIDE DEF C
  <2>1. QED
    BY <1>2, <1>3, SetSteps
<1>5. S \in C
  BY <1>4
<1>6. QED
  BY <1>1, <1>5 DEF AddsUp

-----------------------------------------------------------------------------
(* How often the states of a chain are counted *)

Once(c) == \A i, j \in 1..Len(c) : c[i] = c[j] => i = j

\* A state is once among the active ones.
LEMMA ChainOnce ==
  ASSUME NEW frame, FrameOK(frame)
  PROVE  \A s \in AllStates : Once(Chain(frame, s))
<1> DEFINE S == {s \in AllStates : Once(Chain(frame, s))}
<1>1. ASSUME NEW s \in AllStates, s \in Machines => Inner[s] \subseteq S
      PROVE  s \in S
  <2>1. CASE s \in Machines
    <3> DEFINE n == frame.current[s]
               c == Chain(frame, n)
               d == Chain(frame, s)
    <3>1. n \in Inner[s] /\ n \in AllStates /\ Once(c)
      BY <1>1, <2>1, OnRec
    <3>2. c \in Seq(AllStates) /\ c # <<>> /\ d = <<s>> \o c
      BY <2>1, <3>1, ChainRec
    <3>3. s \notin ToSet(c)
      <4>1. SUFFICES ASSUME s \in On(frame, n) PROVE FALSE
        BY DEF On
      <4>2. s = n \/ ContainsSubstate(n, s)
        BY <3>1, <4>1, OnBelow
      <4>3. ContainsSubstate(s, s)
        BY <2>1, <3>1, <4>2, ContainsRec
      <4>4. QED
        BY <4>3, NotInItself
    <3> HIDE DEF c, d, n
    <3>4. /\ Len(c) \in Nat \ {0} /\ Len(d) = Len(c) + 1 /\ d[1] = s
          /\ \A i \in 1..Len(c) : d[i + 1] = c[i]
      BY <3>2, Prepended
    <3>5. \A i \in 1..Len(c) : c[i] # s
      <4>1. DOMAIN c = 1..Len(c)
        BY <3>2
      <4>2. QED
        BY <3>3, <4>1 DEF ToSet
    <3>6. ASSUME NEW i \in 1..Len(d), NEW j \in 1..Len(d), d[i] = d[j]
          PROVE  i = j
      <4>1. \A k \in 1..Len(d) : k = 1 \/ (k - 1 \in 1..Len(c) /\ (k - 1) + 1 = k)
        BY <3>4
      <4>2. \A k \in 1..Len(d) : k # 1 => d[k] = c[k - 1] /\ d[k] # s
        BY <3>4, <3>5, <4>1
      <4>3. CASE i = 1 \/ j = 1
        BY <3>4, <3>6, <4>2, <4>3
      <4>4. CASE i # 1 /\ j # 1
        <5>1. c[i - 1] = c[j - 1] /\ i - 1 \in 1..Len(c) /\ j - 1 \in 1..Len(c)
          BY <3>6, <4>1, <4>2, <4>4
        <5>2. i - 1 = j - 1
          BY <3>1, <5>1 DEF Once
        <5>3. QED
          BY <4>1, <4>4, <5>2
      <4>5. QED
        BY <4>3, <4>4
    <3>7. Once(d)
      BY <3>6 DEF Once
    <3>8. QED
      BY <3>7 DEF d
  <2>2. CASE s \notin Machines
    <3>1. Chain(frame, s) = <<s>>
      BY <2>2, ChainRec
    <3>2. Len(<<s>>) = 1 /\ \A i \in 1..1 : i = 1
      OBVIOUS
    <3>3. QED
      BY <3>1, <3>2 DEF Once
  <2>3. QED
    BY <2>1, <2>2
<1>2. S \in SUBSET AllStates
  OBVIOUS
<1>3. S = AllStates
  <2> HIDE DEF S
  <2>1. QED
    BY <1>1, <1>2, NestingAssumption
<1>4. QED
  BY <1>3

\* Reversing a chain keeps which states are in it, and that each is once.
LEMMA ReversedOnce ==
  ASSUME NEW c \in Seq(AllStates), Once(c)
  PROVE  Once(Reverse(c)) /\ ToSet(Reverse(c)) = ToSet(c)
<1> DEFINE n == Len(c)
           r == Reverse(c)
<1>1. n \in Nat /\ DOMAIN c = 1..n
  OBVIOUS
<1>2. r = [i \in 1..n |-> c[(n - i) + 1]]
  BY DEF Reverse
<1>3. \A i \in 1..n : (n - i) + 1 \in 1..n /\ (n - ((n - i) + 1)) + 1 = i
  BY <1>1
<1>4. Len(r) = n
  BY ReverseType
<1> HIDE DEF r, n
<1>5. DOMAIN r = 1..n /\ \A i \in 1..n : r[i] = c[(n - i) + 1] /\ c[i] = r[(n - i) + 1]
  BY <1>2, <1>3
<1>6. Once(r)
  <2>1. SUFFICES ASSUME NEW i \in 1..n, NEW j \in 1..n, r[i] = r[j] PROVE i = j
    BY <1>4 DEF Once
  <2>2. c[(n - i) + 1] = c[(n - j) + 1]
    BY <1>5, <2>1
  <2>3. (n - i) + 1 = (n - j) + 1
    BY <1>3, <2>2 DEF Once, n
  <2>4. QED
    BY <1>1, <2>3
<1>7. ToSet(r) = ToSet(c)
  BY <1>1, <1>3, <1>5 DEF ToSet
<1>8. QED
  BY <1>6, <1>7 DEF r

\* A chain counts each of its states once.
LEMMA Counted ==
  ASSUME NEW counts \in [AllStates -> Nat], NEW c \in Seq(AllStates), Once(c),
         NEW s \in AllStates
  PROVE  Count(counts, c)[s] = counts[s] + IF s \in ToSet(c) THEN 1 ELSE 0
<1> DEFINE P == {i \in DOMAIN c : c[i] = s}
<1>1. DOMAIN c = 1..Len(c)
  OBVIOUS
<1>2. CASE s \in ToSet(c)
  <2>1. PICK i \in 1..Len(c) : c[i] = s
    BY <1>1, <1>2 DEF ToSet
  <2>2. P = {i}
    BY <1>1, <2>1 DEF Once
  <2>3. Cardinality(P) = 1
    BY <2>2, FS_Singleton
  <2>4. QED
    BY <1>2, <2>3 DEF Count
<1>3. CASE s \notin ToSet(c)
  <2>1. P = {}
    BY <1>1, <1>3 DEF ToSet
  <2>2. Cardinality(P) = 0
    BY <2>1, FS_EmptySet
  <2>3. QED
    BY <1>3, <2>2 DEF Count
<1>4. QED
  BY <1>2, <1>3

LEMMA NoneCounted ==
  ASSUME NEW counts \in [AllStates -> Nat]
  PROVE  \A s \in AllStates : Count(counts, <<>>)[s] = counts[s]
<1> DEFINE c == <<>>
<1>1. c \in Seq(AllStates) /\ Once(c) /\ ToSet(c) = {}
  BY DEF Once, ToSet
<1> HIDE DEF c
<1>2. ASSUME NEW s \in AllStates PROVE Count(counts, c)[s] = counts[s]
  <2>1. Count(counts, c)[s] = counts[s] + IF s \in ToSet(c) THEN 1 ELSE 0
    BY <1>1, Counted
  <2>2. counts[s] \in Nat /\ s \notin ToSet(c)
    BY <1>1
  <2>3. QED
    BY <2>1, <2>2
<1>3. QED
  BY <1>2 DEF c

\* Of the region and its states, those that are active in a frame from s down.
LEMMA BelowState ==
  ASSUME NEW frame, FrameOK(frame), NEW m \in Machines, m = Region \/ ContainsSubstate(Region, m),
         NEW s \in Inner[m], NEW x, x = Region \/ x \in Inner[Region]
  PROVE  x \in On(frame, s) <=> m = Region /\ x = s
<1>1. /\ m \in AllStates /\ s \in AllStates /\ ContainsSubstate(m, s) /\ x \in AllStates
      /\ x # Region => ContainsSubstate(Region, x)
  BY InnerStates, RegionIsMachine
<1>2. s \in On(frame, s)
  BY <1>1, OnRec
<1>3. ASSUME x \in On(frame, s) PROVE m = Region /\ x = s
  <2>1. x = s \/ ContainsSubstate(s, x)
    BY <1>1, <1>3, OnBelow
  <2>2. ContainsSubstate(m, x)
    BY <1>1, <2>1, ContainsTransitive
  <2>3. x # Region
    <3>1. SUFFICES ASSUME x = Region PROVE FALSE
      OBVIOUS
    <3>2. ContainsSubstate(Region, Region)
      BY <1>1, <2>2, <3>1, RegionIsMachine, ContainsTransitive
    <3>3. QED
      BY <3>2, RegionIsMachine, NotInItself
  <2>4. m = Region
    <3>1. m = Region \/ ContainsSubstate(m, Region)
      BY <1>1, <2>2, <2>3, RegionIsMachine, ContainsParent
    <3>2. SUFFICES ASSUME ContainsSubstate(m, Region), ContainsSubstate(Region, m) PROVE FALSE
      BY <3>1
    <3>3. ContainsSubstate(Region, Region)
      BY <1>1, <3>2, RegionIsMachine, ContainsTransitive
    <3>4. QED
      BY <3>3, RegionIsMachine, NotInItself
  <2>5. s = x
    BY <1>1, <2>1, <2>3, <2>4, OneInner
  <2>6. QED
    BY <2>4, <2>5
<1>4. QED
  BY <1>2, <1>3

\* ... and in the whole of a frame.
LEMMA WholeFrame ==
  ASSUME NEW frame, FrameOK(frame), NEW x, x = Region \/ x \in Inner[Region]
  PROVE  /\ x \in On(frame, Region) <=> x = Region \/ x = frame.current[Region]
         /\ frame.current[Region] \in Inner[Region]
<1>1. /\ On(frame, Region) = {Region} \cup On(frame, frame.current[Region])
      /\ frame.current[Region] \in Inner[Region]
  BY RegionIsMachine, OnRec
<1>2. x \in On(frame, frame.current[Region]) <=> x = frame.current[Region]
  BY <1>1, RegionIsMachine, BelowState
<1>3. QED
  BY <1>1, <1>2

-----------------------------------------------------------------------------
(* The balance of entries and exits *)

\* A popup state is final, but nothing keeps a table from leaving it.
FinalStatesStay == \A row \in Rows[Region] : Root \notin PopsFrom[row.source]

Opened(en, ex) == [s \in AllStates |-> en[s] - ex[s]]

BalanceInv ==
    /\ Opened(entered, exited)[Region] = Len(stack) - 1
    /\ SumFunctionOnSet(Opened(entered, exited), Inner[Region]) = Len(stack) - 1
    /\ \A s \in Inner[Region] : Root \in PopsFrom[s] => exited[s] = 0

\* The states of the region are finitely many, and it is not among them.
LEMMA RegionStates ==
  /\ IsFiniteSet(Inner[Region]) /\ Inner[Region] \subseteq AllStates /\ Region \notin Inner[Region]
<1>1. Inner[Region] \subseteq AllStates
  BY RegionIsMachine, DefinitionAssumption
<1>2. IsFiniteSet(AllStates)
  BY DefinitionAssumption
<1>3. Region \notin Inner[Region]
  BY RegionIsMachine, InnerStates, NotInItself
<1>4. QED
  BY <1>1, <1>2, <1>3, FS_Subset

\* What a transition of a row does to the counts and to the depth of the stack:
\* in and out are the counts without what a push or a pop adds to them.
Counts(row, in, out, pushes, pops) ==
    /\ in \in [AllStates -> Nat] /\ out \in [AllStates -> Nat]
    /\ entered' \in [AllStates -> Nat] /\ exited' \in [AllStates -> Nat]
    /\ pushes \in BOOLEAN /\ pops \in BOOLEAN /\ ~(pushes /\ pops)
    /\ Len(stack') = Len(stack) + (IF pushes THEN 1 ELSE 0) - (IF pops THEN 1 ELSE 0)
    /\ pops => Root \in PopsFrom[Leaf(NewFrame, row.target)]
    /\ \A s \in AllStates :
          /\ in[s] = entered[s] + (IF s \in On(NewFrame, row.target) THEN 1 ELSE 0)
          /\ out[s] = exited[s] + (IF s \in On(Top, row.source) THEN 1 ELSE 0)
          /\ entered'[s] = in[s] + (IF pushes /\ s \in On(NewFrame, Region) THEN 1 ELSE 0)
          /\ exited'[s] = out[s] + (IF pops /\ s \in On(Top, Region) THEN 1 ELSE 0)

LEMMA TransitionCounts ==
  ASSUME StackInv, CountInv, HandlersKeepMembers, NEW e, NEW m \in ActiveMachines,
         NEW row \in Triggered(m, e), Transition(m, row, e)
  PROVE  \E in, out, pushes, pops : Counts(row, in, out, pushes, pops)
<1> DEFINE outs == Reverse(Chain(Top, row.source))
           ins == EnteredBy(row)
           leaf == ins[Len(ins)]
           pushes == Root \in PushesTo[leaf]
           pops == Root \in PopsFrom[leaf] /\ Pops(stack)
           more == IF pushes THEN Chain(NewFrame, Region) ELSE <<>>
           less == IF pops THEN ExitedByPop(Top) ELSE <<>>
           in == Count(entered, ins)
           out == Count(exited, outs)
<1>1. row.source \in AllStates /\ row.target \in AllStates
  <2>1. row \in Rows[m] /\ m \in Machines
    BY DEF Triggered, ActiveMachines
  <2>2. QED
    BY <2>1, StackAssumption, InnerStates
<1>2. FrameOK(Top) /\ FrameOK(NewFrame)
  BY TopFrame, NewFrameFacts DEF FrameInv
<1>3. /\ ins \in Seq(AllStates) /\ Once(ins) /\ ToSet(ins) = On(NewFrame, row.target)
      /\ leaf = Leaf(NewFrame, row.target)
  BY <1>1, <1>2, ChainRec, ChainOnce DEF EnteredBy, On, Leaf
<1>4. outs \in Seq(AllStates) /\ Once(outs) /\ ToSet(outs) = On(Top, row.source)
  BY <1>1, <1>2, ChainRec, ChainOnce, ReverseType, ReversedOnce DEF On
<1>5. /\ Chain(NewFrame, Region) \in Seq(AllStates) /\ Once(Chain(NewFrame, Region))
      /\ ToSet(Chain(NewFrame, Region)) = On(NewFrame, Region)
  BY <1>2, RegionIsMachine, ChainRec, ChainOnce DEF On
<1>6. /\ ExitedByPop(Top) \in Seq(AllStates) /\ Once(ExitedByPop(Top))
      /\ ToSet(ExitedByPop(Top)) = On(Top, Region)
  BY <1>2, RegionIsMachine, ChainRec, ChainOnce, ReverseType, ReversedOnce DEF On, ExitedByPop
<1>7. entered' = Count(in, more) /\ exited' = Count(out, less)
  BY DEF Transition
<1>8. ~(pushes /\ pops)
  <2>1. leaf \in AllStates
    BY <1>1, <1>2, <1>3, LeafNoMachine, OnRec
  <2>2. QED
    BY <2>1, DefinitionAssumption
<1>9. Len(stack') = Len(stack) + (IF pushes THEN 1 ELSE 0) - (IF pops THEN 1 ELSE 0)
  <2> DEFINE target == Leaf(NewFrame, row.target)
  <2>1. PICK moved, new :
          LET done == [stack EXCEPT ![Len(stack)] = moved]
          IN  \/ Root \in PushesTo[target] /\ stack' = Append(done, new)
              \/ /\ Root \notin PushesTo[target] /\ Root \in PopsFrom[target] /\ Pops(stack)
                 /\ stack' = SubSeq(stack, 1, Len(stack) - 1)
              \/ /\ Root \notin PushesTo[target] /\ ~(Root \in PopsFrom[target] /\ Pops(stack))
                 /\ stack' = done
    BY StackMoved
  <2> DEFINE done == [stack EXCEPT ![Len(stack)] = moved]
  <2>2. PICK S : stack \in Seq(S)
    BY DEF StackInv
  <2>3. Len(stack) \in Nat \ {0} /\ Len(stack) \in 1..Len(stack)
    BY TopFrame
  <2>4. Len(done) = Len(stack) /\ done \in Seq(S \cup {moved})
    BY <2>2, <2>3
  <2>5. (pushes <=> Root \in PushesTo[target]) /\ (pops <=> Root \in PopsFrom[target] /\ Pops(stack))
    BY <1>3
  <2> HIDE DEF done, pushes, pops, target
  <2>6. CASE pushes
    <3>1. stack' = Append(done, new)
      BY <2>1, <2>5, <2>6 DEF done
    <3>2. Len(stack') = Len(stack) + 1
      BY <2>4, <3>1
    <3>3. QED
      BY <1>8, <2>3, <2>6, <3>2
  <2>7. CASE pops
    <3>1. stack' = SubSeq(stack, 1, Len(stack) - 1) /\ Pops(stack) /\ ~pushes
      BY <1>8, <2>1, <2>5, <2>7
    <3>2. Len(stack) - 1 \in 1..Len(stack)
      BY <2>3, <3>1 DEF Pops
    <3>3. Len(stack') = Len(stack) - 1
      BY <2>2, <2>3, <3>1, <3>2, SubSeqProperties
    <3>4. QED
      BY <2>3, <2>7, <3>1, <3>3
  <2>8. CASE ~pushes /\ ~pops
    <3>1. stack' = done
      BY <2>1, <2>5, <2>8 DEF done
    <3>2. QED
      BY <2>3, <2>4, <2>8, <3>1
  <2>9. QED
    BY <2>6, <2>7, <2>8
<1>10. pops => Root \in PopsFrom[Leaf(NewFrame, row.target)]
  BY <1>3
<1> HIDE DEF ins, outs, in, out
<1>11. /\ in \in [AllStates -> Nat] /\ out \in [AllStates -> Nat]
       /\ \A s \in AllStates :
             /\ in[s] = entered[s] + (IF s \in On(NewFrame, row.target) THEN 1 ELSE 0)
             /\ out[s] = exited[s] + (IF s \in On(Top, row.source) THEN 1 ELSE 0)
  <2>1. entered \in [AllStates -> Nat] /\ exited \in [AllStates -> Nat]
    BY DEF CountInv
  <2>2. in \in [AllStates -> Nat] /\ out \in [AllStates -> Nat]
    BY <1>3, <1>4, <2>1, CountType DEF in, out
  <2>3. ASSUME NEW s \in AllStates
        PROVE  in[s] = entered[s] + (IF s \in On(NewFrame, row.target) THEN 1 ELSE 0)
    BY <1>3, <2>1, Counted DEF in
  <2>4. ASSUME NEW s \in AllStates
        PROVE  out[s] = exited[s] + (IF s \in On(Top, row.source) THEN 1 ELSE 0)
    BY <1>4, <2>1, Counted DEF out
  <2>5. QED
    BY <2>2, <2>3, <2>4
<1>12. entered' \in [AllStates -> Nat] /\ exited' \in [AllStates -> Nat]
  BY CountsKept DEF CountInv
<1> HIDE DEF pushes, pops
<1>13. ASSUME NEW s \in AllStates
       PROVE  /\ entered'[s] = in[s] + (IF pushes /\ s \in On(NewFrame, Region) THEN 1 ELSE 0)
              /\ exited'[s] = out[s] + (IF pops /\ s \in On(Top, Region) THEN 1 ELSE 0)
  <2>1. in[s] \in Nat /\ out[s] \in Nat
    BY <1>11
  <2>2. ASSUME pushes
        PROVE  entered'[s] = in[s] + IF s \in On(NewFrame, Region) THEN 1 ELSE 0
    <3>1. entered' = Count(in, Chain(NewFrame, Region))
      BY <1>7, <2>2
    <3>2. QED
      BY <1>5, <1>11, <3>1, Counted
  <2>3. ASSUME ~pushes PROVE entered'[s] = in[s]
    <3>1. entered' = Count(in, <<>>)
      BY <1>7, <2>3
    <3>2. QED
      BY <1>11, <3>1, NoneCounted
  <2>4. ASSUME pops
        PROVE  exited'[s] = out[s] + IF s \in On(Top, Region) THEN 1 ELSE 0
    <3>1. exited' = Count(out, ExitedByPop(Top))
      BY <1>7, <2>4
    <3>2. QED
      BY <1>6, <1>11, <3>1, Counted
  <2>5. ASSUME ~pops PROVE exited'[s] = out[s]
    <3>1. exited' = Count(out, <<>>)
      BY <1>7, <2>5
    <3>2. QED
      BY <1>11, <3>1, NoneCounted
  <2> HIDE DEF more, less
  <2>6. entered'[s] = in[s] + (IF pushes /\ s \in On(NewFrame, Region) THEN 1 ELSE 0)
    BY <2>1, <2>2, <2>3
  <2>7. exited'[s] = out[s] + (IF pops /\ s \in On(Top, Region) THEN 1 ELSE 0)
    BY <2>1, <2>4, <2>5
  <2>8. QED
    BY <2>6, <2>7
<1>14. pushes \in BOOLEAN /\ pops \in BOOLEAN
  BY DEF pushes, pops
<1>15. Counts(row, in, out, pushes, pops)
  BY <1>8, <1>9, <1>10, <1>11, <1>12, <1>13, <1>14 DEF Counts
<1>16. QED
  BY <1>15

OpenIn(en, ex) == SumFunctionOnSet(Opened(en, ex), Inner[Region])
Shifted(a, b, v) == a \in Int /\ b = a + v

\* What one state more or less entered or exited does to the sum.
Differ(en, ex, en2, ex2, x, v) ==
    \A s \in Inner[Region] : en2[s] - ex2[s] = (en[s] - ex[s]) + IF s = x THEN v ELSE 0

LEMMA OpenedChanged ==
  ASSUME NEW en \in [AllStates -> Nat], NEW ex \in [AllStates -> Nat],
         NEW en2 \in [AllStates -> Nat], NEW ex2 \in [AllStates -> Nat],
         NEW v \in Int, NEW x \in Inner[Region], Differ(en, ex, en2, ex2, x, v)
  PROVE  Shifted(OpenIn(en, ex), OpenIn(en2, ex2), v)
<1> DEFINE f == Opened(en, ex)
           g == Opened(en2, ex2)
<1>1. \A s \in Inner[Region] : f[s] \in Int /\ g[s] = f[s] + IF s = x THEN v ELSE 0
  BY RegionStates DEF Opened, Differ
<1> HIDE DEF f, g
<1>2. /\ SumFunctionOnSet(f, Inner[Region]) \in Int
      /\ SumFunctionOnSet(g, Inner[Region]) = SumFunctionOnSet(f, Inner[Region]) + v
  <2> DEFINE S == Inner[Region]
  <2>1. IsFiniteSet(S) /\ x \in S /\ v \in Int
    BY RegionStates
  <2>2. \A s \in S : f[s] \in Int /\ g[s] = f[s] + IF s = x THEN v ELSE 0
    BY <1>1
  <2> HIDE DEF S
  <2>3. SumFunctionOnSet(f, S) \in Int /\ SumFunctionOnSet(g, S) = SumFunctionOnSet(f, S) + v
    BY ONLY <2>1, <2>2, SumChanged
  <2>4. QED
    BY <2>3 DEF S
<1>3. QED
  BY <1>2 DEF f, g, OpenIn, Shifted

\* The pop state of a region is left by no transition, also by the one that pops.
LEMMA BalanceKept ==
  ASSUME StackInv, CountInv, BalanceInv, HandlersKeepMembers, FinalStatesStay,
         NEW e, NEW m \in ActiveMachines, NEW row \in Triggered(m, e), Transition(m, row, e)
  PROVE  BalanceInv'
<1> DEFINE source == row.source
           target == row.target
           start == NewFrame.current[Region]
           cur == Top.current[Region]
<1>1. PICK in, out, pushes, pops : Counts(row, in, out, pushes, pops)
  BY TransitionCounts
<1>2. /\ m \in Machines /\ m \in On(Top, Region) /\ FrameOK(Top) /\ FrameOK(NewFrame)
      /\ m = Region \/ ContainsSubstate(Region, m)
      /\ row \in Rows[m] /\ source = Top.current[m] /\ source \in Inner[m] /\ target \in Inner[m]
  <2>1. m \in Machines /\ m \in On(Top, Region) /\ FrameOK(Top) /\ FrameOK(NewFrame)
    BY ActiveIsOn, TopFrame, NewFrameFacts DEF FrameInv
  <2>2. row \in Rows[m] /\ source = Top.current[m]
    BY DEF Triggered
  <2>3. QED
    BY <2>1, <2>2, RegionIsMachine, OnBelow, StackAssumption
<1>3. ASSUME NEW x, x = Region \/ x \in Inner[Region]
      PROVE  /\ x \in AllStates
             /\ x \in On(NewFrame, target) <=> m = Region /\ x = target
             /\ x \in On(Top, source) <=> m = Region /\ x = source
             /\ x \in On(NewFrame, Region) <=> x = Region \/ x = start
             /\ x \in On(Top, Region) <=> x = Region \/ x = cur
  BY <1>2, <1>3, RegionIsMachine, RegionStates, BelowState, WholeFrame
<1>4. start \in Inner[Region] /\ cur \in Inner[Region] /\ Region \notin Inner[Region]
  BY <1>2, RegionStates, WholeFrame
<1>5. /\ entered \in [AllStates -> Nat] /\ exited \in [AllStates -> Nat]
      /\ in \in [AllStates -> Nat] /\ out \in [AllStates -> Nat]
      /\ entered' \in [AllStates -> Nat] /\ exited' \in [AllStates -> Nat]
      /\ Len(stack) \in Nat \ {0}
  BY <1>1, TopFrame DEF Counts, CountInv
<1> DEFINE up == IF pushes THEN 1 ELSE 0
           down == IF pops THEN 1 ELSE 0
<1>6. Len(stack') = Len(stack) + up - down /\ up \in {0, 1} /\ down \in {0, 1}
  BY <1>1 DEF Counts
<1>7. ASSUME NEW x, x = Region \/ x \in Inner[Region]
      PROVE  /\ in[x] = entered[x] + (IF m = Region /\ x = target THEN 1 ELSE 0)
             /\ out[x] = exited[x] + (IF m = Region /\ x = source THEN 1 ELSE 0)
             /\ entered'[x] = in[x] + (IF x = Region \/ x = start THEN up ELSE 0)
             /\ exited'[x] = out[x] + (IF x = Region \/ x = cur THEN down ELSE 0)
  <2>1. x \in AllStates
    BY <1>3, <1>7
  <2>2. /\ in[x] = entered[x] + (IF x \in On(NewFrame, target) THEN 1 ELSE 0)
        /\ out[x] = exited[x] + (IF x \in On(Top, source) THEN 1 ELSE 0)
        /\ entered'[x] = in[x] + (IF pushes /\ x \in On(NewFrame, Region) THEN 1 ELSE 0)
        /\ exited'[x] = out[x] + (IF pops /\ x \in On(Top, Region) THEN 1 ELSE 0)
    BY <1>1, <2>1 DEF Counts
  <2> HIDE DEF source, target, start, cur
  <2>3. QED
    BY <1>3, <1>7, <2>2
<1> HIDE DEF up, down, start, cur
<1>8. \A x \in Inner[Region] : /\ x # Region /\ entered[x] \in Int /\ exited[x] \in Int
                               /\ in[x] \in Int /\ out[x] \in Int
  BY <1>4, <1>5, RegionStates
<1>a. 0 \in Int /\ 1 \in Int /\ -1 \in Int /\ up \in Int /\ -down \in Int
  BY <1>6
<1>9. OpenIn(in, out) = OpenIn(entered, exited)
  <2>1. CASE m = Region
    <3>1. Shifted(OpenIn(entered, exited), OpenIn(in, exited), 1)
      <4>1. Differ(entered, exited, in, exited, target, 1)
        BY <1>7, <1>8, <2>1 DEF Differ
      <4>2. target \in Inner[Region]
        BY <1>2, <2>1
      <4>3. QED
        BY <1>5, <1>a, <4>1, <4>2, OpenedChanged
    <3>2. Shifted(OpenIn(in, exited), OpenIn(in, out), -1)
      <4>1. Differ(in, exited, in, out, source, -1)
        BY <1>7, <1>8, <2>1 DEF Differ
      <4>2. source \in Inner[Region]
        BY <1>2, <2>1
      <4>3. QED
        BY <1>5, <1>a, <4>1, <4>2, OpenedChanged
    <3>3. QED
      BY <3>1, <3>2 DEF Shifted
  <2>2. CASE m # Region
    <3>1. Differ(entered, exited, in, out, start, 0)
      BY <1>7, <1>8, <2>2 DEF Differ
    <3>2. Shifted(OpenIn(entered, exited), OpenIn(in, out), 0)
      BY <1>4, <1>5, <1>a, <3>1, OpenedChanged
    <3>3. QED
      BY <3>2 DEF Shifted
  <2>3. QED
    BY <2>1, <2>2
<1>10. Shifted(OpenIn(in, out), OpenIn(entered', out), up)
  <2>1. Differ(in, out, entered', out, start, up)
    BY <1>6, <1>7, <1>8 DEF Differ
  <2>2. QED
    BY <1>4, <1>5, <1>a, <2>1, OpenedChanged
<1>11. Shifted(OpenIn(entered', out), OpenIn(entered', exited'), -down)
  <2>1. Differ(entered', out, entered', exited', cur, -down)
    BY <1>6, <1>7, <1>8 DEF Differ
  <2>2. QED
    BY <1>4, <1>5, <1>a, <2>1, OpenedChanged
<1>12. OpenIn(entered', exited') = Len(stack') - 1
  <2>1. OpenIn(entered, exited) = Len(stack) - 1
    BY DEF BalanceInv, OpenIn
  <2>2. QED
    BY <1>5, <1>6, <1>9, <1>10, <1>11, <2>1 DEF Shifted
<1>13. Opened(entered', exited')[Region] = Len(stack') - 1
  <2>1. entered[Region] - exited[Region] = Len(stack) - 1
    BY RegionIsMachine DEF BalanceInv, Opened
  <2>2. ~(m = Region /\ Region = target) /\ ~(m = Region /\ Region = source)
    BY <1>2, <1>4
  <2>3. in[Region] = entered[Region] /\ out[Region] = exited[Region]
    BY <1>5, <1>7, <2>2, RegionIsMachine
  <2>4. entered'[Region] = in[Region] + up /\ exited'[Region] = out[Region] + down
    BY <1>7
  <2>5. entered[Region] \in Int /\ exited[Region] \in Int
    BY <1>5, RegionIsMachine
  <2>6. entered'[Region] - exited'[Region] = Len(stack') - 1
    BY <1>5, <1>6, <2>1, <2>3, <2>4, <2>5
  <2>7. QED
    BY <2>6, RegionIsMachine DEF Opened
<1>14. ASSUME NEW s \in Inner[Region], Root \in PopsFrom[s] PROVE exited'[s] = 0
  <2>1. exited[s] = 0
    BY <1>14 DEF BalanceInv
  <2>2. ~(m = Region /\ s = source)
    BY <1>2, <1>14 DEF FinalStatesStay
  <2>3. s # cur
    <3>1. SUFFICES ASSUME s = cur PROVE FALSE
      OBVIOUS
    <3>2. m # Region
      BY <1>2, <2>2, <3>1 DEF cur
    <3>3. m \in On(Top, cur)
      BY <1>2, <3>2, RegionIsMachine, OnRec DEF cur
    <3>4. cur \in AllStates
      BY <1>4, RegionStates
    <3>5. m = cur \/ ContainsSubstate(cur, m)
      BY <1>2, <3>3, <3>4, OnBelow
    <3>6. cur \in Machines
      BY <1>2, <3>4, <3>5, ContainsRec
    <3>7. QED
      BY <1>14, <3>1, <3>6, DefinitionAssumption
  <2>4. s # Region
    BY <1>8
  <2>5. QED
    BY <1>7, <2>1, <2>2, <2>3, <2>4
<1>15. QED
  BY <1>12, <1>13, <1>14 DEF BalanceInv, OpenIn

LEMMA InitBalance ==
  ASSUME Init PROVE BalanceInv
<1>1. /\ Len(stack) = 1
      /\ \A s \in AllStates : entered[s] = 0 /\ exited[s] = 0
  BY DEF Init
<1> DEFINE f == Opened(entered, exited)
<1>2. \A s \in AllStates : f[s] = 0
  BY <1>1 DEF Opened
<1> HIDE DEF f
<1>3. SumFunctionOnSet(f, Inner[Region]) = 0
  BY <1>2, RegionStates, SumOfZeros
<1>4. f[Region] = 0 /\ \A s \in Inner[Region] : exited[s] = 0
  BY <1>1, <1>2, RegionStates, RegionIsMachine
<1>5. QED
  BY <1>1, <1>3, <1>4 DEF BalanceInv, f

LEMMA NextBalance ==
  ASSUME PushInv, BalanceInv, HandlersKeepMembers, FinalStatesStay, [Next]_vars
  PROVE  BalanceInv'
<1>1. ASSUME NEW e, NEW rest, Dispatch(e, rest) PROVE BalanceInv'
  <2>1. CASE ~Accepts(e) /\ Refuse(rest)
    <3>1. stack' = stack /\ entered' = entered /\ exited' = exited
      BY <2>1 DEF Refuse
    <3>2. QED
      BY <3>1 DEF BalanceInv
  <2>2. CASE \E m \in ActiveMachines : \E row \in Triggered(m, e) : Transition(m, row, e)
    BY <2>2, BalanceKept DEF PushInv
  <2>3. QED
    BY <1>1, <2>1, <2>2 DEF Dispatch
<1>2. CASE UNCHANGED vars
  <2>1. stack' = stack /\ entered' = entered /\ exited' = exited
    BY <1>2 DEF vars
  <2>2. QED
    BY <2>1 DEF BalanceInv
<1>3. QED
  BY <1>1, <1>2 DEF Next, Receive, RunPosted, Exhausted
-----------------------------------------------------------------------------
(* Theorems *)

\* The invariant of the stack is inductive: every frame has a current state in
\* each machine, machines that are not active are as new, and each frame but
\* the topmost is in a push state.
THEOREM PushInvariant ==
  ASSUME HandlersKeepMembers
  PROVE  Spec => []PushInv
<1>1. Init => PushInv
  BY InitPush
<1>2. PushInv /\ [Next]_vars => PushInv'
  BY NextPush
<1>3. QED
  BY <1>1, <1>2, PTL DEF Spec

\* Whatever is pushed and popped, a frame is left on the stack, and in each
\* frame every machine has one of its states as the current one.
THEOREM TypeCorrect ==
  ASSUME HandlersKeepMembers
  PROVE  Spec => []TypeOK
<1>1. PushInv => TypeOK
  <2>1. SUFFICES ASSUME PushInv PROVE TypeOK
    OBVIOUS
  <2>2. PICK S : stack \in Seq(S)
    BY <2>1 DEF PushInv, StackInv
  <2>3. DOMAIN stack = 1..Len(stack)
    BY <2>2
  <2>4. QED
    BY <2>1, <2>3 DEF TypeOK, PushInv, StackInv, CountInv, QueueInv, FrameInv, FrameOK
<1>2. QED
  BY <1>1, PushInvariant, PTL

\* A frame below the topmost waits in the push state that has made the frame
\* above it.
THEOREM FramesWait ==
  ASSUME HandlersKeepMembers
  PROVE  Spec => []LowerFramesWait
<1>1. PushInv => LowerFramesWait
  BY DEF PushInv, LowerFramesWait, Waits, Leaf
<1>2. QED
  BY <1>1, PushInvariant, PTL

\* For any definition and whatever has happened, is_in_state tells for every
\* state whether all on the path to it are current in the topmost frame.
THEOREM InStateTellsActive ==
  ASSUME HandlersKeepMembers
  PROVE  Spec => []InStateIsActive
<1>1. PushInv => InStateIsActive
  <2>1. SUFFICES ASSUME PushInv, NEW s \in AllStates
                 PROVE  IsInState(Top.current, Root, s)
                          <=> Along(Top.current, StatePath(Root, s))
    BY DEF InStateIsActive, Along
  <2>2. FrameOK(Top)
    BY <2>1, TopFrame DEF PushInv, FrameInv
  <2>3. Root \in AllStates /\ (Root = s \/ ContainsSubstate(Root, s))
    BY StackAssumption, DefinitionAssumption
  <2>4. QED
    BY <2>2, <2>3, InStateAlong
<1>2. QED
  BY <1>1, PushInvariant, PTL

\* For any definition and whatever is pushed and popped: over all frames, one
\* state of the region is entered per exit, and the region itself once per
\* frame; and no pop state that is current in the region is ever exited, though
\* the transition that enters it may pop the frame it is made in.
THEOREM EntriesBalance ==
  ASSUME HandlersKeepMembers, FinalStatesStay
  PROVE  Spec => []ExitsBalance
<1>1. Init => BalanceInv
  BY InitBalance
<1>2. PushInv /\ BalanceInv /\ [Next]_vars => BalanceInv'
  BY NextBalance
<1>3. BalanceInv => ExitsBalance
  BY DEF BalanceInv, ExitsBalance, Opened
<1>4. QED
  BY <1>1, <1>2, <1>3, PushInvariant, PTL DEF Spec
=============================================================================

----------------------------- MODULE Definitions -----------------------------
(***************************************************************************)
(* What the metafunctions of include/afsm/definition.hpp compute from the  *)
(* definition of a machine, and what is_in_state makes of it               *)
(* (include/afsm/detail/base_states.hpp).                                  *)
(*                                                                         *)
(* A definition is a tree of states.  The metafunctions recurse over types;*)
(* here they are recursive functions over the states.                      *)
(***************************************************************************)
EXTENDS Integers, Sequences, FiniteSets

CONSTANTS
    AllStates,  \* state types, machines included
    Machines,   \* those that are state machines
    Regional,   \* machines with orthogonal regions
    Inner,      \* per machine: its states, or its regions (inner_states)
    PushesTo,   \* per state: {m} if it is a push<_, m>, else {}
    PopsFrom    \* per state: {m} if it is a pop<_, m>, else {}

\* A push or a pop is a simple state, and not both.
ASSUME DefinitionAssumption ==
    /\ Machines \subseteq AllStates
    /\ Regional \subseteq Machines
    /\ Inner \in [Machines -> SUBSET AllStates]
    /\ PushesTo \in [AllStates -> SUBSET Machines]
    /\ PopsFrom \in [AllStates -> SUBSET Machines]
    /\ \A s \in AllStates : PushesTo[s] = {} \/ PopsFrom[s] = {}
    /\ \A m \in Machines : PushesTo[m] = {} /\ PopsFrom[m] = {}
    /\ IsFiniteSet(AllStates)

\* A type is complete where it is a member: no state is inside itself, however
\* deep, and what is so of a machine if it is so of its states is so of all.
ASSUME NestingAssumption ==
    \A S \in SUBSET AllStates :
        (\A s \in AllStates : (s \in Machines => Inner[s] \subseteq S) => s \in S)
            => S = AllStates

\* contains_substate, and contains_recursively for each of its states.
ContainsSubstate(m, s) ==
    LET contains[n \in AllStates] ==
            n \in Machines /\ \E i \in Inner[n] : i = s \/ contains[i]
    IN  contains[m]

\* The state of machine n that is s or contains it.
Toward(n, s) == CHOOSE i \in Inner[n] : i = s \/ ContainsSubstate(i, s)

\* state_path: from a machine down to a state in it, both included.
StatePath(m, s) ==
    LET path[n \in AllStates] ==
            IF n = s THEN <<n>>
            ELSE IF ContainsSubstate(n, s) THEN <<n>> \o path[Toward(n, s)] ELSE <<>>
    IN  path[m]

ContainsPushdowns[m \in AllStates] ==
    m \in Machines /\ \E i \in Inner[m] : PushesTo[i] # {} \/ ContainsPushdowns[i]

ContainsPopups[m \in AllStates] ==
    m \in Machines /\ \E i \in Inner[m] : PopsFrom[i] # {} \/ ContainsPopups[i]

\* state_pushes and state_pops: of a machine, what its states do.
StatePushes[s \in AllStates, m \in Machines] ==
    IF s \in Machines THEN \E i \in Inner[s] : StatePushes[i, m] ELSE m \in PushesTo[s]

StatePops[s \in AllStates, m \in Machines] ==
    IF s \in Machines THEN \E i \in Inner[s] : StatePops[i, m] ELSE m \in PopsFrom[s]

IsPushed(m) == m \in Machines /\ \E i \in Inner[m] : StatePushes[i, m]
IsPopped(m) == m \in Machines /\ \E i \in Inner[m] : StatePops[i, m]

\* The machine's states are kept in a stack.
HasPushdownStack(m) == IsPushed(m) /\ IsPopped(m)

-----------------------------------------------------------------------------
\* state_containment_type: which overload of is_in_state is taken.
Containment(m, s) ==
    CASE m = s                                        -> "self"
      [] s \in Inner[m]                               -> "immediate"
      [] \E i \in Inner[m] : ContainsSubstate(i, s)   -> "substate"
      [] OTHER                                        -> "none"

\* is_in_state of an immediate state: compared with current_state_, while the
\* regions of a machine are always active.
InImmediate(current, m, s) == m \in Regional \/ current[m] = s

\* Mutant: an inner machine is asked whether or not it is current.
IsInStateBelow(current, m, s) ==
    LET in[n \in AllStates] ==
            \/ n = s
            \/ /\ n \in Machines
               /\ \/ Containment(n, s) = "immediate" /\ InImmediate(current, n, s)
                  \/ /\ Containment(n, s) = "substate"
                     /\ \E i \in Inner[n] : ContainsSubstate(i, s) /\ in[i]
    IN  in[m]

\* is_in_state<s>() of machine m, and is_in_substate for what is deeper in it:
\* in the machine itself it always is, and a simple state is in itself only.
IsInState(current, m, s) ==
    LET in[n \in AllStates] ==
            \/ n = s
            \/ /\ n \in Machines
               /\ \/ Containment(n, s) = "immediate" /\ InImmediate(current, n, s)
                  \/ /\ Containment(n, s) = "substate"
                     /\ \E i \in Inner[n] : /\ ContainsSubstate(i, s)
                                            /\ InImmediate(current, n, i)
                                            /\ in[i]
    IN  in[m]
=============================================================================

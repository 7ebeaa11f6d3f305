----------------------------- MODULE MCStateTree -----------------------------
(***************************************************************************)
(* Instances of StateTree for TLC.                                         *)
(*                                                                         *)
(* Plant* extends the machine of test/orthogonal_states_test.cpp with what *)
(* the tests do not combine: a deferring region, internal transitions of a *)
(* machine with regions, a self-transition of it, handlers that write, a   *)
(* machine beside it that makes default transitions when entered, and      *)
(* handlers and guards that throw. What the inner machines throw on, the   *)
(* outer one consumes if it happens in one of its own transitions. No      *)
(* region knows "ping": it passes the static selection of `plant` and      *)
(* stops at that of `on`, which has an internal transition for it.         *)
(*                                                                         *)
(* Risk* is a small machine in which every handler may throw.  Events      *)
(* carry no data here.                                                     *)
(***************************************************************************)
EXTENDS StateTree

Row(from, event_, to, guard) ==
    [from |-> from, event |-> event_, to |-> to, guard |-> guard]
In(event_, guard) == [event |-> event_, guard |-> guard]
NoRows(states, internal) ==
    [s \in states |-> IF s \in DOMAIN internal THEN internal[s] ELSE <<>>]

\* What guards may answer, by name, in all the instances.
MCVerdicts(guard, e, holds) == IF guard = "any" THEN BOOLEAN ELSE {TRUE}

-----------------------------------------------------------------------------
PlantParent ==
    [off |-> "plant", standby |-> "plant", test |-> "plant", on |-> "plant",
     t1 |-> "test", t2 |-> "test", work |-> "on", error |-> "on",
     a |-> "work", b |-> "work", no |-> "error", yes |-> "error"]
PlantStates == DOMAIN PlantParent \cup {"plant"}
PlantInitial == [plant |-> "off", test |-> "t1", work |-> "a", error |-> "no"]
PlantRegions == [on |-> <<"work", "error">>]
PlantEvents == {"power", "reset", "do", "fail", "tick", "ping"}
PlantTypeOf == [e \in PlantEvents |-> e]
PlantTable ==
    [plant |-> <<Row("off", "power", "on", "none"),
                 Row("off", "tick", "test", "none"),
                 Row("test", "power", "on", "any"),
                 Row("test", "power", "off", "none"),
                 Row("standby", None, "off", "any"),
                 Row("standby", "power", "on", "none"),
                 Row("on", "power", "standby", "none"),
                 Row("on", "reset", "on", "none"),
                 Row("on", "fail", "off", "any")>>,
     test  |-> <<Row("t1", "tick", "t2", "none"),
                 Row("t1", None, "t2", "any"),
                 Row("t2", "tick", "t1", "any")>>,
     work  |-> <<Row("a", "do", "b", "any"),
                 Row("a", "do", "a", "any"),
                 Row("b", "do", "a", "none")>>,
     error |-> <<Row("no", "fail", "yes", "any"),
                 Row("yes", "do", "no", "any")>>]
PlantInternal ==
    NoRows(PlantStates, [on |-> <<In("do", "none"), In("ping", "none")>>, yes |-> <<In("fail", "any")>>,
                         b |-> <<In("tick", "any")>>, test |-> <<In("tick", "none")>>])
PlantDeferred ==
    [s \in PlantStates |-> CASE s = "a"  -> {"tick"}
                             [] s = "b"  -> {"fail"}
                             [] s = "t2" -> {"do"}
                             [] OTHER    -> {}]
NoEffects(h, e, holds) == {holds}
PlantGuarantee ==
    [m \in DOMAIN PlantInitial |-> IF m = "plant" THEN "nothrow" ELSE "strong"]

PlantThrowing ==
    {<<kind, s, 0>> : kind \in {"enter", "exit"}, s \in PlantStates}
      \cup {<<kind, m, i>> : kind \in {"action", "guard"}, m \in DOMAIN PlantInitial, i \in 1..9}
PlantWrites(h) ==
    CASE h[1] = "enter"    -> {h[2]} \cap {"b", "t2", "yes"}
      [] h[1] = "internal" -> {h[2]}
      [] h = <<"action", "work", 2>> -> {"a", "work"}
      [] OTHER             -> {}
NoPosts(h, e) == <<>>

-----------------------------------------------------------------------------
RiskParent ==
    [idle |-> "risk", run |-> "risk", other |-> "risk", p |-> "run", q |-> "run"]
RiskStates == DOMAIN RiskParent \cup {"risk"}
RiskInitial == [risk |-> "idle", run |-> "p"]
RiskEvents == {"go", "stop", "step", "poke"}
RiskTypeOf == [e \in RiskEvents |-> e]
RiskTable ==
    [risk |-> <<Row("idle", "go", "run", "any"),
                Row("idle", "go", "other", "none"),
                Row("run", "stop", "idle", "none"),
                Row("run", "step", "other", "any"),
                Row("other", "go", "idle", "none"),
                Row("other", None, "run", "any")>>,
     run  |-> <<Row("p", "step", "q", "any"),
                Row("q", "step", "p", "none"),
                Row("p", None, "q", "any")>>]
RiskInternal == NoRows(RiskStates, [run |-> <<In("poke", "any"), In("poke", "any")>>])
RiskThrowing ==
    {<<kind, s, 0>> : kind \in {"enter", "exit"}, s \in RiskStates}
      \cup {<<kind, "risk", i>> : kind \in {"action", "guard"}, i \in 1..6}
      \cup {<<kind, "run", i>> : kind \in {"action", "guard"}, i \in 1..3}
      \cup {<<"check", "run", 1>>, <<"internal", "run", 2>>}
RiskWrites(h) ==
    CASE h[1] \in {"enter", "exit"} -> {h[2]}
      [] h[1] = "action" -> {h[2], RiskTable[h[2]][h[3]].from}
      [] OTHER -> {}
RiskStrong == [m \in {"risk", "run"} |-> "strong"]
RiskNothrow == [m \in {"risk", "run"} |-> "nothrow"]

-----------------------------------------------------------------------------
NoRegions == << >>
NoStates == {}
NoFacts == {{}}
RiskDeferred == [s \in RiskStates |-> {}]
=============================================================================

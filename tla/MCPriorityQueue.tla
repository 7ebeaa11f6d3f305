---------------------------- MODULE MCPriorityQueue ----------------------------
(***************************************************************************)
(* Two machines for TLC to run PriorityQueue on, in one set of tables: the *)
(* initial configuration picks the machine.                                *)
(*                                                                         *)
(* The first is the transaction of test/transaction_priority_fsm.cpp:      *)
(* 64-279 without its errors and its end; `execute` stands for the events  *)
(* it defers, and the state that handles it defers nothing.                *)
(*                                                                         *)
(* The second, s1 to s3, the tests have no example of: it handles some     *)
(* deferred events while it goes on to defer others, so scans are nested,  *)
(* and the guard of its transition from s2 may refuse.                     *)
(***************************************************************************)
EXTENDS PriorityQueue

MCTypes == {"ready", "execute", "a", "b", "c"}
MCStates == {"starting", "idle", "simpleQuery", "s1", "s2", "s3"}
MCInitStates == {"starting", "s1"}
MCPriorities == {1, 2}
MCKnown == [s \in MCStates |-> IF s \in {"s1", "s2", "s3"} THEN {"a", "b", "c"}
                               ELSE {"ready", "execute"}]
Nowhere == [t \in MCTypes |-> {}]

MCTargets ==
    [s \in MCStates |->
        CASE s = "starting"    -> [Nowhere EXCEPT !["ready"] = {"idle"}]
          [] s = "idle"        -> [Nowhere EXCEPT !["execute"] = {"simpleQuery"}]
          [] s = "simpleQuery" -> [Nowhere EXCEPT !["ready"] = {"idle"}]
          [] s = "s1"          -> [Nowhere EXCEPT !["c"] = {"s2"}]
          [] s = "s2"          -> [Nowhere EXCEPT !["b"] = {"s3"}]
          [] s = "s3"          -> [Nowhere EXCEPT !["a"] = {"s2"}]
          [] OTHER             -> Nowhere]
MCInState ==
    [s \in MCStates |-> CASE s = "idle" -> {"ready"}
                          [] s = "s3"   -> {"b"}
                          [] OTHER      -> {}]
MCGuarded == [s \in MCStates |-> IF s = "s2" THEN {"b"} ELSE {}]
MCDeferrable ==
    [s \in MCStates |-> CASE s \in {"starting", "simpleQuery"} -> {"execute"}
                          [] s = "s1"                          -> {"a", "b"}
                          [] s = "s2"                          -> {"a", "c"}
                          [] s = "s3"                          -> {"b"}
                          [] OTHER                             -> {}]
=============================================================================

--------------------------- MODULE MCDeferredQueue ---------------------------
(***************************************************************************)
(* Two machines for TLC to run DeferredQueue on, in one set of tables: the *)
(* initial configuration picks the machine.                                *)
(*                                                                         *)
(* Trx* is the connection machine of test/transaction_fsm.cpp:137-260,     *)
(* flattened to what its deferral depends on: a transaction starts, runs   *)
(* simple queries and ends; `execute` and `commit` stand for the deferred  *)
(* events.  Its states neither defer what they handle nor have guards.     *)
(*                                                                         *)
(* Region* is a machine the tests have no example of.  In s2 the deferred  *)
(* type b is handled, under a guard, and a is still deferred; in s3 one    *)
(* orthogonal region handles a under a guard while another defers it.      *)
(***************************************************************************)
EXTENDS DeferredQueue

MCTypes == {"begin", "ready", "error", "execute", "commit", "a", "b", "c"}
Nowhere == [t \in MCTypes |-> {}]

TrxStates == {"idle", "starting", "trxIdle", "simpleQuery", "tranError", "exiting"}
TrxRow(s) ==
    CASE s = "idle"        -> [Nowhere EXCEPT !["begin"] = {"starting"}]
      [] s = "starting"    -> [Nowhere EXCEPT !["ready"] = {"trxIdle"}]
      [] s = "trxIdle"     -> [Nowhere EXCEPT !["execute"] = {"simpleQuery"},
                                                        !["commit"] = {"exiting"},
                                                        !["error"] = {"exiting"}]
      [] s = "simpleQuery" -> [Nowhere EXCEPT !["ready"] = {"trxIdle"},
                                                        !["error"] = {"tranError"}]
      [] s = "tranError"   -> [Nowhere EXCEPT !["ready"] = {"exiting"}]
      [] s = "exiting"     -> [Nowhere EXCEPT !["ready"] = {"idle"}]
RegionStates == {"s1", "s2", "s3"}
RegionRow(s) ==
    CASE s = "s1" -> [Nowhere EXCEPT !["c"] = {"s2"}]
      [] s = "s2" -> [Nowhere EXCEPT !["b"] = {"s1", "s2"}, !["c"] = {"s3"}]
      [] s = "s3" -> [Nowhere EXCEPT !["a"] = {"s3"}, !["c"] = {"s1"}]

MCStates == TrxStates \cup RegionStates
MCInitStates == {"idle", "s3"}
MCKnown == [s \in MCStates |-> IF s \in RegionStates THEN {"a", "b", "c"}
                               ELSE MCTypes \ {"a", "b", "c"}]
MCTargets == [s \in MCStates |-> IF s \in RegionStates THEN RegionRow(s) ELSE TrxRow(s)]
MCInState ==
    [s \in MCStates |-> CASE s = "trxIdle"   -> {"ready"}
                          [] s = "tranError" -> {"commit"}
                          [] s = "exiting"   -> {"commit", "execute"}
                          [] OTHER           -> {}]
MCDeferrable ==
    [s \in MCStates |-> CASE s \in {"starting", "simpleQuery"} -> {"execute", "commit"}
                          [] s \in {"s1", "s3"}                -> {"a", "b"}
                          [] s = "s2"                          -> {"a"}
                          [] OTHER                             -> {}]
MCGuarded == [s \in MCStates |-> IF s = "s2" THEN {"b"} ELSE {}]
=============================================================================

---------------------------- MODULE MCEventQueue ----------------------------
(***************************************************************************)
(* Instances of EventQueue for TLC.  Symmetry is for the run that checks   *)
(* no liveness property and treats all threads and events alike.           *)
(***************************************************************************)
EXTENDS EventQueue, TLC

CONSTANTS t1, t2, t3, e1, e2, e3, e4

TwoThreads == {t1, t2}
ThreeThreads == {t1, t2, t3}
ThreeEvents == {e1, e2, e3}
FourEvents == {e1, e2, e3, e4}
First == {e1}
Second == {e2}
None == {}

Symmetry == Permutations(ThreeThreads) \cup Permutations(FourEvents)
=============================================================================

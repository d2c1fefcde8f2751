---------------------------- MODULE MCTimerStore ----------------------------
(* Small instances of TimerStore.  One id is enough: no step of the module *)
(* reads or writes the state of two ids.                                   *)
EXTENDS TimerStoreInv

CONSTANTS b1, b2, b3, r1, i1

OneId == [x \in Body \cup Request |-> i1]
=============================================================================

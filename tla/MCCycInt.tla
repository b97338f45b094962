------------------------------ MODULE MCCycInt ------------------------------
(***************************************************************************)
(* CycInt for TLC: two or three interrupts, a CPU cycle of 2 and an MFP    *)
(* cycle of 3 internal units (as in the code, neither divides the other),  *)
(* and an IntMax small enough for an event to lie beyond it.               *)
(***************************************************************************)
EXTENDS CycInt

MCInstrCycles == {1, 2}
MCTimes == {1, 2}
MCAdjustments == {-1}
MCAdjustable == {1}
MCRemovable == {2}
=============================================================================

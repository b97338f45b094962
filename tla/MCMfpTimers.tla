---------------------------- MODULE MCMfpTimers ----------------------------
(***************************************************************************)
(* MfpTimers for TLC: divisors 1 and 2 and counters of two bits, with a    *)
(* CPU cycle of 2 and an MFP cycle of 3 units, so that a period may be     *)
(* shorter than an instruction; one timer, of the kind of A and B, that    *)
(* has all the modes.                                                      *)
(***************************************************************************)
EXTENDS MfpTimers

TimerA == {"A"}
RegisterA == {{"A"}}
ControlsA == {0, 1, 2, 8, 9}
MCMFPDiv == [c \in 1 .. 7 |-> c]
MCInstrCycles == {1, 4}
=============================================================================

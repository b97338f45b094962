------------------------------- MODULE MCMfp -------------------------------
(***************************************************************************)
(* Mfp for TLC: channels split over two register halves, instructions of 1 *)
(* or 2 units, an IRQ delay of one.                                        *)
(***************************************************************************)
EXTENDS Mfp

MCBanks == {{0}, {1}}
MCInstrCycles == {1, 2}
=============================================================================

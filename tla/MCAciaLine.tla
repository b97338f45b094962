----------------------------- MODULE MCAciaLine -----------------------------
(***************************************************************************)
(* AciaLine for TLC: characters of two bits, the default parameters, and   *)
(* every interrupt enabled or none.                                        *)
(***************************************************************************)
EXTENDS AciaLine

MCControls == {[divide |-> "64", tx |-> "irq", rie |-> TRUE, word |-> Standard]}
MCCpuBytes == {<<0, 1>>}
MCKeyBytes == {<<1, 0>>}
MCMidiControls == {[rie |-> TRUE, tx |-> "irq"], [rie |-> FALSE, tx |-> "no irq"]}
=============================================================================

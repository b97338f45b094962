------------------------------- MODULE MCAcia -------------------------------
(***************************************************************************)
(* Acia for TLC: characters of two bits.  Besides the default parameters,  *)
(* the processor may set a parity bit, or send a break, with the master    *)
(* reset.                                                                  *)
(***************************************************************************)
EXTENDS Acia

Odd == [bits |-> SciBits, parity |-> "odd", stops |-> 1]
Control(d, t, r, w) == [divide |-> d, tx |-> t, rie |-> r, word |-> w]

MCControls == {Control("64", "irq", TRUE, Standard), Control("reset", "no irq", FALSE, Odd)}
MCCpuBytes == {<<0, 1>>}
MCKeyBytes == {<<1, 0>>}
=============================================================================

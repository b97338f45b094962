------------------------------ MODULE AciaLine ------------------------------
(***************************************************************************)
(* The keyboard's ACIA and the MIDI port on their line of the MFP.  In the *)
(* machine their outputs are joined, so that the line is low while either  *)
(* asks for an interrupt.  Here each sets the bit of GPIP on its own.      *)
(***************************************************************************)
EXTENDS Acia

CONSTANTS MidiControls

VARIABLES
    mcr, msr, due,      \* the MIDI port
    unset               \* nobody has raised the line since MFP_Reset

M == INSTANCE Midi

midi == <<mcr, msr, due>>
lineVars == <<vars, midi, unset>>

LineInit == Init /\ M!Init /\ unset = TRUE

Follow == unset' = (unset /\ low')

KeyboardTick == Tick /\ UNCHANGED midi /\ Follow

Port == M!Next /\ UNCHANGED <<cr, sr, srRead, overrun, tdr, rdr, clock, told, lines>>

(* The RESET instruction leaves the MIDI port alone, the button does not.  *)
LineReset ==
    /\ Reset /\ unset' = TRUE
    /\ UNCHANGED midi \/ M!Reset

LineNext ==
    \/ KeyboardTick
    \/ (\E k \in KeyBytes : Send(k)) /\ UNCHANGED midi /\ Follow
    \/ Processor /\ UNCHANGED midi /\ Follow
    \/ Port /\ Follow
    \/ LineReset

LineSpec == LineInit /\ [][LineNext]_lineVars /\ WF_lineVars(KeyboardTick)
-----------------------------------------------------------------------------
(* When the line is low, one of the two asks for an interrupt, unless      *)
(* nobody has raised it since the reset of the MFP, which leaves it low:   *)
(* no handler lowers it, or fails to raise it, for a request that is over. *)
LowIsRequested == low => unset \/ "irq" \in sr \/ "irq" \in msr

(* The two ACIAs "share the same IRQ bit in GPIP4" (acia.c:350): a request *)
(* of either holds the line.                                               *)
RequestIsLow == ("irq" \in sr \/ "irq" \in msr) => low
=============================================================================

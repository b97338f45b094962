-------------------------------- MODULE Midi --------------------------------
(***************************************************************************)
(* The MIDI port of midi.c: an ACIA of its own, byte by byte, that drives  *)
(* the same line of the MFP as the keyboard's.  The time at which TDR will *)
(* be empty is left open.  The bytes themselves are left out.              *)
(***************************************************************************)
CONSTANTS MidiControls      \* what the processor may write to CR, records of rie and tx

VARIABLES
    mcr, msr,           \* MidiControlRegister, bits of MidiStatusRegister
    due,                \* CyclesGlobalClockCounter > TDR_Empty_Time
    low                 \* line 4 of GPIP

mvars == <<mcr, msr, due, low>>

NoMidiControl == [rie |-> FALSE, tx |-> "no irq"]

Init == mcr = NoMidiControl /\ msr = {"tdre"} /\ due = TRUE /\ low = TRUE
-----------------------------------------------------------------------------
Causes(control, status) ==
    \/ control.rie /\ "rdrf" \in status
    \/ control.tx = "irq" /\ "tdre" \in status

(* MIDI_UpdateIRQ                                                          *)
UpdateIRQ(control, status) ==
    LET irq == Causes(control, status)
    IN /\ msr' = IF irq THEN status \cup {"irq"} ELSE status \ {"irq"}
       /\ low' = IF irq = ("irq" \in status) THEN low ELSE irq

Emptied == IF due THEN msr \cup {"tdre"} ELSE msr

(* The time of TDR comes.                                                  *)
Elapse == ~due /\ due' = TRUE /\ UNCHANGED <<mcr, msr, low>>

(* Midi_InterruptHandler_Update: a byte may have come.  The flags are only *)
(* set, so that one look at the causes stands for the two of the code.     *)
Update(received) ==
    /\ UpdateIRQ(mcr, IF received THEN Emptied \cup {"rdrf"} ELSE Emptied)
    /\ UNCHANGED <<mcr, due>>

(* The status register brings TDRE up to date.                             *)
ReadSR == UpdateIRQ(mcr, Emptied) /\ UNCHANGED <<mcr, due>>

WriteCR(c) == mcr' = c /\ UpdateIRQ(c, msr) /\ UNCHANGED due

ReadData == UpdateIRQ(mcr, msr \ {"rdrf"}) /\ UNCHANGED <<mcr, due>>

WriteData == due' = FALSE /\ UpdateIRQ(mcr, msr \ {"tdre"}) /\ UNCHANGED mcr

(* Midi_Reset, after MFP_Reset: the line is not touched.                   *)
Reset ==
    /\ mcr' = NoMidiControl /\ msr' = {"tdre"} /\ due' = TRUE
    /\ low' = TRUE

Next ==
    \/ Elapse
    \/ \E received \in BOOLEAN : Update(received)
    \/ ReadSR
    \/ \E c \in MidiControls : WriteCR(c)
    \/ ReadData
    \/ WriteData
=============================================================================

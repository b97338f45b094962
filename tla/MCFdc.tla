------------------------------- MODULE MCFdc -------------------------------
(***************************************************************************)
(* Fdc for TLC: one drive with two positions of the head, a disk of one    *)
(* track and one sector of one byte, and every limit on index pulses 1.    *)
(* Track 1 is a track that the disk does not have, and sector 2, to which  *)
(* a read of several sectors goes on, one that no track has.               *)
(***************************************************************************)
EXTENDS Fdc
CONSTANTS d0

Cmd(op, noSpinUp, settle, more, when) ==
    [op |-> op, noSpinUp |-> noSpinUp, settle |-> settle, more |-> more, cond |-> when]
Plain(op) == Cmd(op, FALSE, FALSE, FALSE, {})

(* Every operation of the handler, with and without spin-up, settling of   *)
(* the head and further sectors; a forced interrupt and the end of one     *)
AllOperations ==
    {Cmd("restore", FALSE, TRUE, FALSE, {}), Cmd("seek", TRUE, FALSE, FALSE, {}),
     Cmd("stepIn", TRUE, FALSE, FALSE, {}), Cmd("readSector", FALSE, FALSE, TRUE, {}),
     Cmd("writeSector", FALSE, TRUE, FALSE, {}),
     Cmd("readAddress", FALSE, TRUE, FALSE, {}), Plain("readTrack"), Plain("writeTrack"),
     Cmd("force", FALSE, FALSE, FALSE, {"index", "immediate"}), Plain("force")}
=============================================================================

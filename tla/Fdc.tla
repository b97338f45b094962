-------------------------------- MODULE Fdc --------------------------------
(***************************************************************************)
(* The floppy disk controller of fdc.c: the WD1772 with its DMA, the       *)
(* drives it selects, and the interrupt line that it shares with the hard  *)
(* disk.  A command is a sequence of states; the handler of INTERRUPT_FDC  *)
(* goes from one to the next, at once (Continue) or after a delay (Wait),  *)
(* and between two calls of the handler the processor may write any        *)
(* register, select another drive or start another command, and the user   *)
(* may change the disk.                                                    *)
(*                                                                         *)
(* Time is left out: an index pulse is counted or not whenever             *)
(* FDC_UpdateAll looks for one, and any sector may be the next to pass.    *)
(***************************************************************************)
EXTENDS Integers, FiniteSets

CONSTANTS
    Drives,         \* the drives, all enabled
    NoDrive,        \* FDC.DriveSelSignal = -1
    Commands,       \* the command bytes the processor may write
    Values,         \* what it may write to the other registers
    RegMax,         \* 255, the largest value of TR, SR and DR
    MaxTrack,       \* FDC_PHYSICAL_MAX_TRACK
    DiskTracks,     \* tracks of a disk image
    Sectors,        \* sectors per track, numbered from 1
    SpinUpPulses, AddressPulses, MotorOffPulses,    \* FDC_DELAY_IP_...
    SectorBytes, IdBytes, TrackBytes,   \* bytes of a sector, an ID field, a track
    Protections,    \* the write protections that the configuration gives to disks
    AcsiEmuOn,      \* is there a hard disk on the same interrupt line?
    MaxPulses       \* bound: pulses are not counted beyond this

Ops == {"restore", "seek", "step", "stepIn", "stepOut", "readSector", "writeSector",
        "readAddress", "readTrack", "writeTrack", "force"}

ASSUME FdcAssumption ==
    /\ NoDrive \notin Drives
    /\ Commands \subseteq [op : Ops, noSpinUp : BOOLEAN, settle : BOOLEAN,
                           more : BOOLEAN, cond : SUBSET {"index", "immediate"}]
    /\ RegMax \in Nat /\ Values \subseteq 0 .. RegMax
    /\ MaxTrack \in Nat /\ 0 < MaxTrack /\ MaxTrack < RegMax
    /\ DiskTracks \in Nat /\ Sectors \in Nat /\ Sectors < RegMax
    /\ {SpinUpPulses, AddressPulses, MotorOffPulses} \subseteq Nat \ {0}
    /\ {SectorBytes, IdBytes, TrackBytes} \subseteq Nat \ {0}
    /\ Protections \subseteq BOOLEAN /\ AcsiEmuOn \in BOOLEAN
    /\ MaxPulses \in Nat
    /\ \A n \in {SpinUpPulses, AddressPulses, MotorOffPulses} : n =< MaxPulses

VARIABLES
    cr, cmdType,            \* FDC.CR and FDC.CommandType
    command, state,         \* FDC.Command and FDC.CommandState
    replaceable,            \* FDC.ReplaceCommandPossible
    tr, sr, dr, dir,        \* track, sector, data register, FDC.StepDirection
    str,                    \* the bits of FDC.STR that matter here
    cond,                   \* FDC.InterruptCond
    sig,                    \* irq: sources in FDC.IRQ_Signal; low: line 5 of GPIP
    pulses, known,          \* FDC.IndexPulse_Counter; is IndexPulse_Time set?
    sel, head,              \* FDC.DriveSelSignal; FDC_DRIVES[].HeadTrack
    inserted, protected,    \* the disk of a drive
    id,                     \* FDC.NextSector_ID_Field_TR and _SR
    bytes,                  \* of FDC_BUFFER to read, or FDC_DMA.BytesToTransfer
    armed, looping          \* INTERRUPT_FDC is in the table; its handler runs

regs == <<tr, sr, dr, dir>>
disks == <<sel, head, inserted, protected>>
spin == <<pulses, known>>
moved == <<id, bytes>>
vars == <<cr, cmdType, command, state, replaceable, regs, str, cond, sig, spin,
          disks, moved, armed, looping>>

TypeI == {"restore", "seek", "step", "stepIn", "stepOut"}
TypeII == {"readSector", "writeSector"}
TypeOf(op) == CASE op \in TypeI -> 1 [] op \in TypeII -> 2 [] op = "force" -> 4 [] OTHER -> 3
CommandOf(op) == IF op \in {"stepIn", "stepOut"} THEN "step" ELSE op

Running == Ops \ {"stepIn", "stepOut", "force"}
States == {"start", "spinUp", "headLoad", "motorOn", "loop", "verify", "verifyHeadOk",
           "verifyNext", "verifyCheck", "next", "check", "index", "transferStart",
           "transfer", "crc", "multi", "rnf", "complete", "stop", "stopWait", "null"}

NoCommand == [op |-> "restore", noSpinUp |-> FALSE, settle |-> FALSE, more |-> FALSE,
              cond |-> {}]      \* FDC.CR = 0

Init ==
    /\ cr = NoCommand /\ cmdType = 0
    /\ command = "null" /\ state = "null" /\ replaceable = FALSE
    /\ tr = 0 /\ sr = 1 /\ dr = 0 /\ dir = 1
    /\ str = {} /\ cond = {} /\ sig = [irq |-> {}, low |-> FALSE]
    /\ pulses = 0 /\ known = [d \in Drives |-> FALSE]
    /\ sel = NoDrive /\ head = [d \in Drives |-> 0]
    /\ inserted \in [Drives -> BOOLEAN] /\ protected \in [Drives -> Protections]
    /\ id = [tr |-> 0, sr |-> 1] /\ bytes = 0
    /\ armed = FALSE /\ looping = FALSE
-----------------------------------------------------------------------------
(* The interrupt line.  The signal of the hard disk shares it. *)

SetIRQ(s, source) ==
    [irq |-> IF source = "hdc" THEN {"hdc"} ELSE (s.irq \ {"hdc"}) \cup {source},
     low |-> s.irq = {} \/ s.low]

\* Mutant: a forced interrupt is cleared like the others.
ClearIRQAll(s) == [irq |-> {}, low |-> FALSE]

ClearIRQ(s) == IF "forced" \in s.irq THEN [s EXCEPT !.irq = {"forced"}]
                                     ELSE [irq |-> {}, low |-> FALSE]

(* A forced interrupt ends only once its condition was replaced by that of *)
(* a later command, at the next command or read of the status after it.    *)
EndForced(s) == IF "immediate" \in cond THEN s ELSE [s EXCEPT !.irq = @ \ {"forced"}]

(* FDC_UpdateAll: has the disk under the head passed its index hole?  A    *)
(* position that was lost is chosen anew, less than a turn ago.            *)
Disk == sel \in Drives /\ inserted[sel]
Spinning == "motorOn" \in str /\ Disk
AtLeast(n) == IF n > MaxPulses THEN MaxPulses ELSE n
Update(pulse) ==
    /\ pulse => Spinning /\ known[sel]
    /\ known' = IF Spinning THEN [known EXCEPT ![sel] = TRUE] ELSE known
    /\ pulses' = IF pulse THEN AtLeast(pulses + 1) ELSE pulses
Updated(pulse) == IF pulse /\ "index" \in cond THEN SetIRQ(sig, "index") ELSE sig

-----------------------------------------------------------------------------
(* The handler: FDC_InterruptHandler_Update and the FDC_Update...Cmd.      *)
(* Tick is its start; the phases below run until one of them waits.        *)

Tick(pulse) ==
    /\ armed /\ ~looping
    /\ Update(pulse) /\ sig' = Updated(pulse)
    /\ armed' = FALSE /\ looping' = (command # "null")
    /\ UNCHANGED <<cr, cmdType, command, state, replaceable, regs, str, cond, disks, moved>>

Goes(s) == state' = s /\ UNCHANGED command
Continue(s) == Goes(s) /\ UNCHANGED <<armed, looping>>
Wait(s) == Goes(s) /\ armed' = TRUE /\ looping' = FALSE

(* FDC_CmdCompleteCommon(true); the motor's stop follows at once. *)
Complete ==
    /\ sig' = SetIRQ(sig, "complete")
    /\ command' = "motorStop" /\ state' = "stop"
    /\ UNCHANGED <<armed, looping>>

WriteBlocked == command = "writeSector" /\ Disk /\ protected[sel]
In(c) == looping /\ command \in c /\ ~WriteBlocked

(* A write to a protected disk ends in whatever state it is. *)
WriteProtected ==
    /\ looping /\ WriteBlocked
    /\ Complete /\ str' = str \ {"busy"}
    /\ UNCHANGED <<cr, cmdType, replaceable, regs, cond, spin, disks, moved>>

Start ==
    LET needed == ~cr.noSpinUp /\ "motorOn" \notin str
    IN /\ In(Running) /\ state = "start"
       /\ str' = str \cup {"motorOn"}
       /\ pulses' = IF needed THEN 0 ELSE pulses
       /\ known' = IF Disk THEN [known EXCEPT ![sel] = TRUE] ELSE known
       /\ IF needed THEN Wait("spinUp")
          ELSE Continue(IF cmdType = 1 THEN "motorOn" ELSE "headLoad")
       /\ UNCHANGED <<cr, cmdType, replaceable, regs, cond, sig, disks, moved>>

SpinUp ==
    /\ In(Running) /\ state = "spinUp" /\ pulses < SpinUpPulses
    /\ Wait("spinUp")
    /\ UNCHANGED <<cr, cmdType, replaceable, regs, str, cond, sig, spin, disks, moved>>

(* The cases of the switch fall through from _SPIN_UP to what follows. *)
SpunUp == state = "spinUp" /\ pulses >= SpinUpPulses
AtMotorOn == \/ state = "motorOn"
             \/ SpunUp /\ (cmdType = 1 \/ ~cr.settle)
             \/ state = "headLoad" /\ ~cr.settle

HeadLoad ==
    /\ In(Running) /\ (state = "headLoad" \/ (SpunUp /\ cmdType # 1)) /\ cr.settle
    /\ replaceable' = (replaceable /\ cmdType = 2)
    /\ Wait("motorOn")
    /\ UNCHANGED <<cr, cmdType, regs, str, cond, sig, spin, disks, moved>>
-----------------------------------------------------------------------------
(* Type I commands *)

Restore ==
    LET tries == IF AtMotorOn THEN RegMax ELSE tr
        atZero == sel \in Drives /\ head[sel] = 0
    IN /\ In({"restore"}) /\ (AtMotorOn \/ state = "loop")
       /\ replaceable' = FALSE
       /\ \/ /\ tries = 0
             /\ Complete /\ str' = (str \ {"busy"}) \cup {"rnf"}
             /\ UNCHANGED <<tr, head>>
          \/ /\ tries # 0 /\ ~atZero
             /\ tr' = tries - 1
             /\ head' = IF sel \in Drives THEN [head EXCEPT ![sel] = @ - 1] ELSE head
             /\ Wait("loop") /\ UNCHANGED <<str, sig>>
          \/ /\ tries # 0 /\ atZero
             /\ tr' = 0
             /\ Continue("verify") /\ UNCHANGED <<head, str, sig>>
       /\ UNCHANGED <<cr, cmdType, sr, dr, dir, cond, spin, sel, inserted, protected, moved>>

AtLimit(d) == head[sel] = IF d = 1 THEN MaxTrack ELSE 0
MoveHead(d) == IF sel \in Drives /\ ~AtLimit(d) THEN [head EXCEPT ![sel] = @ + d] ELSE head

Seek ==
    LET d == IF dr < tr THEN -1 ELSE 1
    IN /\ In({"seek"}) /\ AtMotorOn
       /\ replaceable' = FALSE
       /\ \/ /\ tr = dr
             /\ Continue("verify") /\ UNCHANGED <<tr, dir, head>>
          \/ /\ tr # dr
             /\ dir' = d /\ head' = MoveHead(d)
             /\ IF sel \in Drives /\ AtLimit(d)
                THEN tr' = (IF d = -1 THEN 0 ELSE tr + d) /\ Continue("verify")
                ELSE tr' = tr + d /\ Wait(state)
       /\ UNCHANGED <<cr, cmdType, sr, dr, str, cond, sig, spin, sel, inserted, protected, moved>>

\* Mutant: a step can still be replaced when the head has moved.
StepReplaceable ==
    /\ In({"step"}) /\ AtMotorOn
    /\ tr' = IF cr.more THEN (tr + dir) % (RegMax + 1) ELSE tr
    /\ head' = MoveHead(dir) /\ Wait("verify")
    /\ UNCHANGED <<cr, cmdType, replaceable, sr, dr, dir, str, cond, sig, spin, sel,
                   inserted, protected, moved>>

Step ==
    /\ In({"step"}) /\ AtMotorOn
    /\ replaceable' = FALSE
    /\ tr' = IF cr.more THEN (tr + dir) % (RegMax + 1) ELSE tr
    /\ head' = MoveHead(dir)
    /\ IF sel \in Drives /\ AtLimit(dir) THEN Continue("verify") ELSE Wait("verify")
    /\ UNCHANGED <<cr, cmdType, sr, dr, dir, str, cond, sig, spin, sel, inserted, protected, moved>>

Verify ==
    /\ In({"restore", "seek", "step"}) /\ state = "verify"
    /\ Wait(IF cr.settle THEN "verifyHeadOk" ELSE "complete")
    /\ UNCHANGED <<cr, cmdType, replaceable, regs, str, cond, sig, spin, disks, moved>>

(* FDC_NextSectorID_FdcCycles: -1 without a position in a track of the disk *)
Readable == sel \in Drives /\ known[sel] /\ head[sel] < DiskTracks
NextSector == \E s \in 1 .. Sectors : id' = [tr |-> head[sel], sr |-> s]

\* Mutant: the revolutions are counted anew for every sector.
TurnsAnew == 0
Turns == IF state = "verifyHeadOk" THEN 0 ELSE pulses
VerifyNext ==
    LET turns == Turns
    IN /\ In({"restore", "seek", "step"}) /\ state \in {"verifyHeadOk", "verifyNext"}
       /\ pulses' = turns
       /\ \/ /\ turns >= AddressPulses
             /\ Wait("complete") /\ str' = str \cup {"rnf"} /\ UNCHANGED id
          \/ /\ turns < AddressPulses /\ ~Readable
             /\ Wait("verifyNext") /\ UNCHANGED <<str, id>>
          \/ /\ turns < AddressPulses /\ Readable
             /\ NextSector /\ Wait("verifyCheck") /\ UNCHANGED str
       /\ UNCHANGED <<cr, cmdType, replaceable, regs, cond, sig, known, disks, bytes>>

VerifyCheck ==
    /\ In({"restore", "seek", "step"}) /\ state = "verifyCheck"
    /\ IF Disk /\ head[sel] = tr
       THEN str' = str \ {"rnf"} /\ Wait("complete")
       ELSE Continue("verifyNext") /\ UNCHANGED str
    /\ UNCHANGED <<cr, cmdType, replaceable, regs, cond, sig, spin, disks, moved>>
-----------------------------------------------------------------------------
(* Type II and type III commands.  With no drive selected the code looks   *)
(* at EmulationDrives[-1], and whatever is there decides.                  *)

Outcome(found) == IF sel \in Drives THEN {found} ELSE BOOLEAN
SectorExists == Disk /\ head[sel] < DiskTracks /\ sr \in 1 .. Sectors

ReadMotorOn ==
    /\ In({"readSector", "readAddress"}) /\ AtMotorOn
    /\ replaceable' = FALSE /\ pulses' = 0
    /\ Continue("next")
    /\ UNCHANGED <<cr, cmdType, regs, str, cond, sig, known, disks, moved>>

(* A write falls through from _MOTOR_ON to this, and stays in the state    *)
(* it came from until a sector can be read.                                *)
NextHeader ==
    LET first == command = "writeSector" /\ AtMotorOn
        turns == IF first THEN 0 ELSE pulses
    IN /\ In({"readSector", "writeSector", "readAddress"}) /\ (state = "next" \/ first)
       /\ replaceable' = (replaceable /\ ~first) /\ pulses' = turns
       /\ \/ turns >= AddressPulses /\ Continue("rnf") /\ UNCHANGED id
          \/ turns < AddressPulses /\ ~Readable /\ Wait(state) /\ UNCHANGED id
          \/ /\ turns < AddressPulses /\ Readable
             /\ NextSector
             /\ Wait(IF command = "readAddress" THEN "transferStart" ELSE "check")
       /\ UNCHANGED <<cr, cmdType, regs, str, cond, sig, known, disks, bytes>>

CheckHeader ==
    /\ In(TypeII) /\ state = "check"
    /\ \E match \in Outcome(id = [tr |-> tr, sr |-> sr]) :
           IF match THEN Wait("transferStart") ELSE Continue("next")
    /\ UNCHANGED <<cr, cmdType, replaceable, regs, str, cond, sig, spin, disks, moved>>

ReadStart ==
    /\ In({"readSector"}) /\ state = "transferStart"
    /\ \E found \in Outcome(SectorExists) :
           IF found THEN bytes' = SectorBytes /\ Wait("transfer")
                    ELSE bytes' = 0 /\ Continue("rnf")
    /\ UNCHANGED <<cr, cmdType, replaceable, regs, str, cond, sig, spin, disks, id>>

(* The first byte of the ID field goes to SR, or a byte of older data. *)
ReadAddressStart ==
    /\ In({"readAddress"}) /\ state = "transferStart"
    /\ \E found \in Outcome(Disk /\ head[sel] < DiskTracks) :
           /\ bytes' = IF found THEN IdBytes ELSE 0
           /\ sr' \in IF found /\ sel \in Drives THEN {head[sel]} ELSE 0 .. RegMax
    /\ Wait("transfer")
    /\ UNCHANGED <<cr, cmdType, replaceable, tr, dr, dir, str, cond, sig, spin, disks, id>>

TrackMotorOn ==
    /\ In({"readTrack", "writeTrack"}) /\ AtMotorOn
    /\ replaceable' = FALSE
    /\ Wait(IF sel \in Drives /\ known[sel] THEN "index" ELSE state)
    /\ UNCHANGED <<cr, cmdType, regs, str, cond, sig, spin, disks, moved>>

BytesPerTrack == IF sel \in Drives THEN {TrackBytes} ELSE 0 .. TrackBytes
ReadIndex ==
    /\ In({"readTrack"}) /\ state = "index"
    /\ bytes' \in BytesPerTrack
    /\ Wait("transfer")
    /\ UNCHANGED <<cr, cmdType, replaceable, regs, str, cond, sig, spin, disks, id>>

ReadTransfer ==
    /\ In({"readSector", "readAddress", "readTrack"}) /\ state = "transfer"
    /\ bytes' = IF bytes > 0 THEN bytes - 1 ELSE 0
    /\ Wait(IF bytes > 1 THEN "transfer"
            ELSE IF command = "readSector" THEN "crc" ELSE "complete")
    /\ UNCHANGED <<cr, cmdType, replaceable, regs, str, cond, sig, spin, disks, id>>

(* Only an STX image has sectors with a wrong CRC. *)
ReadCrc ==
    /\ In({"readSector"}) /\ state = "crc"
    /\ \/ Complete /\ str' = str \ {"busy"}
       \/ Continue("multi") /\ UNCHANGED <<str, sig>>
    /\ UNCHANGED <<cr, cmdType, replaceable, regs, cond, spin, disks, moved>>

WriteSectorStart ==
    /\ In({"writeSector"}) /\ state = "transferStart"
    /\ bytes' = SectorBytes
    /\ Continue("transfer")
    /\ UNCHANGED <<cr, cmdType, replaceable, regs, str, cond, sig, spin, disks, id>>

WriteIndex ==
    /\ In({"writeTrack"}) /\ state = "index"
    /\ \E blocked \in Outcome(protected[sel]) :
           \/ blocked /\ Complete /\ str' = str \ {"busy"} /\ UNCHANGED bytes
           \/ ~blocked /\ bytes' \in BytesPerTrack /\ Continue("transfer") /\ UNCHANGED <<str, sig>>
    /\ UNCHANGED <<cr, cmdType, replaceable, regs, cond, spin, disks, id>>

WriteTransfer ==
    /\ In({"writeSector", "writeTrack"}) /\ state = "transfer"
    /\ \/ bytes > 0 /\ bytes' = bytes - 1 /\ Wait("transfer")
       \/ /\ bytes = 0 /\ UNCHANGED bytes
          /\ IF command = "writeSector" THEN Wait("crc") ELSE Continue("complete")
    /\ UNCHANGED <<cr, cmdType, replaceable, regs, str, cond, sig, spin, disks, id>>

WriteCrc ==
    /\ In({"writeSector"}) /\ state = "crc"
    /\ \E found \in Outcome(SectorExists) : Continue(IF found THEN "multi" ELSE "rnf")
    /\ UNCHANGED <<cr, cmdType, replaceable, regs, str, cond, sig, spin, disks, moved>>

Multi ==
    /\ In(TypeII) /\ state = "multi"
    /\ sr' = IF cr.more THEN (sr + 1) % (RegMax + 1) ELSE sr
    /\ IF cr.more THEN Continue("motorOn") ELSE Wait("complete")
    /\ UNCHANGED <<cr, cmdType, replaceable, tr, dr, dir, str, cond, sig, spin, disks, moved>>

\* Mutant: a sector that was not found ends the command without interrupt.
FinishQuietly ==
    /\ In(Running) /\ state \in {"complete", "rnf"}
    /\ command' = "motorStop" /\ state' = "stop"
    /\ sig' = IF state = "rnf" THEN sig ELSE SetIRQ(sig, "complete")
    /\ str' = str \ {"busy"}
    /\ UNCHANGED <<cr, cmdType, replaceable, regs, cond, spin, disks, moved, armed, looping>>

Finish ==
    /\ In(Running) /\ state \in {"complete", "rnf"}
    /\ Complete
    /\ str' = (str \ {"busy"}) \cup IF state = "rnf" THEN {"rnf"} ELSE {}
    /\ UNCHANGED <<cr, cmdType, replaceable, regs, cond, spin, disks, moved>>

MotorStop ==
    /\ looping /\ command = "motorStop"
    /\ \/ /\ state = "stop"
          /\ pulses' = 0 /\ Wait("stopWait") /\ UNCHANGED <<str, known>>
       \/ /\ state = "stopWait" /\ pulses < MotorOffPulses
          /\ Wait(state) /\ UNCHANGED <<str, spin>>
       \/ /\ state = "stopWait" /\ pulses >= MotorOffPulses
          /\ pulses' = 0 /\ str' = str \ {"motorOn"}
          /\ known' = IF sel \in Drives THEN [known EXCEPT ![sel] = FALSE] ELSE known
          /\ command' = "null" /\ looping' = FALSE /\ UNCHANGED <<state, armed>>
    /\ UNCHANGED <<cr, cmdType, replaceable, regs, cond, sig, disks, moved>>
-----------------------------------------------------------------------------
(* The processor, which never runs while the handler loops *)

Replaces(type) == type = 4 \/ (replaceable /\ type \in {1, 2} /\ cmdType = type)

WriteCommand(c, pulse) ==
    LET type == TypeOf(c.op)
        s == EndForced(Updated(pulse))
    IN /\ ~looping /\ ("busy" \in str => Replaces(type))
       /\ Update(pulse)
       /\ cr' = c /\ cmdType' = type /\ cond' = c.cond
       /\ replaceable' = TRUE /\ armed' = TRUE
       /\ \/ /\ c.op = "force"
             /\ sig' = IF "immediate" \in c.cond THEN SetIRQ(s, "forced") ELSE ClearIRQ(s)
             /\ str' = IF "busy" \in str THEN str \ {"busy"} ELSE str \cup {"motorOn"}
             /\ command' = "motorStop" /\ state' = "stop" /\ UNCHANGED dir
          \/ /\ c.op # "force"
             /\ sig' = ClearIRQ(s)
             /\ str' = (str \ {"rnf"}) \cup {"busy"}
             /\ command' = CommandOf(c.op) /\ state' = "start"
             /\ dir' = CASE c.op = "stepIn" -> 1 [] c.op = "stepOut" -> -1 [] OTHER -> dir
       /\ UNCHANGED <<tr, sr, dr, disks, moved, looping>>

(* A command that is ignored, and a read of TR, SR or DR *)
Access(pulse) ==
    /\ ~looping /\ Update(pulse) /\ sig' = Updated(pulse)
    /\ UNCHANGED <<cr, cmdType, command, state, replaceable, regs, str, cond, disks,
                   moved, armed, looping>>

ReadStatus(pulse) ==
    /\ ~looping /\ Update(pulse) /\ sig' = ClearIRQ(EndForced(Updated(pulse)))
    /\ UNCHANGED <<cr, cmdType, command, state, replaceable, regs, str, cond, disks,
                   moved, armed, looping>>

WriteRegister(v, pulse) ==
    /\ ~looping /\ Update(pulse) /\ sig' = Updated(pulse)
    /\ \/ tr' = v /\ UNCHANGED <<sr, dr>>
       \/ sr' = v /\ UNCHANGED <<tr, dr>>
       \/ dr' = v /\ UNCHANGED <<tr, sr>>
    /\ UNCHANGED <<cr, cmdType, command, state, replaceable, dir, str, cond, disks,
                   moved, armed, looping>>

(* Bit 8 of the DMA mode resets the DMA, and a write has no more bytes. *)
ResetDMA ==
    /\ ~looping
    /\ bytes' = IF command \in {"writeSector", "writeTrack"} THEN 0 ELSE bytes
    /\ UNCHANGED <<cr, cmdType, command, state, replaceable, regs, str, cond, sig, spin,
                   disks, id, armed, looping>>

SelectDrive(d) ==
    /\ ~looping /\ d # sel
    /\ sel' = d
    /\ known' = [e \in Drives |-> IF e = d THEN inserted[d] /\ "motorOn" \in str
                                  ELSE e # sel /\ known[e]]
    /\ UNCHANGED <<cr, cmdType, command, state, replaceable, regs, str, cond, sig, pulses,
                   head, inserted, protected, moved, armed, looping>>

\* Mutant: the hard disk takes back the requests of others with its own.
HdcCommandRaises(accepted) ==
    /\ ~looping
    /\ sig' = IF accepted THEN SetIRQ(sig, "hdc") ELSE [sig EXCEPT !.irq = @ \ {"hdc"}, !.low = FALSE]
    /\ UNCHANGED <<cr, cmdType, command, state, replaceable, regs, str, cond, spin,
                   disks, moved, armed, looping>>

(* The hard disk accepts a byte of a command, or has no such device. *)
HdcCommand(accepted) ==
    LET s == [irq |-> sig.irq \ {"hdc"}, low |-> sig.low /\ sig.irq \ {"hdc"} # {}]
    IN /\ ~looping /\ sig' = IF accepted THEN SetIRQ(s, "hdc") ELSE s
       /\ UNCHANGED <<cr, cmdType, command, state, replaceable, regs, str, cond, spin,
                      disks, moved, armed, looping>>

(* The user *)
Insert(d, p) ==
    /\ ~looping
    /\ inserted' = [inserted EXCEPT ![d] = TRUE] /\ protected' = [protected EXCEPT ![d] = p]
    /\ known' = [known EXCEPT ![d] = "motorOn" \in str]
    /\ UNCHANGED <<cr, cmdType, command, state, replaceable, regs, str, cond, sig, pulses,
                   sel, head, moved, armed, looping>>
\* Mutant: the position of the index pulse outlives the disk.
EjectOnly(d) ==
    /\ ~looping /\ inserted[d] /\ inserted' = [inserted EXCEPT ![d] = FALSE]
    /\ UNCHANGED <<cr, cmdType, command, state, replaceable, regs, str, cond, sig, spin,
                   sel, head, protected, moved, armed, looping>>
Eject(d) ==
    /\ ~looping /\ inserted[d]
    /\ inserted' = [inserted EXCEPT ![d] = FALSE] /\ known' = [known EXCEPT ![d] = FALSE]
    /\ UNCHANGED <<cr, cmdType, command, state, replaceable, regs, str, cond, sig, pulses,
                   sel, head, protected, moved, armed, looping>>

\* Mutant: a warm reset keeps the status register.
ResetKeepsStatus(cold) ==
    /\ ~looping
    /\ cr' = NoCommand /\ cmdType' = 0 /\ command' = "null" /\ state' = "null"
    /\ str' = IF cold THEN {} ELSE str
    /\ sr' = 1 /\ dir' = 1 /\ cond' = {} /\ sig' = [irq |-> {}, low |-> FALSE]
    /\ pulses' = 0 /\ known' = [d \in Drives |-> FALSE] /\ bytes' = 0
    /\ UNCHANGED <<tr, dr, replaceable, disks, id, armed, looping>>

(* FDC_Reset: Reset_ST(true) empties the table of interrupts, the RESET    *)
(* instruction leaves it alone.  The reset button empties the table only;  *)
(* the RESET instruction with which TOS starts then resets the FDC, and    *)
(* the two are one step here.  The heads stay where they are.              *)
Reset(cold) ==
    /\ ~looping
    /\ cr' = NoCommand /\ cmdType' = 0 /\ command' = "null" /\ state' = "null"
    /\ tr' = IF cold THEN 0 ELSE tr
    /\ dr' = IF cold THEN 0 ELSE dr
    /\ sr' = 1 /\ dir' = 1
    /\ str' = {} /\ cond' = {} /\ sig' = [irq |-> {}, low |-> FALSE]
    /\ pulses' = 0 /\ known' = [d \in Drives |-> FALSE]
    /\ bytes' = 0
    /\ armed' \in {armed, FALSE}
    /\ UNCHANGED <<replaceable, disks, id, looping>>
-----------------------------------------------------------------------------
Phase ==
    \/ WriteProtected \/ Start \/ SpinUp \/ HeadLoad
    \/ Restore \/ Seek \/ Step \/ Verify \/ VerifyNext \/ VerifyCheck
    \/ ReadMotorOn \/ NextHeader \/ CheckHeader \/ ReadStart \/ ReadAddressStart
    \/ TrackMotorOn \/ ReadIndex \/ ReadTransfer \/ ReadCrc
    \/ WriteSectorStart \/ WriteIndex \/ WriteTransfer \/ WriteCrc
    \/ Multi \/ Finish \/ MotorStop
Handler == Phase \/ \E pulse \in BOOLEAN : Tick(pulse)

Cpu ==
    \/ \E pulse \in BOOLEAN :
          \/ \E c \in Commands : WriteCommand(c, pulse)
          \/ Access(pulse) \/ ReadStatus(pulse)
          \/ \E v \in Values : WriteRegister(v, pulse)
    \/ ResetDMA
    \/ \E d \in Drives \cup {NoDrive} : SelectDrive(d)
    \/ \E b \in BOOLEAN : Reset(b) \/ (AcsiEmuOn /\ HdcCommand(b))
User == \E d \in Drives : Eject(d) \/ \E p \in Protections : Insert(d, p)

Next == Handler \/ Cpu \/ User
Spec == Init /\ [][Next]_vars

(* The interrupt comes once it is in the table, a handler that loops goes  *)
(* on, and a disk that keeps spinning passes its index hole.               *)
Fairness ==
    /\ WF_vars(Handler)
    /\ SF_vars(Tick(TRUE))
FairSpec == Spec /\ Fairness
-----------------------------------------------------------------------------
TypeOK ==
    /\ cr \in Commands \cup {NoCommand} /\ cmdType \in 0 .. 4
    /\ command \in Running \cup {"motorStop", "null"} /\ state \in States
    /\ replaceable \in BOOLEAN
    /\ {tr, sr, dr} \subseteq 0 .. RegMax /\ dir \in {-1, 1}
    /\ str \subseteq {"busy", "motorOn", "rnf"} /\ cond \subseteq {"index", "immediate"}
    /\ sig \in [irq : SUBSET {"complete", "index", "forced", "hdc"}, low : BOOLEAN]
    /\ pulses \in 0 .. MaxPulses /\ known \in [Drives -> BOOLEAN]
    /\ sel \in Drives \cup {NoDrive} /\ head \in [Drives -> 0 .. MaxTrack]
    /\ inserted \in [Drives -> BOOLEAN] /\ protected \in [Drives -> BOOLEAN]
    /\ id \in [tr : 0 .. MaxTrack, sr : 0 .. RegMax]
    /\ bytes \in 0 .. SectorBytes + IdBytes + TrackBytes
    /\ armed \in BOOLEAN /\ looping \in BOOLEAN

(* The processor sees the busy bit exactly while a command runs, whoever   *)
(* ended it - its last phase, a write to a protected disk, a forced        *)
(* interrupt or a reset - and whatever is left to do has its interrupt     *)
(* pending, so that no command is abandoned half-way.                      *)
BusyWhileRunning ==
    /\ "busy" \in str <=> command \in Running
    /\ command # "null" => armed \/ looping

(* Line 5 of GPIP is low exactly while the FDC or the hard disk requests   *)
(* an interrupt, although each changes it on its own.                      *)
LineFollowsSignal == sig.low <=> sig.irq # {}

(* The position of the index pulse of the selected drive is kept only for  *)
(* a disk that turns: changing drives or disks, stopping the motor and a   *)
(* reset all forget it, else a command would time out on an empty drive.   *)
PulsesOfSpinningDisk == sel \in Drives /\ known[sel] => Spinning
-----------------------------------------------------------------------------
Resets == \E cold \in BOOLEAN : Reset(cold)
Hdc == \E accepted \in BOOLEAN : HdcCommand(accepted)
NewCommand == \E c \in Commands, pulse \in BOOLEAN : WriteCommand(c, pulse)
ReadsStatus == \E pulse \in BOOLEAN : ReadStatus(pulse)

(* A command that ends by itself requests an interrupt; only a forced      *)
(* interrupt (type 4) and a reset (type 0) end one in silence.             *)
EndRequestsInterrupt ==
    [][("busy" \in str /\ "busy" \notin str')
          => ("complete" \in sig'.irq \/ cmdType' \in {0, 4})]_vars

(* A request of the FDC stays until the processor reads the status         *)
(* register, starts a command, resets the FDC or uses the hard disk.  A    *)
(* forced interrupt also needs its condition to have been replaced before  *)
(* (note of FDC_ExecuteCommand: the first command clears the condition,    *)
(* the second the interrupt).                                              *)
RequestsAreKept ==
    [][/\ ~(sig.irq \subseteq sig'.irq \cup {"hdc"})
             => (ReadsStatus \/ NewCommand \/ Hdc \/ Resets)
       /\ ("forced" \in sig.irq /\ "forced" \notin sig'.irq)
             => ("immediate" \notin cond \/ Hdc \/ Resets)]_vars

(* A command that another may still replace has moved no head, changed no  *)
(* register and looked at no sector, so that nothing of it remains; and    *)
(* only such a command is replaced, unless by a forced interrupt.          *)
ReplaceableHasNotActed ==
    [][/\ (looping /\ replaceable') => UNCHANGED <<tr, sr, dir, head, moved>>
       /\ ("busy" \in str /\ ~replaceable /\ replaceable') => cmdType' = 4]_vars

(* When nobody touches the FDC any more and the selected drive keeps a     *)
(* disk, commands end and the motor stops.  A write on a track that the    *)
(* disk does not have is left out: each look of its search resets the      *)
(* count of pulses by which the search would give up (fdc.c:2730).         *)
Quiet == <>[][Handler]_vars /\ <>[]Disk
CommandsEnd ==
    Quiet /\ <>[](command = "writeSector" => Disk /\ head[sel] < DiskTracks)
       => <>[](str \cap {"busy", "motorOn"} = {})
=============================================================================

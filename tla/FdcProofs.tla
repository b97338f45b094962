----------------------------- MODULE FdcProofs -----------------------------
(***************************************************************************)
(* Proofs about Fdc for any drives, disks, commands and limits.            *)
(***************************************************************************)
EXTENDS Fdc, TLAPS

\* The only arithmetic: a register wraps at 8 bits, and holds tracks and sectors.
LEMMA RegisterFacts ==
    /\ 0 \in 0 .. RegMax /\ 1 \in 0 .. RegMax /\ RegMax \in 0 .. RegMax
    /\ 0 .. MaxTrack \subseteq 0 .. RegMax /\ 0 \in 0 .. MaxTrack
    /\ 1 .. Sectors \subseteq 0 .. RegMax
    /\ \A x \in 0 .. RegMax : (x + 1) % (RegMax + 1) \in 0 .. RegMax
    /\ \A x \in 0 .. RegMax : (x - 1) % (RegMax + 1) \in 0 .. RegMax
<1>1. RegMax \in Nat /\ MaxTrack \in Nat /\ Sectors \in Nat
      /\ 0 < MaxTrack /\ MaxTrack < RegMax /\ Sectors < RegMax
  BY FdcAssumption
<1>2. \A x \in Int : x % (RegMax + 1) \in 0 .. RegMax
  BY <1>1
<1> QED  BY <1>1, <1>2

LEMMA PulseFacts ==
    ASSUME TypeOK
    PROVE  0 \in 0 .. MaxPulses /\ AtLeast(pulses + 1) \in 0 .. MaxPulses
BY FdcAssumption DEF TypeOK, AtLeast

LEMMA ByteFacts ==
    /\ 0 .. TrackBytes \subseteq 0 .. SectorBytes + IdBytes + TrackBytes
    /\ {0, SectorBytes, IdBytes, TrackBytes}
          \subseteq 0 .. SectorBytes + IdBytes + TrackBytes
    /\ \A n \in 0 .. SectorBytes + IdBytes + TrackBytes :
          n > 0 => n - 1 \in 0 .. SectorBytes + IdBytes + TrackBytes
BY FdcAssumption

\* The head stops at its first and its last track.
LEMMA StepOfHead ==
    ASSUME TypeOK, NEW d \in {-1, 1}
    PROVE  MoveHead(d) \in [Drives -> 0 .. MaxTrack]
<1>1. MaxTrack \in Nat
  BY FdcAssumption
<1> QED  BY <1>1 DEF TypeOK, MoveHead, AtLimit

-----------------------------------------------------------------------------
(* Types: each phase is looked at only where it changes something.         *)

Line == [irq : SUBSET {"complete", "index", "forced", "hdc"}, low : BOOLEAN]

LEMMA SignalTypes ==
    ASSUME TypeOK, NEW s \in Line
    PROVE  /\ \A x \in {"complete", "index", "forced", "hdc"} : SetIRQ(s, x) \in Line
           /\ ClearIRQ(s) \in Line /\ EndForced(s) \in Line
           /\ \A pulse \in BOOLEAN : Updated(pulse) \in Line
           /\ sig \in Line /\ SetIRQ(sig, "complete") \in Line
<1>1. \A r \in Line, x \in {"complete", "index", "forced", "hdc"} :
         SetIRQ(r, x) \in Line
  BY DEF Line, SetIRQ
<1>2. ClearIRQ(s) \in Line /\ EndForced(s) \in Line
  BY DEF Line, ClearIRQ, EndForced
<1>3. sig \in Line
  BY DEF TypeOK, Line
<1> QED  BY <1>1, <1>2, <1>3 DEF Updated

ControlOK ==
    /\ cr \in Commands \cup {NoCommand} /\ cmdType \in 0 .. 4
    /\ command \in Running \cup {"motorStop", "null"} /\ state \in States
    /\ replaceable \in BOOLEAN /\ armed \in BOOLEAN /\ looping \in BOOLEAN
RegistersOK == {tr, sr, dr} \subseteq 0 .. RegMax /\ dir \in {-1, 1}
StatusOK ==
    /\ str \subseteq {"busy", "motorOn", "rnf"} /\ cond \subseteq {"index", "immediate"}
    /\ sig \in Line
DisksOK ==
    /\ sel \in Drives \cup {NoDrive} /\ head \in [Drives -> 0 .. MaxTrack]
    /\ inserted \in [Drives -> BOOLEAN] /\ protected \in [Drives -> BOOLEAN]
SpinOK == pulses \in 0 .. MaxPulses /\ known \in [Drives -> BOOLEAN]
MovedOK ==
    /\ id \in [tr : 0 .. MaxTrack, sr : 0 .. RegMax]
    /\ bytes \in 0 .. SectorBytes + IdBytes + TrackBytes

\* The types in parts, so that a phase is looked at only where it changes one.
LEMMA TypeParts ==
    TypeOK <=> ControlOK /\ RegistersOK /\ StatusOK /\ DisksOK /\ SpinOK /\ MovedOK
BY DEF TypeOK, ControlOK, RegistersOK, StatusOK, DisksOK, SpinOK, MovedOK, Line

LEMMA PhaseControl == ControlOK /\ Phase => ControlOK'
<1> SUFFICES ASSUME ControlOK, Phase PROVE ControlOK'
  OBVIOUS
<1> USE DEF ControlOK, Goes, Continue, Wait, Complete, In, Running, Ops, States
<1>1. CASE WriteProtected
  BY <1>1 DEF WriteProtected
<1>2. CASE Start
  BY <1>2 DEF Start
<1>3. CASE SpinUp
  BY <1>3 DEF SpinUp
<1>4. CASE HeadLoad
  BY <1>4 DEF HeadLoad
<1>5. CASE Restore
  BY <1>5 DEF Restore
<1>6. CASE Seek
  BY <1>6 DEF Seek
<1>7. CASE Step
  BY <1>7 DEF Step
<1>8. CASE Verify
  BY <1>8 DEF Verify
<1>9. CASE VerifyNext
  BY <1>9 DEF VerifyNext
<1>10. CASE VerifyCheck
  BY <1>10 DEF VerifyCheck
<1>11. CASE ReadMotorOn
  BY <1>11 DEF ReadMotorOn
<1>12. CASE NextHeader
  BY <1>12 DEF NextHeader
<1>13. CASE CheckHeader
  BY <1>13 DEF CheckHeader
<1>14. CASE ReadStart
  BY <1>14 DEF ReadStart
<1>15. CASE ReadAddressStart
  BY <1>15 DEF ReadAddressStart
<1>16. CASE TrackMotorOn
  BY <1>16 DEF TrackMotorOn
<1>17. CASE ReadIndex
  BY <1>17 DEF ReadIndex
<1>18. CASE ReadTransfer
  BY <1>18 DEF ReadTransfer
<1>19. CASE ReadCrc
  BY <1>19 DEF ReadCrc
<1>20. CASE WriteSectorStart
  BY <1>20 DEF WriteSectorStart
<1>21. CASE WriteIndex
  BY <1>21 DEF WriteIndex
<1>22. CASE WriteTransfer
  BY <1>22 DEF WriteTransfer
<1>23. CASE WriteCrc
  BY <1>23 DEF WriteCrc
<1>24. CASE Multi
  BY <1>24 DEF Multi
<1>25. CASE Finish
  BY <1>25 DEF Finish
<1>26. CASE MotorStop
  BY <1>26 DEF MotorStop
<1> QED  BY <1>1, <1>2, <1>3, <1>4, <1>5, <1>6, <1>7, <1>8, <1>9, <1>10, <1>11,
     <1>12, <1>13, <1>14, <1>15, <1>16, <1>17, <1>18, <1>19, <1>20, <1>21, <1>22,
     <1>23, <1>24, <1>25, <1>26 DEF Phase

LEMMA PhaseRegisters == TypeOK /\ Phase => RegistersOK'
<1> SUFFICES ASSUME TypeOK, Phase PROVE RegistersOK'
  OBVIOUS
<1>1. CASE Restore
  BY <1>1, RegisterFacts, FdcAssumption DEF Restore, TypeOK, RegistersOK, AtMotorOn
<1>2. CASE Seek
  BY <1>2, RegisterFacts, FdcAssumption DEF Seek, TypeOK, RegistersOK, AtMotorOn
<1>3. CASE Step
  BY <1>3, RegisterFacts, FdcAssumption DEF Step, TypeOK, RegistersOK, AtMotorOn
<1>4. CASE ReadAddressStart
  BY <1>4, RegisterFacts, FdcAssumption DEF ReadAddressStart, TypeOK, RegistersOK,
          AtMotorOn
<1>5. CASE Multi
  BY <1>5, RegisterFacts, FdcAssumption DEF Multi, TypeOK, RegistersOK, AtMotorOn
<1>6. CASE UNCHANGED regs
  BY <1>6 DEF regs, TypeOK, RegistersOK
<1> QED  BY <1>1, <1>2, <1>3, <1>4, <1>5, <1>6 DEF Phase, WriteProtected, Start,
        SpinUp, HeadLoad, Verify, VerifyNext, VerifyCheck, ReadMotorOn, NextHeader,
        CheckHeader, ReadStart, TrackMotorOn, ReadIndex, ReadTransfer, ReadCrc,
        WriteSectorStart, WriteIndex, WriteTransfer, WriteCrc, Finish, MotorStop, regs

LEMMA PhaseStatus == TypeOK /\ Phase => StatusOK'
<1> SUFFICES ASSUME TypeOK, Phase PROVE StatusOK'
  OBVIOUS
<1>1. CASE WriteProtected
  BY <1>1, SignalTypes DEF WriteProtected, TypeOK, StatusOK, Complete, Line
<1>2. CASE Start
  BY <1>2, SignalTypes DEF Start, TypeOK, StatusOK, Complete, Line
<1>3. CASE Restore
  BY <1>3, SignalTypes DEF Restore, TypeOK, StatusOK, Complete, Line
<1>4. CASE VerifyNext
  BY <1>4, SignalTypes DEF VerifyNext, TypeOK, StatusOK, Complete, Line
<1>5. CASE VerifyCheck
  BY <1>5, SignalTypes DEF VerifyCheck, TypeOK, StatusOK, Complete, Line
<1>6. CASE ReadCrc
  BY <1>6, SignalTypes DEF ReadCrc, TypeOK, StatusOK, Complete, Line
<1>7. CASE WriteIndex
  BY <1>7, SignalTypes DEF WriteIndex, TypeOK, StatusOK, Complete, Line
<1>8. CASE Finish
  BY <1>8, SignalTypes DEF Finish, TypeOK, StatusOK, Complete, Line
<1>9. CASE MotorStop
  BY <1>9, SignalTypes DEF MotorStop, TypeOK, StatusOK, Complete, Line
<1>10. CASE UNCHANGED <<str, cond, sig>>
  BY <1>10 DEF TypeOK, StatusOK, Line
<1> QED  BY <1>1, <1>2, <1>3, <1>4, <1>5, <1>6, <1>7, <1>8, <1>9, <1>10
    DEF Phase, SpinUp, HeadLoad, Seek, Step, Verify, ReadMotorOn, NextHeader,
        CheckHeader, ReadStart, ReadAddressStart, TrackMotorOn, ReadIndex,
        ReadTransfer, WriteSectorStart, WriteTransfer, WriteCrc, Multi, regs, disks,
        spin, moved

LEMMA PhaseDisks == TypeOK /\ Phase => DisksOK'
<1> SUFFICES ASSUME TypeOK, Phase PROVE DisksOK'
  OBVIOUS
<1>1. CASE Restore
  BY <1>1, StepOfHead, FdcAssumption DEF Restore, TypeOK, DisksOK, disks
<1>2. CASE Seek
  BY <1>2, StepOfHead, FdcAssumption DEF Seek, TypeOK, DisksOK, disks
<1>3. CASE Step
  BY <1>3, StepOfHead, FdcAssumption DEF Step, TypeOK, DisksOK, disks
<1>4. CASE UNCHANGED disks
  BY <1>4 DEF TypeOK, DisksOK, disks
<1> QED  BY <1>1, <1>2, <1>3, <1>4 DEF Phase, WriteProtected, Start, SpinUp, HeadLoad,
                                       Verify, VerifyNext, VerifyCheck, ReadMotorOn,
                                       NextHeader, CheckHeader, ReadStart,
                                       ReadAddressStart, TrackMotorOn, ReadIndex,
                                       ReadTransfer, ReadCrc, WriteSectorStart,
                                       WriteIndex, WriteTransfer, WriteCrc, Multi,
                                       Finish, MotorStop, regs, disks, spin, moved

LEMMA PhaseSpin == TypeOK /\ Phase => SpinOK'
<1> SUFFICES ASSUME TypeOK, Phase PROVE SpinOK'
  OBVIOUS
<1>1. CASE Start
  BY <1>1, PulseFacts DEF Start, TypeOK, SpinOK, Disk
<1>2. CASE VerifyNext
  BY <1>2, PulseFacts DEF VerifyNext, TypeOK, SpinOK, Turns
<1>3. CASE ReadMotorOn
  BY <1>3, PulseFacts DEF ReadMotorOn, TypeOK, SpinOK
<1>4. CASE NextHeader
  BY <1>4, PulseFacts DEF NextHeader, TypeOK, SpinOK
<1>5. CASE MotorStop
  BY <1>5, PulseFacts DEF MotorStop, TypeOK, SpinOK, spin
<1>6. CASE UNCHANGED spin
  BY <1>6 DEF TypeOK, SpinOK, spin
<1> QED  BY <1>1, <1>2, <1>3, <1>4, <1>5, <1>6 DEF Phase, WriteProtected, SpinUp,
        HeadLoad, Restore, Seek, Step, Verify, VerifyCheck, CheckHeader, ReadStart,
        ReadAddressStart, TrackMotorOn, ReadIndex, ReadTransfer, ReadCrc,
        WriteSectorStart, WriteIndex, WriteTransfer, WriteCrc, Multi, Finish, regs,
        disks, spin, moved

LEMMA PhaseMoved == TypeOK /\ Phase => MovedOK'
<1> SUFFICES ASSUME TypeOK, Phase PROVE MovedOK'
  OBVIOUS
<1>1. CASE VerifyNext
  BY <1>1, RegisterFacts DEF VerifyNext, TypeOK, MovedOK, NextSector, Readable
<1>2. CASE NextHeader
  BY <1>2, RegisterFacts DEF NextHeader, TypeOK, MovedOK, NextSector, Readable
<1>3. CASE ReadStart
  BY <1>3, ByteFacts DEF ReadStart, TypeOK, MovedOK
<1>4. CASE ReadAddressStart
  BY <1>4, ByteFacts DEF ReadAddressStart, TypeOK, MovedOK
<1>5. CASE ReadIndex
  BY <1>5, ByteFacts DEF ReadIndex, TypeOK, MovedOK, BytesPerTrack
<1>6. CASE ReadTransfer
  BY <1>6, ByteFacts DEF ReadTransfer, TypeOK, MovedOK
<1>7. CASE WriteSectorStart
  BY <1>7, ByteFacts DEF WriteSectorStart, TypeOK, MovedOK
<1>8. CASE WriteIndex
  BY <1>8, ByteFacts DEF WriteIndex, TypeOK, MovedOK, BytesPerTrack
<1>9. CASE WriteTransfer
  BY <1>9, ByteFacts DEF WriteTransfer, TypeOK, MovedOK
<1>10. CASE UNCHANGED moved
  BY <1>10 DEF TypeOK, MovedOK, moved
<1> QED  BY <1>1, <1>2, <1>3, <1>4, <1>5, <1>6, <1>7, <1>8, <1>9, <1>10
    DEF Phase, WriteProtected, Start, SpinUp, HeadLoad, Restore, Seek, Step, Verify,
        VerifyCheck, ReadMotorOn, CheckHeader, TrackMotorOn, ReadCrc, WriteCrc, Multi,
        Finish, MotorStop, regs, disks, spin, moved

LEMMA UpdateTypes ==
    ASSUME TypeOK, NEW pulse \in BOOLEAN, Update(pulse)
    PROVE  SpinOK' /\ Updated(pulse) \in Line
<1>1. SpinOK'
  BY PulseFacts DEF TypeOK, SpinOK, Update
<1>2. sig \in Line
  BY DEF TypeOK, Line
<1> QED  BY <1>1, <1>2, SignalTypes

LEMMA CommandTypes ==
    ASSUME NEW c \in Commands
    PROVE  /\ TypeOf(c.op) \in 0 .. 4
           /\ c.op # "force" => CommandOf(c.op) \in Running
           /\ c.cond \subseteq {"index", "immediate"}
<1>1. c.op \in Ops /\ c.cond \subseteq {"index", "immediate"}
  BY FdcAssumption
<1>2. TypeOf(c.op) \in 0 .. 4
  BY <1>1 DEF TypeOf
<1>3. c.op # "force" => CommandOf(c.op) \in Running
  BY <1>1 DEF CommandOf, Running, Ops
<1> QED  BY <1>1, <1>2, <1>3

LEMMA WriteCommandTypes ==
    ASSUME TypeOK, NEW c \in Commands, NEW pulse \in BOOLEAN, WriteCommand(c, pulse)
    PROVE  TypeOK'
<1>1. Update(pulse) /\ UNCHANGED <<tr, sr, dr, disks, moved, looping>>
  BY DEF WriteCommand
<1>2. SpinOK' /\ Updated(pulse) \in Line
  BY <1>1, UpdateTypes
<1>3. EndForced(Updated(pulse)) \in Line
  BY <1>2, SignalTypes
<1>4. ClearIRQ(EndForced(Updated(pulse))) \in Line
      /\ SetIRQ(EndForced(Updated(pulse)), "forced") \in Line
  BY <1>3, SignalTypes
<1>5. sig' \in Line
  BY <1>4 DEF WriteCommand
<1>6. cond' \subseteq {"index", "immediate"}
      /\ str' \subseteq {"busy", "motorOn", "rnf"}
  BY CommandTypes DEF WriteCommand, TypeOK
<1>7. ControlOK' /\ RegistersOK'
  <2>1. ControlOK'
    BY CommandTypes, <1>1 DEF WriteCommand, TypeOK, ControlOK, States
  <2>2. RegistersOK'
    BY <1>1 DEF WriteCommand, TypeOK, RegistersOK
  <2> QED  BY <2>1, <2>2
<1>8. DisksOK' /\ MovedOK'
  BY <1>1 DEF disks, moved, TypeOK, DisksOK, MovedOK
<1> QED  BY <1>2, <1>5, <1>6, <1>7, <1>8, TypeParts DEF StatusOK, ControlOK,
        RegistersOK, DisksOK, SpinOK, MovedOK, TypeOK, Line

\* What the processor and the index pulse do besides.
LEMMA AccessTypes ==
    ASSUME TypeOK, NEW pulse \in BOOLEAN,
           \/ Tick(pulse) \/ Access(pulse) \/ ReadStatus(pulse)
           \/ \E v \in Values : WriteRegister(v, pulse)
    PROVE  TypeOK'
<1>1. SpinOK' /\ Updated(pulse) \in Line
  BY UpdateTypes DEF Tick, Access, ReadStatus, WriteRegister
<1>2. ClearIRQ(EndForced(Updated(pulse))) \in Line
  <2>1. EndForced(Updated(pulse)) \in Line
    BY <1>1, SignalTypes
  <2> QED  BY <2>1, SignalTypes
<1>3. sig' \in Line /\ UNCHANGED <<str, cond, disks, moved>>
  BY <1>1, <1>2 DEF Tick, Access, ReadStatus, WriteRegister
<1>4. ControlOK'
  BY DEF Tick, Access, ReadStatus, WriteRegister, TypeOK, ControlOK
<1>5. RegistersOK'
  BY FdcAssumption DEF Tick, Access, ReadStatus, WriteRegister, TypeOK, RegistersOK,
                       regs
<1> QED  BY <1>1, <1>3, <1>4, <1>5 DEF ControlOK, RegistersOK, SpinOK, TypeOK, Line,
                                       disks, moved

LEMMA DeviceTypes ==
    ASSUME TypeOK,
           \/ ResetDMA \/ \E d \in Drives \cup {NoDrive} : SelectDrive(d)
           \/ \E b \in BOOLEAN : HdcCommand(b)
           \/ \E b \in BOOLEAN : Reset(b)
           \/ User
    PROVE  TypeOK'
<1>1. CASE ResetDMA
  BY <1>1, ByteFacts DEF ResetDMA, TypeOK, regs, disks, spin
<1>2. CASE \E d \in Drives \cup {NoDrive} : SelectDrive(d)
  BY <1>2 DEF SelectDrive, TypeOK, regs, moved
<1>3. CASE \E b \in BOOLEAN : HdcCommand(b)
  <2>1. PICK b \in BOOLEAN : HdcCommand(b)
    BY <1>3
  <2>2. [irq |-> sig.irq \ {"hdc"}, low |-> sig.low /\ sig.irq \ {"hdc"} # {}] \in Line
    BY DEF TypeOK, Line
  <2>3. sig' \in Line
    BY <2>1, <2>2, SignalTypes DEF HdcCommand
  <2> QED  BY <2>1, <2>3 DEF HdcCommand, TypeOK, Line, regs, spin, disks, moved
<1>4. CASE \E b \in BOOLEAN : Reset(b)
  <2>1. ControlOK' /\ StatusOK'
    <3>1. ControlOK'
      <4>1. cr' \in Commands \cup {NoCommand} /\ cmdType' \in 0 .. 4
        BY <1>4 DEF Reset
      <4>2. command' \in Running \cup {"motorStop", "null"} /\ state' \in States
        BY <1>4 DEF Reset, States
      <4>3. replaceable' \in BOOLEAN /\ armed' \in BOOLEAN /\ looping' \in BOOLEAN
        BY <1>4 DEF Reset, TypeOK
      <4> QED  BY <4>1, <4>2, <4>3 DEF ControlOK
    <3>2. StatusOK'
      BY <1>4 DEF Reset, StatusOK, Line
    <3> QED  BY <3>1, <3>2
  <2>2. RegistersOK' /\ DisksOK'
    BY <1>4, RegisterFacts DEF Reset, TypeOK, RegistersOK, DisksOK, disks
  <2>3. SpinOK' /\ MovedOK'
    BY <1>4, ByteFacts, PulseFacts DEF Reset, TypeOK, SpinOK, MovedOK
  <2> QED  BY <2>1, <2>2, <2>3 DEF ControlOK, RegistersOK, StatusOK, DisksOK, SpinOK,
                                   MovedOK, TypeOK, Line
<1>5. CASE User
  <2>1. UNCHANGED <<cr, cmdType, command, state, replaceable, regs, str, cond, sig,
       pulses,
                    sel, head, moved, armed, looping>>
    BY <1>5 DEF User, Insert, Eject
  <2>2. known' \in [Drives -> BOOLEAN] /\ inserted' \in [Drives -> BOOLEAN]
        /\ protected' \in [Drives -> BOOLEAN]
    <3>1. PICK d \in Drives : Eject(d) \/ \E p \in Protections : Insert(d, p)
      BY <1>5 DEF User
    <3>2. CASE Eject(d)
      BY <3>2 DEF Eject, TypeOK
    <3>3. CASE \E p \in Protections : Insert(d, p)
      BY <3>3, FdcAssumption DEF Insert, TypeOK
    <3> QED  BY <3>1, <3>2, <3>3
  <2> QED  BY <2>1, <2>2 DEF TypeOK, regs, moved
<1> QED  BY <1>1, <1>2, <1>3, <1>4, <1>5

(* Whatever the processor, the user and the disk do, every variable keeps  *)
(* its type: the head stays between the first track and the last, and no   *)
(* register leaves its 8 bits.                                             *)
THEOREM Types == Spec => []TypeOK
<1>1. Init => TypeOK
  <2> SUFFICES ASSUME Init PROVE TypeOK
    OBVIOUS
  <2>1. ControlOK /\ StatusOK
    <3>1. ControlOK
      <4>1. cr \in Commands \cup {NoCommand} /\ cmdType \in 0 .. 4
        BY DEF Init
      <4>2. command \in Running \cup {"motorStop", "null"} /\ state \in States
        BY DEF Init, States
      <4>3. replaceable \in BOOLEAN /\ armed \in BOOLEAN /\ looping \in BOOLEAN
        BY DEF Init
      <4> QED  BY <4>1, <4>2, <4>3 DEF ControlOK
    <3>2. StatusOK
      BY DEF Init, StatusOK, Line
    <3> QED  BY <3>1, <3>2
  <2>2. RegistersOK /\ DisksOK
    BY RegisterFacts, FdcAssumption DEF Init, RegistersOK, DisksOK
  <2>3. SpinOK /\ MovedOK
    BY RegisterFacts, ByteFacts, FdcAssumption DEF Init, SpinOK, MovedOK
  <2> QED  BY <2>1, <2>2, <2>3, TypeParts
<1>2. TypeOK /\ [Next]_vars => TypeOK'
  <2> SUFFICES ASSUME TypeOK, [Next]_vars PROVE TypeOK'
    OBVIOUS
  <2>1. CASE UNCHANGED vars
    BY <2>1 DEF vars, regs, spin, disks, moved, TypeOK
  <2>2. CASE Phase
    <3>1. ControlOK
      BY TypeParts
    <3>2. ControlOK' /\ RegistersOK' /\ StatusOK' /\ DisksOK' /\ SpinOK' /\ MovedOK'
      BY <2>2, <3>1, PhaseControl, PhaseRegisters, PhaseStatus, PhaseDisks, PhaseSpin, PhaseMoved
    <3> QED  BY <3>2 DEF TypeOK, ControlOK, RegistersOK, StatusOK, DisksOK, SpinOK,
                         MovedOK, Line
  <2>3. CASE \E pulse \in BOOLEAN : Tick(pulse)
    BY <2>3, AccessTypes
  <2>4. CASE Cpu
    BY <2>4, AccessTypes, WriteCommandTypes, DeviceTypes DEF Cpu
  <2>5. CASE User
    BY <2>5, DeviceTypes
  <2> QED  BY <2>1, <2>2, <2>3, <2>4, <2>5 DEF Next, Handler
<1> QED  BY <1>1, <1>2, PTL DEF Spec
-----------------------------------------------------------------------------
(* The busy bit: a phase that goes on keeps it and the command, and the    *)
(* others end both.                                                        *)

LEMMA PhaseKeepsBusy == BusyWhileRunning /\ Phase => BusyWhileRunning'
<1> SUFFICES ASSUME BusyWhileRunning, Phase PROVE BusyWhileRunning'
  OBVIOUS
<1>1. CASE WriteProtected
  BY <1>1 DEF WriteProtected, BusyWhileRunning, Complete, Goes, Continue, Wait, In,
              Running, Ops
<1>2. CASE Restore
  BY <1>2 DEF Restore, BusyWhileRunning, Complete, Goes, Continue, Wait, In, Running,
              Ops
<1>3. CASE ReadCrc
  BY <1>3 DEF ReadCrc, BusyWhileRunning, Complete, Goes, Continue, Wait, In, Running,
              Ops
<1>4. CASE WriteIndex
  BY <1>4 DEF WriteIndex, BusyWhileRunning, Complete, Goes, Continue, Wait, In,
              Running, Ops
<1>5. CASE Finish
  BY <1>5 DEF Finish, BusyWhileRunning, Complete, Goes, Continue, Wait, In, Running, Ops
<1>6. CASE MotorStop
  BY <1>6 DEF MotorStop, BusyWhileRunning, Complete, Goes, Continue, Wait, In,
              Running, Ops
<1>7. CASE Start \/ SpinUp \/ HeadLoad \/ Seek \/ Step \/ Verify \/ VerifyNext
           \/ VerifyCheck \/ ReadMotorOn \/ NextHeader \/ CheckHeader \/
           ReadStart \/ ReadAddressStart \/ TrackMotorOn \/ ReadIndex \/
           ReadTransfer \/ WriteSectorStart \/ WriteTransfer \/ WriteCrc \/
           Multi
  <2>1. UNCHANGED command /\ (armed' \/ looping')
    BY <1>7 DEF Start, SpinUp, HeadLoad, Seek, Step, Verify, VerifyNext, VerifyCheck,
                ReadMotorOn, NextHeader, CheckHeader, ReadStart, ReadAddressStart,
                TrackMotorOn, ReadIndex, ReadTransfer, WriteSectorStart,
                WriteTransfer, WriteCrc, Multi, Goes, Continue, Wait, In
  <2>2. "busy" \in str <=> "busy" \in str'
    BY <1>7 DEF Start, SpinUp, HeadLoad, Seek, Step, Verify, VerifyNext, VerifyCheck,
                ReadMotorOn, NextHeader, CheckHeader, ReadStart, ReadAddressStart,
                TrackMotorOn, ReadIndex, ReadTransfer, WriteSectorStart,
                WriteTransfer, WriteCrc, Multi
  <2> QED  BY <2>1, <2>2 DEF BusyWhileRunning
<1> QED  BY <1>1, <1>2, <1>3, <1>4, <1>5, <1>6, <1>7 DEF Phase

(* The busy bit is set exactly while a command runs, and whatever runs has *)
(* its interrupt in the table or is in the handler.                        *)
THEOREM BusyIsRunning == Spec => []BusyWhileRunning
<1>1. Init => BusyWhileRunning
  BY DEF Init, BusyWhileRunning, Running, Ops
<1>2. BusyWhileRunning /\ [Next]_vars => BusyWhileRunning'
  <2> SUFFICES ASSUME BusyWhileRunning, [Next]_vars PROVE BusyWhileRunning'
    OBVIOUS
  <2>1. CASE UNCHANGED vars
    BY <2>1 DEF vars, BusyWhileRunning
  <2>2. CASE Phase
    BY <2>2, PhaseKeepsBusy
  <2>3. CASE \E pulse \in BOOLEAN : Tick(pulse)
    BY <2>3 DEF Tick, BusyWhileRunning
  <2>4. CASE NewCommand
    BY <2>4, CommandTypes DEF NewCommand, WriteCommand, BusyWhileRunning, Running, Ops
  <2>5. CASE Resets
    BY <2>5 DEF Resets, Reset, BusyWhileRunning, Running, Ops
  <2>6. CASE UNCHANGED <<command, str, armed, looping>>
    BY <2>6 DEF BusyWhileRunning
  <2> QED  BY <2>1, <2>2, <2>3, <2>4, <2>5, <2>6 DEF Next, Handler, Cpu, User,
          NewCommand, Resets, Access, ReadStatus, WriteRegister, ResetDMA,
          SelectDrive, HdcCommand, Insert, Eject
<1> QED  BY <1>1, <1>2, PTL DEF Spec
-----------------------------------------------------------------------------
(* The line of the interrupt *)

Agrees(s) == s.low <=> s.irq # {}

\* Each change of the signal moves the line with it.
LEMMA SignalAgrees ==
    ASSUME NEW s \in Line, Agrees(s)
    PROVE  /\ \A x \in {"complete", "index", "forced", "hdc"} :
                 Agrees(SetIRQ(s, x)) /\ x \in SetIRQ(s, x).irq
           /\ Agrees(ClearIRQ(EndForced(s))) /\ Agrees(ClearIRQ(s))
<1>1. \A x \in {"complete", "index", "forced", "hdc"} :
         Agrees(SetIRQ(s, x)) /\ x \in SetIRQ(s, x).irq
  BY DEF Agrees, SetIRQ
<1>2. Agrees(ClearIRQ(s))
  BY DEF Agrees, ClearIRQ, Line
<1>3. Agrees(ClearIRQ(EndForced(s)))
  <2>1. EndForced(s) = s \/ EndForced(s) = [irq |-> s.irq \ {"forced"}, low |-> s.low]
    BY DEF EndForced, Line
  <2>2. CASE EndForced(s) = s
    BY <1>2, <2>2
  <2>3. CASE EndForced(s) = [irq |-> s.irq \ {"forced"}, low |-> s.low]
    BY <2>3 DEF Agrees, ClearIRQ
  <2> QED  BY <2>1, <2>2, <2>3
<1> QED  BY <1>1, <1>2, <1>3

LEMMA UpdatedAgrees ==
    ASSUME TypeOK, LineFollowsSignal, NEW pulse \in BOOLEAN
    PROVE  Updated(pulse) \in Line /\ Agrees(Updated(pulse))
<1>1. sig \in Line /\ Agrees(sig)
  BY DEF TypeOK, Line, LineFollowsSignal, Agrees
<1> QED  BY <1>1, SignalTypes, SignalAgrees DEF Updated

\* The forced interrupt may come after the old one was taken back.
LEMMA ForcedAgrees ==
    ASSUME NEW s \in Line, Agrees(s)
    PROVE  Agrees(SetIRQ(EndForced(s), "forced"))
<1>1. EndForced(s) = s \/ EndForced(s) = [irq |-> s.irq \ {"forced"}, low |-> s.low]
  BY DEF EndForced, Line
<1>2. CASE EndForced(s) = s
  BY <1>2, SignalAgrees
<1>3. CASE EndForced(s) = [irq |-> s.irq \ {"forced"}, low |-> s.low]
  <2>1. EndForced(s).irq = {} \/ EndForced(s).low
    BY <1>3 DEF Agrees, Line
  <2>2. SetIRQ(EndForced(s), "forced").low
    BY <2>1 DEF SetIRQ
  <2>3. "forced" \in SetIRQ(EndForced(s), "forced").irq
    BY DEF SetIRQ
  <2> QED  BY <2>2, <2>3 DEF Agrees
<1> QED  BY <1>1, <1>2, <1>3

\* The handler requests, and takes nothing back.
LEMMA PhaseSignals == Phase => UNCHANGED sig \/ sig' = SetIRQ(sig, "complete")
<1> SUFFICES ASSUME Phase PROVE UNCHANGED sig \/ sig' = SetIRQ(sig, "complete")
  OBVIOUS
<1>1. CASE WriteProtected
  BY <1>1 DEF WriteProtected, Complete
<1>2. CASE Restore
  BY <1>2 DEF Restore, Complete
<1>3. CASE ReadCrc
  BY <1>3 DEF ReadCrc, Complete
<1>4. CASE WriteIndex
  BY <1>4 DEF WriteIndex, Complete
<1>5. CASE Finish
  BY <1>5 DEF Finish, Complete
<1>6. CASE Start \/ SpinUp \/ HeadLoad \/ Seek \/ Step \/ Verify \/ VerifyNext
           \/ VerifyCheck \/ ReadMotorOn \/ NextHeader \/ CheckHeader \/
           ReadStart \/ ReadAddressStart \/ TrackMotorOn \/ ReadIndex \/
           ReadTransfer \/ WriteSectorStart \/ WriteTransfer \/ WriteCrc \/
           Multi \/ MotorStop
  BY <1>6 DEF Start, SpinUp, HeadLoad, Seek, Step, Verify, VerifyNext, VerifyCheck,
              ReadMotorOn, NextHeader, CheckHeader, ReadStart, ReadAddressStart,
              TrackMotorOn, ReadIndex, ReadTransfer, WriteSectorStart, WriteTransfer,
              WriteCrc, Multi, MotorStop
<1> QED  BY <1>1, <1>2, <1>3, <1>4, <1>5, <1>6 DEF Phase

(* Line 5 of GPIP is low exactly while someone requests an interrupt.      *)
THEOREM LineIsSignal == Spec => []LineFollowsSignal
<1>1. Init => LineFollowsSignal
  BY DEF Init, LineFollowsSignal
<1>2. TypeOK /\ LineFollowsSignal /\ [Next]_vars => LineFollowsSignal'
  <2> SUFFICES ASSUME TypeOK, LineFollowsSignal, [Next]_vars PROVE Agrees(sig')
    BY DEF LineFollowsSignal, Agrees
  <2>1. sig \in Line /\ Agrees(sig)
    BY DEF TypeOK, Line, LineFollowsSignal, Agrees
  <2>2. CASE UNCHANGED sig
    BY <2>1, <2>2
  <2>3. CASE Phase
    BY <2>1, <2>3, PhaseSignals, SignalAgrees
  <2>4. CASE \E pulse \in BOOLEAN : Tick(pulse) \/ Access(pulse)
                                   \/ \E v \in Values : WriteRegister(v, pulse)
    BY <2>4, UpdatedAgrees DEF Tick, Access, WriteRegister
  <2>5. CASE \E pulse \in BOOLEAN : ReadStatus(pulse)
    BY <2>5, UpdatedAgrees, SignalAgrees DEF ReadStatus
  <2>6. CASE NewCommand
    BY <2>6, UpdatedAgrees, SignalAgrees, ForcedAgrees DEF NewCommand, WriteCommand
  <2>7. CASE Hdc
    <3>1. PICK accepted \in BOOLEAN : HdcCommand(accepted)
      BY <2>7 DEF Hdc
    <3> DEFINE s == [irq |-> sig.irq \ {"hdc"},
                     low |-> sig.low /\ sig.irq \ {"hdc"} # {}]
    <3>2. s \in Line /\ Agrees(s)
      BY <2>1 DEF Line, Agrees
    <3>3. sig' = s \/ sig' = SetIRQ(s, "hdc")
      BY <3>1 DEF HdcCommand
    <3> QED  BY <3>2, <3>3, SignalAgrees
  <2>8. CASE Resets
    BY <2>8 DEF Resets, Reset, Agrees
  <2> QED  BY <2>2, <2>3, <2>4, <2>5, <2>6, <2>7, <2>8 DEF Next, Handler, Cpu, User,
          vars, NewCommand, Resets, Hdc, ResetDMA, SelectDrive, Insert, Eject
<1> QED  BY <1>1, <1>2, Types, PTL DEF Spec
-----------------------------------------------------------------------------
(* The index pulse *)

(* The position of the index pulse is kept only for a disk that turns.     *)
THEOREM PulsesNeedADisk == Spec => []PulsesOfSpinningDisk
<1>1. Init => PulsesOfSpinningDisk
  BY DEF Init, PulsesOfSpinningDisk
<1>2. TypeOK /\ PulsesOfSpinningDisk /\ [Next]_vars => PulsesOfSpinningDisk'
  <2> SUFFICES ASSUME TypeOK, PulsesOfSpinningDisk, [Next]_vars
               PROVE  PulsesOfSpinningDisk'
    OBVIOUS
  <2>1. CASE UNCHANGED <<sel, known, inserted>>
              /\ ("motorOn" \in str => "motorOn" \in str')
    BY <2>1 DEF PulsesOfSpinningDisk, Spinning, Disk
  <2>2. CASE Start
    BY <2>2 DEF Start, TypeOK, PulsesOfSpinningDisk, Spinning, Disk, disks
  <2>3. CASE MotorStop
    BY <2>3 DEF MotorStop, TypeOK, PulsesOfSpinningDisk, Spinning, Disk, disks, spin
  <2>4. CASE \E pulse \in BOOLEAN : Update(pulse) /\ UNCHANGED <<sel, inserted>>
                                   /\ ("motorOn" \in str => "motorOn" \in str')
    BY <2>4 DEF Update, TypeOK, PulsesOfSpinningDisk, Spinning, Disk
  <2>5. CASE \E d \in Drives \cup {NoDrive} : SelectDrive(d)
    BY <2>5 DEF SelectDrive, PulsesOfSpinningDisk, Spinning, Disk
  <2>6. CASE User
    BY <2>6 DEF User, Insert, Eject, TypeOK, PulsesOfSpinningDisk, Spinning, Disk
  <2>7. CASE Resets
    BY <2>7 DEF Resets, Reset, PulsesOfSpinningDisk, disks
  <2>8. CASE WriteProtected \/ SpinUp \/ HeadLoad \/ Restore \/ Seek \/ Step
             \/ Verify \/ VerifyNext \/ VerifyCheck \/ ReadMotorOn \/
             NextHeader \/ CheckHeader \/ ReadStart \/ ReadAddressStart \/
             TrackMotorOn \/ ReadIndex \/ ReadTransfer \/ ReadCrc \/
             WriteSectorStart \/ WriteIndex \/ WriteTransfer \/ WriteCrc \/
             Multi \/ Finish
    <3>1. UNCHANGED <<sel, known, inserted>>
      BY <2>8 DEF WriteProtected, SpinUp, HeadLoad, Restore, Seek, Step, Verify,
                  VerifyNext, VerifyCheck, ReadMotorOn, NextHeader, CheckHeader,
                  ReadStart, ReadAddressStart, TrackMotorOn, ReadIndex, ReadTransfer,
                  ReadCrc, WriteSectorStart, WriteIndex, WriteTransfer, WriteCrc,
                  Multi, Finish, disks, spin
    <3>2. "motorOn" \in str => "motorOn" \in str'
      BY <2>8 DEF WriteProtected, SpinUp, HeadLoad, Restore, Seek, Step, Verify,
                  VerifyNext, VerifyCheck, ReadMotorOn, NextHeader, CheckHeader,
                  ReadStart, ReadAddressStart, TrackMotorOn, ReadIndex, ReadTransfer,
                  ReadCrc, WriteSectorStart, WriteIndex, WriteTransfer, WriteCrc,
                  Multi, Finish
    <3> QED  BY <2>1, <3>1, <3>2
  <2>9. CASE \E pulse \in BOOLEAN :
                \/ Tick(pulse) \/ Access(pulse) \/ ReadStatus(pulse)
                \/ \E c \in Commands : WriteCommand(c, pulse)
                \/ \E v \in Values : WriteRegister(v, pulse)
    BY <2>4, <2>9 DEF Tick, Access, ReadStatus, WriteCommand, WriteRegister, disks
  <2>10. CASE ResetDMA \/ Hdc \/ UNCHANGED vars
    BY <2>1, <2>10 DEF ResetDMA, Hdc, HdcCommand, vars, spin, disks
  <2> QED  BY <2>2, <2>3, <2>5, <2>6, <2>7, <2>8, <2>9, <2>10
      DEF Next, Handler, Phase, Cpu, Resets, Hdc
<1> QED  BY <1>1, <1>2, Types, PTL DEF Spec
-----------------------------------------------------------------------------
(* How commands end, and what ends a request *)

(* A command that ends by itself requests an interrupt.                    *)
THEOREM EndsRequest == Spec => EndRequestsInterrupt
<1>1. [Next]_vars => [("busy" \in str /\ "busy" \notin str')
                        => ("complete" \in sig'.irq \/ cmdType' \in {0, 4})]_vars
  <2> SUFFICES ASSUME [Next]_vars, "busy" \in str, "busy" \notin str'
               PROVE  "complete" \in sig'.irq \/ cmdType' \in {0, 4}
    OBVIOUS
  <2>1. CASE sig' = SetIRQ(sig, "complete")
    BY <2>1 DEF SetIRQ
  <2>2. CASE Phase
    <3>1. CASE WriteProtected \/ Restore \/ ReadCrc \/ WriteIndex \/ Finish
      BY <2>1, <3>1 DEF WriteProtected, Restore, ReadCrc, WriteIndex, Finish, Complete
    <3> QED  BY <2>2, <3>1 DEF Phase, Start, SpinUp, HeadLoad, Seek, Step, Verify,
                               VerifyNext, VerifyCheck, ReadMotorOn, NextHeader,
                               CheckHeader, ReadStart, ReadAddressStart, TrackMotorOn,
                               ReadIndex, ReadTransfer, WriteSectorStart,
                               WriteTransfer, WriteCrc, Multi, MotorStop
  <2>3. CASE NewCommand
    BY <2>3 DEF NewCommand, WriteCommand, TypeOf, TypeI, TypeII
  <2>4. CASE Resets
    BY <2>4 DEF Resets, Reset
  <2> QED  BY <2>2, <2>3, <2>4 DEF Next, Handler, Cpu, User, vars, NewCommand, Resets,
                                   Tick, Access, ReadStatus, WriteRegister, ResetDMA,
                                   SelectDrive, HdcCommand, Insert, Eject
<1> QED  BY <1>1, PTL DEF Spec, EndRequestsInterrupt

LEMMA ForcedIsKept ==
    ASSUME TypeOK, NEW pulse \in BOOLEAN, "forced" \in sig.irq, "immediate" \in cond
    PROVE  /\ "forced" \in Updated(pulse).irq
           /\ "forced" \in EndForced(Updated(pulse)).irq
           /\ "forced" \in ClearIRQ(EndForced(Updated(pulse))).irq
           /\ "forced" \in SetIRQ(EndForced(Updated(pulse)), "forced").irq
<1>1. "forced" \in Updated(pulse).irq /\ Updated(pulse) \in Line
  <2>1. "forced" \in Updated(pulse).irq
    BY DEF Updated, SetIRQ
  <2> QED  BY <2>1, SignalTypes DEF TypeOK, Line
<1>2. EndForced(Updated(pulse)) = Updated(pulse)
  BY DEF EndForced
<1> QED  BY <1>1, <1>2 DEF ClearIRQ, SetIRQ, Line

(* A request stays until the processor takes it back, a forced one until   *)
(* its condition was replaced.                                             *)
THEOREM RequestsStay == Spec => RequestsAreKept
<1>1. TypeOK /\ [Next]_vars =>
        [/\ ~(sig.irq \subseteq sig'.irq \cup {"hdc"})
               => (ReadsStatus \/ NewCommand \/ Hdc \/ Resets)
         /\ ("forced" \in sig.irq /\ "forced" \notin sig'.irq)
               => ("immediate" \notin cond \/ Hdc \/ Resets)]_vars
  <2> SUFFICES ASSUME TypeOK, [Next]_vars
               PROVE  /\ ~(sig.irq \subseteq sig'.irq \cup {"hdc"})
                            => (ReadsStatus \/ NewCommand \/ Hdc \/ Resets)
                      /\ ("forced" \in sig.irq /\ "forced" \notin sig'.irq)
                            => ("immediate" \notin cond \/ Hdc \/ Resets)
    OBVIOUS
  <2>1. CASE UNCHANGED sig \/ \E x \in {"complete", "index"} : sig' = SetIRQ(sig, x)
    BY <2>1 DEF SetIRQ
  <2>2. CASE Phase
    BY <2>1, <2>2, PhaseSignals
  <2>3. CASE \E pulse \in BOOLEAN : Tick(pulse) \/ Access(pulse)
                                   \/ \E v \in Values : WriteRegister(v, pulse)
    BY <2>1, <2>3 DEF Tick, Access, WriteRegister, Updated
  <2>4. CASE ReadsStatus
    BY <2>4, ForcedIsKept DEF ReadsStatus, ReadStatus
  <2>5. CASE NewCommand
    BY <2>5, ForcedIsKept DEF NewCommand, WriteCommand
  <2>6. CASE Hdc \/ Resets
    BY <2>6
  <2> QED  BY <2>1, <2>2, <2>3, <2>4, <2>5, <2>6 DEF Next, Handler, Cpu, User, vars,
          NewCommand, Resets, Hdc, ReadsStatus, ResetDMA, SelectDrive, Insert, Eject
<1> QED  BY <1>1, Types, PTL DEF Spec, RequestsAreKept
-----------------------------------------------------------------------------
(* A command that can be replaced has not passed the start of the motor.   *)

Early == {"start", "spinUp", "headLoad", "motorOn"}
ReplaceableIsEarly == replaceable /\ command \in Running => state \in Early

\* A phase that leaves a command replaceable is one of its first.
LEMMA PhaseOfReplaceable ==
    ASSUME ReplaceableIsEarly, Phase, replaceable'
    PROVE  /\ ReplaceableIsEarly' /\ replaceable
           /\ UNCHANGED <<tr, sr, dir, head, moved>>
<1>1. CASE Start \/ SpinUp \/ HeadLoad
  BY <1>1 DEF Start, SpinUp, HeadLoad, Goes, Continue, Wait, ReplaceableIsEarly,
              Early, regs, disks
<1>2. CASE WriteProtected \/ MotorStop
  BY <1>2 DEF WriteProtected, MotorStop, Complete, Wait, Goes, ReplaceableIsEarly,
              Running, Ops, regs, disks
<1>3. CASE Restore \/ Seek \/ Step \/ ReadMotorOn \/ TrackMotorOn
  BY <1>3 DEF Restore, Seek, Step, ReadMotorOn, TrackMotorOn
<1>4. CASE NextHeader
  BY <1>4 DEF NextHeader, In, ReplaceableIsEarly, Early, Running, Ops
<1>5. CASE Verify \/ VerifyNext \/ VerifyCheck \/ CheckHeader \/ ReadStart \/
           ReadAddressStart \/ ReadIndex \/ ReadTransfer \/ ReadCrc \/
           WriteSectorStart \/ WriteIndex \/ WriteTransfer \/ WriteCrc \/
           Multi \/ Finish
  <2>1. command \in Running /\ state \notin Early
    BY <1>5 DEF Verify, VerifyNext, VerifyCheck, CheckHeader, ReadStart,
                ReadAddressStart, ReadIndex, ReadTransfer, ReadCrc, WriteSectorStart,
                WriteIndex, WriteTransfer, WriteCrc, Multi, Finish, In, TypeII,
                Running, Ops, Early
  <2>2. UNCHANGED replaceable
    BY <1>5 DEF Verify, VerifyNext, VerifyCheck, CheckHeader, ReadStart,
                ReadAddressStart, ReadIndex, ReadTransfer, ReadCrc, WriteSectorStart,
                WriteIndex, WriteTransfer, WriteCrc, Multi, Finish
  <2> QED  BY <2>1, <2>2 DEF ReplaceableIsEarly
<1> QED  BY <1>1, <1>2, <1>3, <1>4, <1>5 DEF Phase

\* The inductive invariant behind it.
LEMMA ReplaceableStaysEarly == Spec => []ReplaceableIsEarly
<1>1. Init => ReplaceableIsEarly
  BY DEF Init, ReplaceableIsEarly
<1>2. ReplaceableIsEarly /\ [Next]_vars => ReplaceableIsEarly'
  <2> SUFFICES ASSUME ReplaceableIsEarly, [Next]_vars, replaceable'
               PROVE  ReplaceableIsEarly'
    BY DEF ReplaceableIsEarly
  <2>1. CASE Phase
    BY <2>1, PhaseOfReplaceable
  <2>2. CASE NewCommand
    BY <2>2 DEF NewCommand, WriteCommand, ReplaceableIsEarly, Early, Running, Ops
  <2>3. CASE Resets
    BY <2>3 DEF Resets, Reset, ReplaceableIsEarly, Running, Ops
  <2>4. CASE UNCHANGED <<replaceable, command, state>>
    BY <2>4 DEF ReplaceableIsEarly
  <2> QED  BY <2>1, <2>2, <2>3, <2>4 DEF Next, Handler, Cpu, User, vars, NewCommand,
          Resets, Tick, Access, ReadStatus, WriteRegister, ResetDMA, SelectDrive,
          HdcCommand, Insert, Eject
<1> QED  BY <1>1, <1>2, PTL DEF Spec

(* Only a command that has done nothing yet is replaced.                   *)
THEOREM ReplacedHasNotActed == Spec => ReplaceableHasNotActed
<1>1. ReplaceableIsEarly /\ [Next]_vars =>
        [/\ (looping /\ replaceable') => UNCHANGED <<tr, sr, dir, head, moved>>
         /\ ("busy" \in str /\ ~replaceable /\ replaceable') => cmdType' = 4]_vars
  <2> SUFFICES ASSUME ReplaceableIsEarly, [Next]_vars
               PROVE  /\ looping /\ replaceable'
                            => UNCHANGED <<tr, sr, dir, head, moved>>
                      /\ "busy" \in str /\ ~replaceable /\ replaceable'
                            => cmdType' = 4
    OBVIOUS
  <2>1. CASE Phase
    BY <2>1, PhaseOfReplaceable
  <2>2. CASE NewCommand
    BY <2>2 DEF NewCommand, WriteCommand, Replaces
  <2>3. CASE ~looping /\ UNCHANGED replaceable
    BY <2>3
  <2>4. CASE UNCHANGED vars
    BY <2>4 DEF vars, regs, disks, moved
  <2> QED  BY <2>1, <2>2, <2>3, <2>4 DEF Next, Handler, Cpu, User, NewCommand, Tick,
          Access, ReadStatus, WriteRegister, ResetDMA, SelectDrive, HdcCommand,
          Insert, Eject, Reset
<1> QED  BY <1>1, ReplaceableStaysEarly, PTL DEF Spec, ReplaceableHasNotActed
=============================================================================

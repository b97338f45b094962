-------------------------------- MODULE Mfp --------------------------------
(***************************************************************************)
(* The interrupt controller of the MFP 68901, hatari/src/mfp.c, as the CPU *)
(* core of uae-cpu/newcpu.c drives it.                                     *)
(*                                                                         *)
(* Devices and timers raise inputs on channels (MFP_InputOnChannel) while  *)
(* an instruction executes or in the dispatch loop after it; the IRQ line  *)
(* is recomputed (MFP_UpdateIRQ) by every register write, by the CPU loop  *)
(* if an input asked for it, and by the interrupt acknowledge sequence.    *)
(*                                                                         *)
(* Registers are sets of channels: ier, ipr, isr, imr stand for the A and  *)
(* B halves of IERx, IPRx, ISRx, IMRx; sei is bit 3 of VR.  A channel's    *)
(* number is its priority.  The unit of time is 4 CPU cycles, to which     *)
(* M68000_AddCycles rounds.                                                *)
(***************************************************************************)
EXTENDS Integers, FiniteSetsExt

CONSTANTS
    MFP_INT_MAX,    \* the highest interrupt number: 15
    Banks,          \* the halves of the registers: {bank B, bank A}
    IrqDelay,       \* MFP_IRQ_DELAY_TO_CPU
    IackCycles,     \* CPU_IACK_CYCLES_START + CPU_IACK_CYCLES_MFP or _VIDEO
    InstrCycles,    \* lengths of an instruction
    Never,          \* UINT64_MAX
    MaxClock        \* bound on CyclesGlobalClockCounter: the runs stop there

\* Interrupt numbers: a channel's is its priority.
Channels == 0 .. MFP_INT_MAX

ASSUME MfpAssumption ==
    /\ MFP_INT_MAX \in Nat
    /\ UNION Banks = Channels
    /\ IrqDelay \in Nat /\ IackCycles \in Nat
    /\ InstrCycles \subseteq Nat \ {0}
    /\ MaxClock \in Nat /\ Never \in Nat /\ MaxClock + IackCycles < Never

VARIABLES
    ier, ipr, isr, imr, sei,
    irq,            \* MFP_IRQ
    irqTime,        \* MFP_IRQ_Time
    current,        \* MFP_Current_Interrupt, -1 after a reset
    updateNeeded,   \* MFP_UpdateNeeded
    timeMin,        \* MFP_Pending_Time_Min
    pendingTime,    \* MFP_Pending_Time[]
    clock,          \* CyclesGlobalClockCounter
    phase,          \* "run", "events", "special", "iack" or "autovector"
    length,         \* cycles of the instruction or IACK sequence being executed
    intMasked       \* regs.intmask >= 6

registers == <<ier, ipr, isr, imr, sei>>
irqState == <<irq, irqTime, current>>
cpu == <<clock, phase, length, intMasked>>
vars == <<registers, irqState, updateNeeded, timeMin, pendingTime, cpu>>

(***************************************************************************)
(* MFP_UpdateIRQ.                                                          *)
(***************************************************************************)

\* No channel of the same or a higher priority is in service.
Unblocked(i, service) == \A s \in service : s < i

\* Mutant: the channels in service are ignored.
RequestsNested(pending, service, mask, oldest) ==
    {i \in pending \cap mask : pendingTime[i] <= oldest}

\* MFP_InterruptRequest for every channel: pending, not masked, not later than
\* the oldest input since the last update, not blocked.
Requests(pending, service, mask, oldest) ==
    {i \in pending \cap mask : pendingTime[i] <= oldest /\ Unblocked(i, service)}

\* MFP_UpdateIRQ on an IRQ state st: the highest of the requests drives the
\* line; time is that of a register write, or 0 when called from the CPU loop.
UpdatedIrq(st, requests, time) ==
    IF requests = {}
    THEN [st EXCEPT !.irq = 0]
    ELSE LET new == Max(requests)
         IN  [irq |-> 1,
              current |-> new,
              irqTime |-> IF st.irq = 1 THEN st.irqTime
                          ELSE IF time # 0 THEN time ELSE pendingTime[new]]

IrqRecord == [irq |-> irq, irqTime |-> irqTime, current |-> current]

SetIrq(st) ==
    /\ irq' = st.irq
    /\ irqTime' = st.irqTime
    /\ current' = st.current
    /\ timeMin' = Never
    /\ updateNeeded' = FALSE

UpdateIRQ(time) ==
    SetIrq(UpdatedIrq(IrqRecord, Requests(ipr', isr', imr', timeMin), time))

(***************************************************************************)
(* Inputs.                                                                 *)
(***************************************************************************)

\* MFP_InputOnChannel: input i, delayed cycles ago.
InputOnChannel(i, delayed) ==
    /\ IF i \in ier
       THEN LET t == clock - delayed
            IN  /\ ipr' = ipr \cup {i}
                /\ pendingTime' = [pendingTime EXCEPT ![i] = t]
                /\ timeMin' = IF i \in imr /\ t < timeMin THEN t ELSE timeMin
       ELSE /\ ipr' = ipr \ {i}
            /\ UNCHANGED <<pendingTime, timeMin>>
    /\ updateNeeded' = TRUE
    /\ UNCHANGED <<ier, isr, imr, sei, irqState, cpu>>

\* A device changes its line while the CPU accesses it.
DeviceInput(i) ==
    /\ phase = "run"
    /\ InputOnChannel(i, 0)

\* Mutant: the delay is passed with the wrong sign.
TimerInputAhead(i, delayed) ==
    /\ phase \in {"events", "iack", "autovector"}
    /\ delayed <= length
    /\ InputOnChannel(i, -delayed)

\* A handler of the cycle interrupt table; timers pass how long ago they expired.
TimerInput(i, delayed) ==
    /\ phase \in {"events", "iack", "autovector"}
    /\ delayed <= length
    /\ InputOnChannel(i, delayed)

(***************************************************************************)
(* Register writes of the instruction being executed.  The time of the     *)
(* write cycle lies within the instruction.                                *)
(***************************************************************************)

WriteTimes == clock .. clock + length

\* Mutant: the pending bits of the disabled channels survive.
WriteEnableKeepPending(bank, value) ==
    /\ phase = "run"
    /\ ier' = (ier \ bank) \cup (value \cap bank)
    /\ UNCHANGED <<ipr, isr, imr, sei, pendingTime, cpu>>
    /\ \E t \in WriteTimes : UpdateIRQ(t)

\* MFP_EnableA/B_WriteByte
WriteEnable(bank, value) ==
    /\ phase = "run"
    /\ ier' = (ier \ bank) \cup (value \cap bank)
    /\ ipr' = ipr \ (bank \ value)
    /\ UNCHANGED <<isr, imr, sei, pendingTime, cpu>>
    /\ \E t \in WriteTimes : UpdateIRQ(t)

\* MFP_PendingA/B_WriteByte
WritePending(bank, value) ==
    /\ phase = "run"
    /\ ipr' = ipr \ (bank \ value)
    /\ UNCHANGED <<ier, isr, imr, sei, pendingTime, cpu>>
    /\ \E t \in WriteTimes : UpdateIRQ(t)

\* MFP_InServiceA/B_WriteByte
WriteInService(bank, value) ==
    /\ phase = "run"
    /\ isr' = isr \ (bank \ value)
    /\ UNCHANGED <<ier, ipr, imr, sei, pendingTime, cpu>>
    /\ \E t \in WriteTimes : UpdateIRQ(t)

\* Mutant: the line is not updated.
WriteMaskNoUpdate(bank, value) ==
    /\ phase = "run"
    /\ imr' = (imr \ bank) \cup (value \cap bank)
    /\ UNCHANGED <<ier, ipr, isr, sei, irqState, timeMin, updateNeeded, pendingTime, cpu>>

\* MFP_MaskA/B_WriteByte
WriteMask(bank, value) ==
    /\ phase = "run"
    /\ imr' = (imr \ bank) \cup (value \cap bank)
    /\ UNCHANGED <<ier, ipr, isr, sei, pendingTime, cpu>>
    /\ \E t \in WriteTimes : UpdateIRQ(t)

\* MFP_VectorReg_WriteByte: leaving software end-of-interrupt mode clears the
\* in-service bits and updates the line; nothing else does.
WriteVector(software) ==
    /\ phase = "run"
    /\ sei' = software
    /\ UNCHANGED <<ier, ipr, imr, pendingTime, cpu>>
    /\ IF sei /\ ~software
       THEN isr' = {} /\ \E t \in WriteTimes : UpdateIRQ(t)
       ELSE UNCHANGED <<isr, irqState, timeMin, updateNeeded>>

(***************************************************************************)
(* The CPU.                                                                *)
(***************************************************************************)

Init ==
    /\ ier = {} /\ ipr = {} /\ isr = {} /\ imr = {} /\ sei = FALSE
    /\ irq = 0 /\ irqTime = 0 /\ current = -1
    /\ updateNeeded = FALSE
    /\ timeMin = Never
    /\ pendingTime = [i \in Channels |-> Never]
    /\ clock = 1
    /\ phase = "run"
    /\ length \in InstrCycles
    /\ intMasked = TRUE

\* MFP_Reset, between two instructions; the CPU core leaves reset with level 7.
Reset ==
    /\ phase = "run"
    /\ ier' = {} /\ ipr' = {} /\ isr' = {} /\ imr' = {} /\ sei' = FALSE
    /\ irq' = 0 /\ irqTime' = 0 /\ current' = -1
    /\ updateNeeded' = FALSE
    /\ timeMin' = Never
    /\ pendingTime' = [i \in Channels |-> Never]
    /\ intMasked' = TRUE
    /\ UNCHANGED <<clock, phase, length>>

\* The program changes the interrupt level of the status register.
SetLevel ==
    /\ phase = "run"
    /\ intMasked' = ~intMasked
    /\ UNCHANGED <<registers, irqState, updateNeeded, timeMin, pendingTime,
                   clock, phase, length>>

\* The instruction ends: M68000_AddCycles, and the dispatch loop if a cycle
\* interrupt is due (PendingInterruptCount <= 0), else straight to the flags.
EndInstruction(due) ==
    /\ phase = "run"
    /\ clock + length <= MaxClock
    /\ clock' = clock + length
    /\ phase' = IF due THEN "events" ELSE "special"
    /\ UNCHANGED <<registers, irqState, updateNeeded, timeMin, pendingTime,
                   length, intMasked>>

\* End of the dispatch loop: "if ( MFP_UpdateNeeded == true ) MFP_UpdateIRQ ( 0 )".
\* An HBL or VBL exception ends with the same lines, even if no cycle interrupt
\* was due, and the first instruction of its handler follows.
EndEvents ==
    /\ phase \in {"events", "autovector"}
    /\ phase' = IF phase = "events" THEN "special" ELSE "run"
    /\ UNCHANGED <<registers, pendingTime, clock, length, intMasked>>
    /\ IF updateNeeded THEN UpdateIRQ(0) ELSE UNCHANGED <<irqState, timeMin, updateNeeded>>

ExceptionPossible == irq = 1 /\ clock - irqTime >= IrqDelay /\ ~intMasked

\* MFP_ProcessIRQ, called because SPCFLAG_MFP is set; Exception() then lets the
\* cycles before the acknowledge pass.
StartException ==
    /\ phase = "special"
    /\ ExceptionPossible
    /\ phase' = "iack"
    /\ clock' = clock + IackCycles
    /\ length' = IackCycles
    /\ UNCHANGED <<registers, irqState, updateNeeded, timeMin, pendingTime, intMasked>>

\* No MFP exception: an HBL or VBL interrupt of a lower level starts instead.
StartVideoException ==
    /\ phase = "special"
    /\ ~ExceptionPossible
    /\ ~intMasked
    /\ clock + IackCycles <= MaxClock
    /\ phase' = "autovector"
    /\ clock' = clock + IackCycles
    /\ length' = IackCycles
    /\ UNCHANGED <<registers, irqState, updateNeeded, timeMin, pendingTime, intMasked>>

\* No exception: the next instruction starts.
NextInstruction ==
    /\ phase = "special"
    /\ ~ExceptionPossible
    /\ phase' = "run"
    /\ length' \in InstrCycles
    /\ UNCHANGED <<registers, irqState, updateNeeded, timeMin, pendingTime, clock, intMasked>>

\* MFP_ProcessIACK: the line is updated, the current channel is taken off the
\* pending ones and put in service (software end-of-interrupt) or taken off the
\* in-service ones, and the line is updated again.  The cycles that Exception()
\* adds after the acknowledge count as part of the next instruction here.
ProcessIACK ==
    /\ phase = "iack"
    /\ LET before == UpdatedIrq(IrqRecord, Requests(ipr, isr, imr, timeMin), clock)
           c == before.current
       IN  /\ ipr' = ipr \ {c}
           /\ isr' = IF sei THEN isr \cup {c} ELSE isr \ {c}
           /\ SetIrq(UpdatedIrq(before, Requests(ipr', isr', imr, Never), clock))
    /\ UNCHANGED <<ier, imr, sei, pendingTime, clock>>
    /\ intMasked' = TRUE
    /\ phase' = "run"
    /\ length' \in InstrCycles

Next ==
    \/ Reset
    \/ \E i \in Channels : DeviceInput(i)
    \/ \E i \in Channels, d \in 0 .. length : TimerInput(i, d)
    \/ \E bank \in Banks : \E value \in SUBSET bank :
          \/ WriteEnable(bank, value) \/ WritePending(bank, value)
          \/ WriteInService(bank, value) \/ WriteMask(bank, value)
    \/ \E software \in BOOLEAN : WriteVector(software)
    \/ SetLevel
    \/ \E due \in BOOLEAN : EndInstruction(due)
    \/ EndEvents
    \/ StartException
    \/ StartVideoException
    \/ NextInstruction
    \/ ProcessIACK

Spec == Init /\ [][Next]_vars

(***************************************************************************)
(* Correctness.                                                            *)
(***************************************************************************)

TypeOK ==
    /\ ier \subseteq Channels /\ ipr \subseteq Channels
    /\ isr \subseteq Channels /\ imr \subseteq Channels
    /\ sei \in BOOLEAN /\ updateNeeded \in BOOLEAN /\ intMasked \in BOOLEAN
    /\ irq \in {0, 1} /\ irqTime \in Nat
    /\ current \in Channels \cup {-1}
    /\ timeMin \in Nat /\ pendingTime \in [Channels -> Nat]
    /\ clock \in Nat /\ length \in Nat
    /\ phase \in {"run", "events", "special", "iack", "autovector"}

\* A channel that is not enabled is never pending: neither a disabling write
\* nor an input on a disabled channel leaves its bit behind.
PendingIsEnabled == ipr \subseteq ier

\* While the IRQ line is up, the interrupt whose vector the CPU would fetch is
\* pending, not masked, and above everything in service: no write to any
\* register and no acknowledge leaves the line up for a request that is gone.
SignalIsARequest ==
    irq = 1 => current \in ipr \cap imr /\ Unblocked(current, isr)

\* MFP_ProcessIRQ computes CyclesGlobalClockCounter - MFP_IRQ_Time in unsigned
\* arithmetic: the line never went up later than the instruction's end.
IrqTimeIsPast ==
    phase \in {"special", "iack"} /\ irq = 1 => irqTime <= clock

\* Interrupts acknowledged in software end-of-interrupt mode nest by strictly
\* increasing priority, even if inputs arrive between the exception and IACK.
NestingIncreases ==
    [][ProcessIACK /\ sei =>
          \E c \in ipr \cap imr : isr' = isr \cup {c} /\ Unblocked(c, isr)]_vars
=============================================================================

----------------------------- MODULE MfpTimers -----------------------------
(***************************************************************************)
(* The four timers of the MFP 68901, hatari/src/mfp.c, on the queue of     *)
(* absolute deadlines that cycInt.c implements (EventQueue.tla).           *)
(*                                                                         *)
(* A timer has a main counter, reloaded from its data register, and a      *)
(* control register: 0 stops it, 1 .. 7 divide the clock of the MFP, 8     *)
(* counts events, 9 .. 15 are taken for 1 .. 7.  While a timer divides,    *)
(* its main counter is stale and its time is an entry of the queue; a      *)
(* timer that is stopped keeps both, the counter and the time it had left. *)
(*                                                                         *)
(* The patch that slows down Timer D for TOS is a write of another value   *)
(* than the program's; the jitter for one game is left out.                *)
(***************************************************************************)
EXTENDS Integers

CONSTANTS
    Timers,         \* a subset of {"A", "B", "C", "D"}
    Registers,      \* the timers of each control register: C and D share one
    Controls,       \* values of a control register
    MFPDiv,         \* the divisors of 1 .. 7
    Counts,         \* 256, the number of values of an 8 bit counter
    CpuToInternal,  \* INT_CPU_TO_INTERNAL
    MfpToInternal,  \* INT_MFP_TO_INTERNAL
    InstrCycles,    \* cycles of an instruction
    AccessCycles,   \* cycles of it from a write to its end
    Never,          \* INT_MAX, the counter of an entry after CycInt_Reset
    MaxClock        \* bound on now: the runs stop the clock there

ASSUME MfpTimersAssumption ==
    /\ UNION Registers = Timers
    /\ 0 \in Controls /\ Controls \subseteq 0 .. 15
    /\ MFPDiv \in [1 .. 7 -> Nat \ {0}]
    /\ Counts \in Nat \ {0} /\ CpuToInternal \in Nat \ {0} /\ MfpToInternal \in Nat \ {0}
    /\ AccessCycles \in Nat
    /\ InstrCycles \subseteq Nat /\ \A n \in InstrCycles : n >= AccessCycles
    /\ Never \in Nat \ {0} /\ MaxClock \in Nat

VARIABLES
    control,    \* MFP_TACR, MFP_TBCR and the halves of MFP_TCDCR
    data,       \* MFP_TADR, MFP_TBDR, MFP_TCDR, MFP_TDDR
    main,       \* MFP_TA_MAINCOUNTER and the others'
    canResume,  \* TimerACanResume and the others'
    queue,      \* the timers whose interrupt is on the queue
    due,        \* their deadlines (0 for the others)
    left,       \* the time the others had left (0 for these)
    now,        \* the clock, in internal units
    phase,      \* "run": an instruction, "dispatch": the handlers after it
    length      \* internal units of the instruction, wait states included

registers == <<control, data, main, canResume>>
times == <<queue, due, left>>
cpu == <<now, phase, length>>
vars == <<registers, times, cpu>>

Lengths == {n * CpuToInternal : n \in InstrCycles}

Init ==
    /\ control = [t \in Timers |-> 0]
    /\ data = [t \in Timers |-> 0]
    /\ main = [t \in Timers |-> 0]
    /\ canResume = [t \in Timers |-> FALSE]
    /\ queue = {}
    /\ due = [t \in Timers |-> 0]
    /\ left = [t \in Timers |-> Never]
    /\ now = 0
    /\ phase = "run"
    /\ length \in Lengths

\* Mutant: the first control with the bit of pulse width mode is left out.
DelaysFromTen(c) == c \notin {0, 8, 9}

\* Delay mode, and pulse width mode, which is handled like it.
Delays(c) == c \notin {0, 8}
Div(c) == MFPDiv[c % 8]

\* MFP_REG_TO_CYCLES in internal units; data 0 is 256.
Period(value, c) == (IF value = 0 THEN Counts ELSE value) * Div(c) * MfpToInternal

\* CycInt_FindCyclesPassed: the MFP cycles that t has left, rounded up.
CyclesLeft(t) == (due[t] - now + MfpToInternal - 1) \div MfpToInternal

\* MFP_ReadTimer_AB and CD of a timer that runs: the counter, again rounded up.
CounterRead(t) == ((CyclesLeft(t) + Div(control[t]) - 1) \div Div(control[t])) % Counts

(***************************************************************************)
(* Accesses of the program.                                                *)
(***************************************************************************)

\* A read of a data register brings the main counter up to date; not in pulse
\* width mode, whose counter is kept as it is.
ReadData(t) ==
    /\ phase = "run"
    /\ t \in queue
    /\ control[t] < 8
    /\ main' = [main EXCEPT ![t] = CounterRead(t)]
    /\ UNCHANGED <<control, data, canResume, times, cpu>>

\* A write of a data register.  A timer that runs takes it when it expires.
WriteData(t, value) ==
    /\ phase = "run"
    /\ data' = [data EXCEPT ![t] = value]
    /\ IF control[t] = 0
       THEN /\ main' = [main EXCEPT ![t] = value]
            /\ canResume' = [canResume EXCEPT ![t] = FALSE]
       ELSE UNCHANGED <<main, canResume>>
    /\ UNCHANGED <<control, times, cpu>>

\* The counter of a timer that is stopped: what a read would show, or 0 (=256)
\* if there is less than a tick to go.
CounterStopped(t) == IF CyclesLeft(t) < Div(control[t]) THEN 0 ELSE CounterRead(t)

Changed(new) == {t \in Timers : new[t] # control[t]}

\* now is the clock at the start of the instruction that writes.
StartTime == now + length - AccessCycles * CpuToInternal

\* MFP_StartTimer_AB and CD of the timers that the write of a control register
\* changes: each takes its interrupt off the queue and, if it divides, puts it
\* back with the time it had left, or else with its counter's.
StartTimers(new, mains) ==
    LET Stopped == {t \in Changed(new) : ~Delays(new[t])}
        Resumed == {t \in Changed(new) \ Stopped : canResume[t]}
        Started == {t \in Changed(new) \ Stopped : ~canResume[t]}
    IN  /\ queue' = (queue \ Stopped) \cup Resumed \cup Started
        /\ due' = [t \in Timers |->
               IF t \in Started THEN StartTime + Period(mains[t], new[t])
               ELSE IF t \in Resumed \ queue THEN now + left[t]
               ELSE IF t \in queue' THEN due[t] ELSE 0]
        /\ left' = [t \in Timers |-> IF t \in queue' THEN 0
                                     ELSE IF t \in queue THEN due[t] - now ELSE left[t]]
        /\ canResume' = [t \in Timers |-> canResume[t] \/ t \in Started]

\* A write of a control register.  Timer A or B is read before it stops in delay
\* mode, C or D before it stops.
WriteControl(register, value) ==
    /\ phase = "run"
    /\ LET new == [t \in Timers |-> IF t \in register THEN value[t] ELSE control[t]]
           mains == [t \in Timers |->
                        IF new[t] = 0 /\ control[t] \in 1 .. 7 THEN CounterStopped(t) ELSE main[t]]
       IN  /\ new # control
           /\ control' = new
           /\ main' = mains
           /\ StartTimers(new, mains)
    /\ UNCHANGED <<data, cpu>>

\* Reset_ST: CycInt_Reset and MFP_Reset, which leaves canResume as it is.
Reset ==
    /\ phase = "run"
    /\ control' = [t \in Timers |-> 0]
    /\ data' = [t \in Timers |-> 0]
    /\ main' = [t \in Timers |-> 0]
    /\ queue' = {}
    /\ due' = [t \in Timers |-> 0]
    /\ left' = [t \in Timers |-> Never]
    /\ UNCHANGED <<canResume, cpu>>

(***************************************************************************)
(* Events and the CPU loop.                                                *)
(***************************************************************************)

\* MFP_TimerA_EventCount_Interrupt, at the end of a frame of DMA sound, and
\* MFP_TimerB_EventCount_Interrupt, at a line's; 1 raises the input.
TimerEventCount(t) ==
    /\ control[t] = 8
    /\ main' = [main EXCEPT ![t] = IF @ = 1 THEN data[t] ELSE (@ - 1) % Counts]
    /\ UNCHANGED <<control, data, canResume, times, cpu>>

EndInstruction ==
    /\ phase = "run"
    /\ now + length <= MaxClock
    /\ phase' = "dispatch"
    /\ now' = now + length
    /\ UNCHANGED <<registers, times, length>>

\* Mutant: the delay counts even if it is longer than the period.
DelayUncorrected(late, period) == late

\* Mutant: the delay is made up for twice.
DelayTwice(late, period) == 2 * late

\* "In case we miss more than one int, we must correct the delay for the next one"
Delay(late, period) == IF late > period THEN late % period ELSE late

\* MFP_InterruptHandler_TimerA and the others: the earliest interrupt of the queue
\* is overdue; it raises the input of its channel, late cycles ago, and goes back
\* with a new period, which makes up for the delay.
InterruptHandler(t) ==
    /\ phase = "dispatch"
    /\ t \in queue
    /\ due[t] <= now
    /\ \A u \in queue : due[t] <= due[u]
    /\ LET late == now - due[t]
           period == Period(data[t], control[t])
       IN  IF Delays(control[t])
           THEN /\ due' = [due EXCEPT ![t] = now + period - Delay(late, period)]
                /\ canResume' = [canResume EXCEPT ![t] = TRUE]
                /\ UNCHANGED <<queue, left>>
           ELSE /\ queue' = queue \ {t}
                /\ due' = [due EXCEPT ![t] = 0]
                /\ left' = [left EXCEPT ![t] = -late]
                /\ UNCHANGED canResume
    /\ UNCHANGED <<control, data, main, cpu>>

NextInstruction ==
    /\ phase = "dispatch"
    /\ \A t \in queue : due[t] > now
    /\ phase' = "run"
    /\ length' \in Lengths
    /\ UNCHANGED <<registers, times, now>>

Next ==
    \/ \E t \in Timers : ReadData(t)
    \/ \E t \in Timers, value \in 0 .. Counts - 1 : WriteData(t, value)
    \/ \E register \in Registers : \E value \in [register -> Controls] :
          WriteControl(register, value)
    \/ Reset
    \/ \E t \in Timers : TimerEventCount(t)
    \/ EndInstruction
    \/ \E t \in Timers : InterruptHandler(t)
    \/ NextInstruction

Spec == Init /\ [][Next]_vars

(***************************************************************************)
(* Correctness.                                                            *)
(***************************************************************************)

TypeOK ==
    /\ control \in [Timers -> Controls]
    /\ data \in [Timers -> 0 .. Counts - 1] /\ main \in [Timers -> 0 .. Counts - 1]
    /\ canResume \in [Timers -> BOOLEAN]
    /\ queue \subseteq Timers
    /\ due \in [Timers -> Nat] /\ left \in [Timers -> Int]
    /\ now \in Nat /\ length \in Nat
    /\ phase \in {"run", "dispatch"}

\* A timer has its interrupt on the queue exactly if its control register says
\* that it divides a clock, and it can then be stopped and resumed: no order of
\* writes, also of the register that two timers share, leaves an interrupt
\* behind or a running timer without.
RunsIffDelay ==
    /\ queue = {t \in Timers : control[t] \in 1 .. 7 \cup 9 .. 15}
    /\ \A t \in queue : canResume[t]

\* An interrupt comes back a whole number of periods after its deadline, however
\* late it is handled, even if it missed some: the first of them that is not
\* over, so a timer never drifts.
ExpiresInPhase ==
    [][\A t \in Timers : InterruptHandler(t) =>
          LET period == Period(data[t], control[t])
          IN  /\ due'[t] > due[t] /\ (due'[t] - due[t]) % period = 0
              /\ due'[t] \in now .. now + period]_vars

\* Whatever is overdue became so during the last instruction, however often the
\* timers were stopped, resumed and restarted: the time of an input, from which
\* the delay of the IRQ line counts, never lies before that instruction.
OverdueSinceInstruction ==
    \A t \in queue : due[t] > IF phase = "run" THEN now ELSE now - length
=============================================================================

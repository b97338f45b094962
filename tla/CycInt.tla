------------------------------- MODULE CycInt -------------------------------
(***************************************************************************)
(* The table of cycle-accurate interrupts, hatari/src/cycInt.c, and the    *)
(* loop of the CPU core that dispatches them (uae-cpu/newcpu.c).           *)
(*                                                                         *)
(* The table holds one counter per interrupt id, all relative to the last  *)
(* CycInt_UpdateInterrupt.  Only PendingInterruptCount, a copy of the      *)
(* earliest counter, is decremented while the CPU runs; every operation    *)
(* first distributes what has elapsed and then picks the earliest entry    *)
(* again.  Nothing here runs concurrently: the operations are called by    *)
(* the instruction being executed ("run") or by the interrupt handler      *)
(* being dispatched ("handler"), one after the other, in any order the     *)
(* emulated program and the devices produce.                               *)
(*                                                                         *)
(* Names: pending = PendingInterruptCount, func = PendingInterruptFunction *)
(* (as an id), active = ActiveInterrupt, used/cycles = bUsed/Cycles of     *)
(* InterruptHandlers[].  now is CyclesGlobalClockCounter in internal       *)
(* units; late is the local PendingCyclesOver of the running handler.      *)
(***************************************************************************)
EXTENDS Integers

CONSTANTS
    MaxInterrupts,  \* MAX_INTERRUPTS: ids are 0 (INTERRUPT_NULL) .. MaxInterrupts - 1
    IntMax,         \* INT_MAX, in internal units
    CpuToInternal,  \* INT_CPU_TO_INTERNAL
    MfpToInternal,  \* INT_MFP_TO_INTERNAL
    InstrCycles,    \* CPU cycles an instruction may take
    Times,          \* CycleTime arguments of the Add functions
    Adjustments,    \* CycleTime arguments of CycInt_ModifyInterrupt
    Adjustable,     \* ids passed to it: INTERRUPT_VIDEO_VBL
    Removable,      \* ids passed to CycInt_RemovePendingInterrupt: timers, blitter, MIDI
    MaxClock        \* bound on now: the runs stop the clock there

ASSUME CycIntAssumption ==
    /\ MaxInterrupts \in Nat /\ MaxInterrupts > 1
    /\ IntMax \in Nat \ {0}
    /\ CpuToInternal \in Nat \ {0}
    /\ MfpToInternal \in Nat \ {0}
    /\ InstrCycles \subseteq Nat
    /\ Times \subseteq Nat
    /\ Adjustments \subseteq Int
    /\ Adjustable \subseteq 1 .. MaxInterrupts - 1
    /\ Removable \subseteq 1 .. MaxInterrupts - 1
    /\ MaxClock \in Nat

INTERRUPT_NULL == 0
Ids == 0 .. MaxInterrupts - 1
Events == Ids \ {INTERRUPT_NULL}
CycleTypes == {"INT_CPU_CYCLE", "INT_MFP_CYCLE"}

VARIABLES used, cycles, pending, func, active, nCyclesOver,
          now,          \* CyclesGlobalClockCounter
          phase,        \* "run", "dispatch" or "handler"
          handling,     \* id of the handler being run, INTERRUPT_NULL if none
          late,         \* how late that handler was called, internal units
          lastRemoved   \* entry removed by the last operation, if it was a removal

table == <<used, cycles, pending, func, active, nCyclesOver>>
control == <<now, phase, handling, late>>
vars == <<table, control, lastRemoved>>

\* INT_CONVERT_TO_INTERNAL
ToInternal(t, type) ==
    t * (IF type = "INT_CPU_CYCLE" THEN CpuToInternal ELSE MfpToInternal)

InternalTimes == {ToInternal(t, type) : t \in Times, type \in CycleTypes}

(***************************************************************************)
(* The two internal functions every operation is made of.                  *)
(***************************************************************************)

\* Internal cycles that passed since the counters were last brought up to date.
Elapsed == cycles[active] - pending

\* CycInt_UpdateInterrupt: the counters of the entries of u, brought up to date.
Updated(u) == [i \in Ids |-> IF u[i] THEN cycles[i] - Elapsed ELSE cycles[i]]

\* i is the entry the scan of CycInt_SetNewInterrupt stops with: the lowest
\* counter below INT_MAX, the lowest id among equals, entry 0 if there is none.
IsLowest(i, u, c) ==
    LET Candidates == {j \in Events : u[j] /\ c[j] < IntMax}
    IN  \/ /\ i = INTERRUPT_NULL
           /\ Candidates = {}
        \/ /\ i \in Candidates
           /\ \A j \in Candidates : c[i] < c[j] \/ (c[i] = c[j] /\ i <= j)

SetNewInterrupt(u, c) ==
    /\ used' = u
    /\ cycles' = c
    /\ active' \in {i \in Ids : IsLowest(i, u, c)}
    /\ pending' = c[active']
    /\ func' = active'

(***************************************************************************)
(* The operations.                                                         *)
(***************************************************************************)

Init ==
    /\ used = [i \in Ids |-> FALSE]
    /\ cycles = [i \in Ids |-> IntMax]
    /\ pending = 0
    /\ func = INTERRUPT_NULL
    /\ active = INTERRUPT_NULL
    /\ nCyclesOver = 0
    /\ now = 0
    /\ phase = "run"
    /\ handling = INTERRUPT_NULL
    /\ late = 0
    /\ lastRemoved = INTERRUPT_NULL

\* CycInt_Reset, called by Reset_ST between two instructions.
\* PendingInterruptFunction keeps its value.
Reset ==
    /\ phase = "run"
    /\ used' = [i \in Ids |-> FALSE]
    /\ cycles' = [i \in Ids |-> IntMax]
    /\ pending' = 0
    /\ active' = INTERRUPT_NULL
    /\ nCyclesOver' = 0
    /\ lastRemoved' = INTERRUPT_NULL
    /\ UNCHANGED <<func, control>>

\* The part the Add functions and CycInt_ModifyInterrupt share: bring the
\* table up to date if an interrupt is active.
\* Mutant: the counters are taken as they are.
CurrentNotUpdated == cycles

Current == IF active > 0 THEN Updated(used) ELSE cycles
CurrentOver == IF active > 0 THEN pending ELSE nCyclesOver

\* CycInt_AddRelativeInterruptWithOffset with the sum of its time and offset.
AddInternal(h, c) ==
    /\ nCyclesOver' = CurrentOver
    /\ SetNewInterrupt([used EXCEPT ![h] = TRUE], [Current EXCEPT ![h] = c])
    /\ lastRemoved' = INTERRUPT_NULL
    /\ UNCHANGED control

\* A device schedules its next event from the current time.
AddRelativeInterrupt(h, t, type) ==
    /\ phase \in {"run", "handler"}
    /\ AddInternal(h, ToInternal(t, type))

\* A handler re-arms its own interrupt, making up for the delay it was called
\* with; video.c and mfp.c only pass a delay that is at most the period.
Rearm(t, type) ==
    /\ phase = "handler"
    /\ late <= ToInternal(t, type)
    /\ AddInternal(handling, ToInternal(t, type) - late)

\* CycInt_AddAbsoluteInterrupt.  Its one caller, at ikbd.c:1778, is a handler
\* that passes INTERRUPT_NULL when the emulator is quitting and stops the CPU
\* (SPCFLAG_BRK): used[INTERRUPT_NULL] stands for that flag in AddCycles.
AddAbsoluteInterrupt(t) ==
    /\ phase = "handler"
    /\ ~used[INTERRUPT_NULL]
    /\ nCyclesOver' = CurrentOver
    /\ SetNewInterrupt([used EXCEPT ![INTERRUPT_NULL] = TRUE],
                       [Current EXCEPT ![INTERRUPT_NULL] =
                           ToInternal(t, "INT_CPU_CYCLE") + nCyclesOver'])
    /\ lastRemoved' = INTERRUPT_NULL
    /\ UNCHANGED control

\* Mutant: the counter changes and the table is not scanned again.
ModifyInterruptNoScan(h, d) ==
    /\ phase \in {"run", "handler"}
    /\ Current[h] + ToInternal(d, "INT_CPU_CYCLE") \in 0 .. IntMax - 1
    /\ nCyclesOver' = CurrentOver
    /\ cycles' = [Current EXCEPT ![h] = @ + ToInternal(d, "INT_CPU_CYCLE")]
    /\ pending' = cycles'[active]
    /\ lastRemoved' = INTERRUPT_NULL
    /\ UNCHANGED <<used, func, active, control>>

\* CycInt_ModifyInterrupt.  bUsed is left as it is.  What video.c compensates
\* for adds up to less than a frame, which is less than INT_MAX.
ModifyInterrupt(h, d) ==
    /\ phase \in {"run", "handler"}
    /\ Current[h] + ToInternal(d, "INT_CPU_CYCLE") \in 0 .. IntMax - 1
    /\ nCyclesOver' = CurrentOver
    /\ SetNewInterrupt(used, [Current EXCEPT ![h] = @ + ToInternal(d, "INT_CPU_CYCLE")])
    /\ lastRemoved' = INTERRUPT_NULL
    /\ UNCHANGED control

\* CycInt_RemovePendingInterrupt: unlike the others it updates the table even
\* if no interrupt is active.  The counter of h is kept for a later resume.
RemovePendingInterrupt(h) ==
    /\ phase \in {"run", "handler"}
    /\ nCyclesOver' = pending
    /\ SetNewInterrupt([used EXCEPT ![h] = FALSE], Updated(used))
    /\ lastRemoved' = h
    /\ UNCHANGED control

\* CycInt_ResumeStoppedInterrupt: h is marked used BEFORE the table is brought
\* up to date, so its frozen counter loses what has elapsed.  mfp.c calls it
\* right after it removed the same entry, when nothing has elapsed.
ResumeStoppedInterrupt(h) ==
    /\ phase \in {"run", "handler"}
    /\ h = lastRemoved
    /\ nCyclesOver' = pending
    /\ LET u == [used EXCEPT ![h] = TRUE] IN SetNewInterrupt(u, Updated(u))
    /\ lastRemoved' = INTERRUPT_NULL
    /\ UNCHANGED control

(***************************************************************************)
(* The CPU loop.                                                           *)
(***************************************************************************)

\* Mutant: the CPU counts down although no interrupt is active.
AddCyclesAlways(n) ==
    /\ phase = "run"
    /\ ~used[INTERRUPT_NULL]
    /\ now + ToInternal(n, "INT_CPU_CYCLE") <= MaxClock
    /\ pending' = pending - ToInternal(n, "INT_CPU_CYCLE")
    /\ now' = now + ToInternal(n, "INT_CPU_CYCLE")
    /\ phase' = "dispatch"
    /\ lastRemoved' = INTERRUPT_NULL
    /\ UNCHANGED <<used, cycles, func, active, nCyclesOver, handling, late>>

\* M68000_AddCycles at the end of an instruction.  SetNewInterrupt's comment
\* states the condition under which it counts time: "there is always a VBL or
\* HBL counter pending".
AddCycles(n) ==
    /\ phase = "run"
    /\ active # INTERRUPT_NULL
    /\ ~used[INTERRUPT_NULL]
    /\ now + ToInternal(n, "INT_CPU_CYCLE") <= MaxClock
    /\ pending' = pending - ToInternal(n, "INT_CPU_CYCLE")
    /\ now' = now + ToInternal(n, "INT_CPU_CYCLE")
    /\ phase' = "dispatch"
    /\ lastRemoved' = INTERRUPT_NULL
    /\ UNCHANGED <<used, cycles, func, active, nCyclesOver, handling, late>>

\* while (PendingInterruptCount <= 0 && PendingInterruptFunction): the handler
\* notes its delay and calls CycInt_AcknowledgeInterrupt.
CallHandler ==
    /\ phase = "dispatch"
    /\ pending <= 0
    /\ func # INTERRUPT_NULL
    /\ phase' = "handler"
    /\ handling' = func
    /\ late' = -pending
    /\ nCyclesOver' = pending
    /\ SetNewInterrupt([used EXCEPT ![active] = FALSE], Updated(used))
    /\ UNCHANGED <<now, lastRemoved>>

HandlerReturns ==
    /\ phase = "handler"
    /\ phase' = "dispatch"
    /\ handling' = INTERRUPT_NULL
    /\ late' = 0
    /\ lastRemoved' = INTERRUPT_NULL
    /\ UNCHANGED <<table, now>>

\* Mutant: "if" instead of "while": one handler per instruction.
NextInstructionAnyway ==
    /\ phase = "dispatch"
    /\ phase' = "run"
    /\ UNCHANGED <<table, now, handling, late, lastRemoved>>

\* The loop ends and the next instruction starts.
NextInstruction ==
    /\ phase = "dispatch"
    /\ pending > 0 \/ func = INTERRUPT_NULL
    /\ phase' = "run"
    /\ UNCHANGED <<table, now, handling, late, lastRemoved>>

Next ==
    \/ Reset
    \/ \E h \in Events, t \in Times, type \in CycleTypes : AddRelativeInterrupt(h, t, type)
    \/ \E t \in Times, type \in CycleTypes : Rearm(t, type)
    \/ \E t \in Times : AddAbsoluteInterrupt(t)
    \/ \E h \in Adjustable, d \in Adjustments : ModifyInterrupt(h, d)
    \/ \E h \in Removable : RemovePendingInterrupt(h) \/ ResumeStoppedInterrupt(h)
    \/ \E n \in InstrCycles : AddCycles(n)
    \/ CallHandler
    \/ HandlerReturns
    \/ NextInstruction

Spec == Init /\ [][Next]_vars

(***************************************************************************)
(* Correctness.                                                            *)
(***************************************************************************)

TypeOK ==
    /\ used \in [Ids -> BOOLEAN]
    /\ cycles \in [Ids -> Int]
    /\ pending \in Int
    /\ func \in Ids
    /\ active \in Ids
    /\ nCyclesOver \in Int
    /\ now \in Nat
    /\ phase \in {"run", "dispatch", "handler"}
    /\ handling \in Ids
    /\ late \in Nat
    /\ lastRemoved \in Ids

\* The one counter the CPU decrements is the earliest of the table whenever
\* time can pass: no operation of any caller, in any order, leaves
\* ActiveInterrupt on an entry that is free or later than another.
ActiveIsEarliest ==
    /\ IsLowest(active, used, cycles)
    /\ active # INTERRUPT_NULL => func = active /\ Elapsed >= 0
    /\ active = INTERRUPT_NULL => Elapsed = 0 \/ \A i \in Events : ~used[i]

\* A handler runs exactly while the phase is "handler" and its delay is known
\* only then.  From the end of an instruction until the next one, the pending
\* function belongs to the active entry: CycInt_Reset, which leaves
\* PendingInterruptFunction behind, is never followed by a dispatch on it.
HandlerPhase ==
    /\ phase = "handler" <=> handling # INTERRUPT_NULL
    /\ phase # "handler" => late = 0
    /\ phase # "run" => func = active

\* The absolute deadline of entry i.
Due(i) == now + cycles[i] - Elapsed

\* The loop of the CPU core goes on to the next instruction only when no event
\* of the table is overdue, although it looks at one counter only.
NothingOverdueLeft ==
    [][NextInstruction => \A i \in Events : used[i] => Due(i) > now]_vars

(***************************************************************************)
(* The table implements a queue of absolute deadlines.                     *)
(***************************************************************************)

AbstractQueue == {i \in Events : used[i]}
AbstractDue == [i \in Events |-> IF used[i] THEN Due(i) ELSE 0]
AbstractLeft == [i \in Events |-> IF used[i] THEN 0 ELSE cycles[i]]
AbstractFiredDue == IF phase = "handler" THEN now - late ELSE 0

EQ == INSTANCE EventQueue WITH
        Events <- Events,
        Delays <- InternalTimes,
        Periods <- InternalTimes,
        Shifts <- {ToInternal(d, "INT_CPU_CYCLE") : d \in Adjustments},
        Never <- IntMax,
        NoEvent <- INTERRUPT_NULL,
        now <- now,
        queue <- AbstractQueue,
        due <- AbstractDue,
        left <- AbstractLeft,
        firing <- handling,
        firedDue <- AbstractFiredDue

\* Whatever the callers do, the relative counters behave as absolute deadlines:
\* events fire in deadline order and never early, a handler that re-arms its
\* event places it relative to its deadline or to the current time, a removed
\* timer resumes with the time it had left.
ImplementsEventQueue == EQ!Spec
=============================================================================

-------------------------- MODULE MfpTimersProofs --------------------------
(***************************************************************************)
(* Proofs about MfpTimers for any number of timers, any divisors, lengths  *)
(* of instructions and ratio of the two clocks.                            *)
(***************************************************************************)
EXTENDS MfpTimers, TLAPS

\* What the deadlines rest on: an instruction lasts at least to the end of its
\* write, so a timer starts in the future, and a timer was stopped before its
\* deadline, so it also resumes in the future.
ClockInv ==
    /\ length >= AccessCycles * CpuToInternal
    /\ \A t \in Timers \ queue : left[t] > 0

Inv ==
    /\ TypeOK
    /\ RunsIffDelay
    /\ OverdueSinceInstruction
    /\ ClockInv

(***************************************************************************)
(* Arithmetic.                                                             *)
(***************************************************************************)

LEMMA ProductIsPositive ==
    ASSUME NEW m \in Nat \ {0}, NEW n \in Nat \ {0}
    PROVE  m * n \in Nat \ {0}
BY SMT

LEMMA ProductIsMonotone ==
    ASSUME NEW m \in Nat, NEW n \in Nat, NEW k \in Nat, m <= n
    PROVE  m * k <= n * k /\ m * k \in Nat /\ n * k \in Nat
BY SMT

LEMMA DivisionWithRemainder ==
    ASSUME NEW p \in Nat \ {0}, NEW n \in Nat
    PROVE  /\ n \div p \in Nat /\ n % p \in 0 .. p - 1
           /\ n = p * (n \div p) + (n % p)
BY SMT

LEMMA RemainderOfMultiple ==
    ASSUME NEW p \in Nat \ {0}, NEW q \in Int
    PROVE  (p * q) % p = 0
BY SMT

\* What is left of a delay without its remainder is a multiple, and remains one
\* with another period.
LEMMA MultipleAndBack ==
    ASSUME NEW p \in Nat \ {0}, NEW n \in Nat
    PROVE  ((n - (n % p)) + p) % p = 0
<1>1. (n - (n % p)) + p = p * ((n \div p) + 1)
  BY DivisionWithRemainder
<1>2. (n \div p) + 1 \in Int
  BY DivisionWithRemainder
<1>3. (p * ((n \div p) + 1)) % p = 0
  BY <1>2, RemainderOfMultiple
<1> QED BY <1>1, <1>3, Zenon

(***************************************************************************)
(* The operators.                                                          *)
(***************************************************************************)

LEMMA DivType ==
    ASSUME NEW c \in Controls, Delays(c)
    PROVE  Div(c) \in Nat \ {0}
<1>1. c \in 0 .. 15 /\ c # 0 /\ c # 8
  BY MfpTimersAssumption DEF Delays
<1>2. c % 8 \in 1 .. 7
  BY <1>1, SMT
<1> QED BY <1>2, MfpTimersAssumption DEF Div

LEMMA PeriodType ==
    ASSUME NEW value \in 0 .. Counts - 1, NEW c \in Controls, Delays(c)
    PROVE  Period(value, c) \in Nat \ {0}
<1> DEFINE count == IF value = 0 THEN Counts ELSE value
<1>1. count \in Nat \ {0}
  BY MfpTimersAssumption
<1>2. Div(c) \in Nat \ {0}
  BY DivType
<1> HIDE DEF count
<1>3. count * Div(c) \in Nat \ {0}
  BY <1>1, <1>2, ProductIsPositive
<1>4. (count * Div(c)) * MfpToInternal \in Nat \ {0}
  BY <1>3, ProductIsPositive, MfpTimersAssumption
<1> QED BY <1>4 DEF count, Period

LEMMA LengthFacts ==
    ASSUME NEW l \in Lengths
    PROVE  l \in Nat /\ l >= AccessCycles * CpuToInternal
<1>1. PICK n \in InstrCycles : l = n * CpuToInternal
  BY DEF Lengths
<1> QED BY <1>1, ProductIsMonotone, MfpTimersAssumption

LEMMA StartTimeFacts ==
    ASSUME Inv
    PROVE  StartTime \in Nat /\ StartTime >= now
<1>1. AccessCycles * CpuToInternal \in Nat
  BY ProductIsMonotone, MfpTimersAssumption
<1> QED BY <1>1 DEF StartTime, Inv, TypeOK, ClockInv

LEMMA CounterType ==
    ASSUME TypeOK, NEW t \in Timers, Delays(control[t])
    PROVE  CounterRead(t) \in 0 .. Counts - 1 /\ CounterStopped(t) \in 0 .. Counts - 1
<1>1. Div(control[t]) \in Nat \ {0}
  BY DivType DEF TypeOK
<1>2. CyclesLeft(t) \in Int
  BY MfpTimersAssumption DEF CyclesLeft, TypeOK
<1>3. CounterRead(t) \in 0 .. Counts - 1
  BY <1>1, <1>2, MfpTimersAssumption DEF CounterRead
<1> QED BY <1>3, MfpTimersAssumption DEF CounterStopped

\* RunsIffDelay in terms of Delays.
LEMMA DelaysFacts ==
    ASSUME NEW c \in Controls
    PROVE  Delays(c) <=> c \in 1 .. 7 \cup 9 .. 15
BY MfpTimersAssumption DEF Delays

(***************************************************************************)
(* The invariant.                                                          *)
(***************************************************************************)

LEMMA InitInv == Init => Inv
<1> SUFFICES ASSUME Init PROVE Inv
  OBVIOUS
<1>1. TypeOK
  BY LengthFacts, MfpTimersAssumption DEF Init, TypeOK
<1>2. RunsIffDelay /\ OverdueSinceInstruction
  BY DEF Init, RunsIffDelay, OverdueSinceInstruction
<1>3. ClockInv
  BY LengthFacts, MfpTimersAssumption DEF Init, ClockInv
<1> QED BY <1>1, <1>2, <1>3 DEF Inv

\* The steps that only read or write a counter or a data register.
LEMMA RegisterStepInv ==
    ASSUME Inv, data' \in [Timers -> 0 .. Counts - 1], main' \in [Timers -> 0 .. Counts - 1],
           canResume' \in [Timers -> BOOLEAN],
           \A t \in queue : canResume'[t] = canResume[t],
           UNCHANGED <<control, times, cpu>>
    PROVE  Inv'
<1> USE DEF times, cpu
<1>1. TypeOK'
  BY DEF Inv, TypeOK
<1>2. RunsIffDelay'
  BY DEF Inv, RunsIffDelay
<1>3. OverdueSinceInstruction' /\ ClockInv'
  BY DEF Inv, OverdueSinceInstruction, ClockInv
<1> QED BY <1>1, <1>2, <1>3 DEF Inv

\* However many timers the write of a control register starts, resumes and stops.
LEMMA StartTimersInv ==
    ASSUME Inv, phase = "run",
           NEW new \in [Timers -> Controls], NEW mains \in [Timers -> 0 .. Counts - 1],
           control' = new, main' = mains, StartTimers(new, mains), UNCHANGED <<data, cpu>>
    PROVE  Inv'
<1> DEFINE Stopped == {t \in Changed(new) : ~Delays(new[t])}
           Started == {t \in Changed(new) \ Stopped : ~canResume[t]}
           Resumed == {t \in Changed(new) \ Stopped : canResume[t]}
<1> USE DEF cpu
<1>1. /\ queue' = (queue \ Stopped) \cup Resumed \cup Started
      /\ due' = [t \in Timers |->
               IF t \in Started THEN StartTime + Period(mains[t], new[t])
               ELSE IF t \in Resumed \ queue THEN now + left[t]
               ELSE IF t \in queue' THEN due[t] ELSE 0]
      /\ left' = [t \in Timers |-> IF t \in queue' THEN 0
                                   ELSE IF t \in queue THEN due[t] - now ELSE left[t]]
      /\ canResume' = [t \in Timers |-> canResume[t] \/ t \in Started]
  BY DEF StartTimers
<1>2. \A t \in Timers : t \in queue <=> Delays(control[t])
  BY DelaysFacts DEF Inv, RunsIffDelay, TypeOK
<1>3. queue' \subseteq Timers /\ \A t \in Timers : t \in queue' <=> Delays(new[t])
  BY <1>1, <1>2 DEF Changed, Inv, TypeOK
<1>4. \A t \in queue : due[t] \in Nat /\ due[t] > now
  BY DEF Inv, TypeOK, OverdueSinceInstruction
<1>5. \A t \in Started : Period(mains[t], new[t]) \in Nat \ {0}
  BY PeriodType DEF Changed
<1>6. \A t \in Timers : due'[t] \in Nat /\ (t \in queue' => due'[t] > now)
  <2> SUFFICES ASSUME NEW t \in Timers
               PROVE  due'[t] \in Nat /\ (t \in queue' => due'[t] > now)
    OBVIOUS
  <2>1. CASE t \in Started
    <3>1. due'[t] = StartTime + Period(mains[t], new[t])
      BY <1>1, <2>1
    <3>2. Period(mains[t], new[t]) \in Nat \ {0}
      BY <1>5, <2>1
    <3> HIDE DEF Started
    <3> QED BY <3>1, <3>2, StartTimeFacts DEF Inv, TypeOK
  <2>2. CASE t \notin Started /\ t \in Resumed \ queue
    <3>1. due'[t] = now + left[t]
      BY <1>1, <2>2
    <3>2. left[t] \in Int /\ left[t] > 0
      BY <2>2 DEF Inv, ClockInv, TypeOK
    <3> QED BY <3>1, <3>2 DEF Inv, TypeOK
  <2>3. CASE t \notin Started /\ t \notin Resumed \ queue
    <3>1. due'[t] = IF t \in queue' THEN due[t] ELSE 0
      BY <1>1, <2>3
    <3>2. t \in queue' => t \in queue
      BY <1>1, <2>3
    <3> QED BY <3>1, <3>2, <1>4
  <2> QED BY <2>1, <2>2, <2>3
<1>7. \A t \in Timers : left'[t] \in Int /\ (t \notin queue' => left'[t] > 0)
  BY <1>1, <1>4 DEF Inv, TypeOK, ClockInv
<1>8. canResume' \in [Timers -> BOOLEAN] /\ \A t \in queue' : canResume'[t]
  <2>1. \A t \in queue' : t \in queue \/ t \in Resumed \/ t \in Started
    BY <1>1
  <2>2. \A t \in queue : canResume[t]
    BY DEF Inv, RunsIffDelay
  <2> QED BY <1>1, <1>3, <2>1, <2>2 DEF Inv, TypeOK
<1>9. TypeOK'
  <2>1. due' \in [Timers -> Nat] /\ left' \in [Timers -> Int]
    BY <1>1, <1>6, <1>7
  <2> QED BY <2>1, <1>3, <1>8 DEF Inv, TypeOK
<1>10. RunsIffDelay'
  BY <1>3, <1>8, DelaysFacts DEF RunsIffDelay
<1>11. OverdueSinceInstruction'
  BY <1>3, <1>6 DEF OverdueSinceInstruction
<1>12. ClockInv'
  BY <1>7 DEF Inv, ClockInv
<1> QED BY <1>9, <1>10, <1>11, <1>12 DEF Inv

\* The two paths of a handler: it puts the interrupt back in the future or at
\* worst at this very cycle.
LEMMA HandlerInv ==
    ASSUME Inv, NEW t \in Timers, InterruptHandler(t)
    PROVE  Inv'
<1> DEFINE late == now - due[t]
           period == Period(data[t], control[t])
<1> USE DEF cpu
<1>1. /\ phase = "dispatch" /\ t \in queue /\ due[t] <= now
      /\ UNCHANGED <<control, data, main, cpu>>
  BY DEF InterruptHandler
<1>2. Delays(control[t])
  BY <1>1, DelaysFacts DEF Inv, RunsIffDelay, TypeOK
<1>3. /\ due' = [due EXCEPT ![t] = now + period - Delay(late, period)]
      /\ canResume' = [canResume EXCEPT ![t] = TRUE]
      /\ UNCHANGED <<queue, left>>
  BY <1>2 DEF InterruptHandler
<1>4. period \in Nat \ {0} /\ late \in Nat /\ late < length
  BY <1>1, <1>2, PeriodType DEF Inv, TypeOK, OverdueSinceInstruction
<1>5. Delay(late, period) \in Nat /\ Delay(late, period) <= period /\ Delay(late, period) <= late
  <2> HIDE DEF late, period
  <2> QED BY <1>4, DivisionWithRemainder DEF Delay
<1>6. now + period - Delay(late, period) \in Nat /\ now + period - Delay(late, period) > now - length
  <2> HIDE DEF late, period
  <2> QED BY <1>4, <1>5 DEF Inv, TypeOK
<1> HIDE DEF late, period
<1>7. TypeOK'
  BY <1>1, <1>3, <1>6 DEF Inv, TypeOK
<1>8. RunsIffDelay'
  BY <1>1, <1>3 DEF Inv, RunsIffDelay, TypeOK
<1>9. OverdueSinceInstruction'
  BY <1>1, <1>3, <1>6 DEF Inv, OverdueSinceInstruction, TypeOK
<1>10. ClockInv'
  BY <1>1, <1>3 DEF Inv, ClockInv
<1> QED BY <1>7, <1>8, <1>9, <1>10 DEF Inv

LEMMA NextInv == Inv /\ [Next]_vars => Inv'
<1> SUFFICES ASSUME Inv, [Next]_vars PROVE Inv'
  OBVIOUS
<1>1. ASSUME NEW t \in Timers, ReadData(t) PROVE Inv'
  <2>1. CounterRead(t) \in 0 .. Counts - 1
    BY <1>1, CounterType, DelaysFacts DEF ReadData, Inv, RunsIffDelay, TypeOK
  <2> QED BY <1>1, <2>1, RegisterStepInv DEF ReadData, Inv, TypeOK
<1>2. ASSUME NEW t \in Timers, NEW value \in 0 .. Counts - 1, WriteData(t, value) PROVE Inv'
  <2>1. control[t] = 0 => t \notin queue
    BY DEF Inv, RunsIffDelay
  <2> QED BY <1>2, <2>1, RegisterStepInv DEF WriteData, Inv, TypeOK
<1>3. ASSUME NEW register \in Registers, NEW value \in [register -> Controls],
             WriteControl(register, value)
      PROVE  Inv'
  <2> DEFINE new == [t \in Timers |-> IF t \in register THEN value[t] ELSE control[t]]
             mains == [t \in Timers |->
                          IF new[t] = 0 /\ control[t] \in 1 .. 7 THEN CounterStopped(t) ELSE main[t]]
  <2>1. new \in [Timers -> Controls]
    BY DEF Inv, TypeOK
  <2>2. mains \in [Timers -> 0 .. Counts - 1]
    <3>1. \A t \in Timers : control[t] \in 1 .. 7 => CounterStopped(t) \in 0 .. Counts - 1
      BY CounterType, DelaysFacts DEF Inv, TypeOK
    <3> QED BY <3>1 DEF Inv, TypeOK
  <2>3. /\ phase = "run" /\ control' = new /\ main' = mains /\ StartTimers(new, mains)
        /\ UNCHANGED <<data, cpu>>
    BY <1>3 DEF WriteControl
  <2> HIDE DEF new, mains
  <2> QED BY <2>1, <2>2, <2>3, StartTimersInv
<1>4. CASE Reset
  <2>1. TypeOK'
    BY <1>4, MfpTimersAssumption DEF Reset, cpu, Inv, TypeOK
  <2>2. RunsIffDelay' /\ OverdueSinceInstruction'
    BY <1>4 DEF Reset, cpu, RunsIffDelay, OverdueSinceInstruction
  <2>3. ClockInv'
    BY <1>4, MfpTimersAssumption DEF Reset, cpu, Inv, ClockInv
  <2> QED BY <2>1, <2>2, <2>3 DEF Inv
<1>5. ASSUME NEW t \in Timers, TimerEventCount(t) PROVE Inv'
  <2>1. (main[t] - 1) % Counts \in 0 .. Counts - 1
    BY MfpTimersAssumption DEF Inv, TypeOK
  <2> QED BY <1>5, <2>1, RegisterStepInv DEF TimerEventCount, Inv, TypeOK
<1>6. CASE EndInstruction
  <2>1. TypeOK' /\ ClockInv' /\ RunsIffDelay'
    BY <1>6 DEF EndInstruction, registers, times, Inv, TypeOK, ClockInv, RunsIffDelay
  <2>2. OverdueSinceInstruction'
    BY <1>6 DEF EndInstruction, registers, times, Inv, TypeOK, OverdueSinceInstruction
  <2> QED BY <2>1, <2>2 DEF Inv
<1>7. ASSUME NEW t \in Timers, InterruptHandler(t) PROVE Inv'
  BY <1>7, HandlerInv
<1>8. CASE NextInstruction
  <2>1. TypeOK' /\ ClockInv'
    BY <1>8, LengthFacts DEF NextInstruction, registers, times, Inv, TypeOK, ClockInv
  <2>2. RunsIffDelay' /\ OverdueSinceInstruction'
    BY <1>8 DEF NextInstruction, registers, times, Inv, RunsIffDelay, OverdueSinceInstruction
  <2> QED BY <2>1, <2>2 DEF Inv
<1>9. CASE UNCHANGED vars
  BY <1>9 DEF vars, registers, times, cpu, Inv, TypeOK, RunsIffDelay, OverdueSinceInstruction,
              ClockInv
<1> QED BY <1>1, <1>2, <1>3, <1>4, <1>5, <1>6, <1>7, <1>8, <1>9 DEF Next

\* For every value of the constants: the types, that the table of interrupts
\* follows the control registers, and that no input is older than the last
\* instruction (mfp.c, the writes of the registers and the timers' handlers).
THEOREM MfpTimersInvariant == Spec => [](TypeOK /\ RunsIffDelay /\ OverdueSinceInstruction)
<1>1. Inv => TypeOK /\ RunsIffDelay /\ OverdueSinceInstruction
  BY DEF Inv
<1> QED BY <1>1, InitInv, NextInv, PTL DEF Spec

\* Where a handler puts its interrupt: whole periods after its deadline, and the
\* first of them that is not over.
LEMMA HandlerInPhase ==
    ASSUME Inv, NEW t \in Timers, InterruptHandler(t)
    PROVE  LET period == Period(data[t], control[t])
           IN  /\ due'[t] > due[t] /\ (due'[t] - due[t]) % period = 0
               /\ due'[t] \in now .. now + period
<1> DEFINE late == now - due[t]
           period == Period(data[t], control[t])
<1>1. t \in queue /\ due[t] <= now
  BY DEF InterruptHandler
<1>2. Delays(control[t])
  BY <1>1, DelaysFacts DEF Inv, RunsIffDelay, TypeOK
<1>3. due'[t] = now + period - Delay(late, period)
  BY <1>2 DEF InterruptHandler, Inv, TypeOK
<1>4. period \in Nat \ {0} /\ late \in Nat
  BY <1>1, <1>2, PeriodType DEF Inv, TypeOK
<1>5. now \in Nat /\ due[t] \in Nat /\ now = due[t] + late
  BY DEF Inv, TypeOK
<1> HIDE DEF late, period
<1>6. CASE late > period
  <2>1. Delay(late, period) = late % period
    BY <1>6 DEF Delay
  <2>2. late % period \in 0 .. period - 1
    BY <1>4, DivisionWithRemainder
  <2>3. due'[t] - due[t] = (late - (late % period)) + period
    BY <1>3, <1>4, <1>5, <2>1, <2>2
  <2>4. ((late - (late % period)) + period) % period = 0
    BY <1>4, MultipleAndBack
  <2>5. (due'[t] - due[t]) % period = 0
    BY <2>3, <2>4, Zenon
  <2>6. due'[t] > due[t] /\ due'[t] \in now .. now + period
    BY <1>3, <1>4, <1>5, <1>6, <2>1, <2>2
  <2> QED BY <2>5, <2>6 DEF period
<1>7. CASE ~(late > period)
  <2>1. Delay(late, period) = late
    BY <1>7 DEF Delay
  <2>2. due'[t] - due[t] = period * 1
    BY <1>3, <1>4, <1>5, <2>1
  <2>3. (period * 1) % period = 0
    BY <1>4, RemainderOfMultiple
  <2>4. (due'[t] - due[t]) % period = 0
    BY <2>2, <2>3, Zenon
  <2>5. due'[t] > due[t] /\ due'[t] \in now .. now + period
    BY <1>3, <1>4, <1>5, <1>7, <2>1
  <2> QED BY <2>4, <2>5 DEF period
<1> QED BY <1>6, <1>7

\* A timer never drifts, for any period, length of the instructions and ratio of
\* the clocks, and however many of its interrupts were missed (mfp.c:988-995).
THEOREM MfpTimersInPhase == Spec => ExpiresInPhase
<1>1. Inv => [\A t \in Timers : InterruptHandler(t) =>
          LET period == Period(data[t], control[t])
          IN  /\ due'[t] > due[t] /\ (due'[t] - due[t]) % period = 0
              /\ due'[t] \in now .. now + period]_vars
  BY HandlerInPhase
<1> QED BY <1>1, InitInv, NextInv, PTL DEF Spec, ExpiresInPhase
=============================================================================

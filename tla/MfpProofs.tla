----------------------------- MODULE MfpProofs -----------------------------
(***************************************************************************)
(* Proofs about Mfp for any number of channels, any split of the registers *)
(* and any delays.                                                         *)
(***************************************************************************)
EXTENDS Mfp, WellFoundedInduction, TLAPS

\* The latest clock that a write of the instruction being executed can have.
EndOfStep == IF phase = "run" THEN clock + length ELSE clock

\* Times lie in the past: those of the inputs that are pending, that of the line,
\* but for writes whose instruction has not ended, and the start of the step
\* that a handler dates its inputs back to.
TimesInv ==
    /\ \A i \in ipr : pendingTime[i] <= clock
    /\ irq = 1 => irqTime <= EndOfStep
    /\ phase # "run" => length <= clock

\* Between the start of an exception and its acknowledge the line stays up.
IackInv == phase = "iack" => irq = 1

Inv ==
    /\ TypeOK
    /\ PendingIsEnabled
    /\ SignalIsARequest
    /\ TimesInv
    /\ IackInv

(***************************************************************************)
(* The line.                                                               *)
(***************************************************************************)

\* The end of a step is a time, and not before the clock.
LEMMA EndFacts ==
    ASSUME NEW c \in Nat, NEW l \in Nat, NEW p
    PROVE  LET end == IF p = "run" THEN c + l ELSE c
           IN  end \in Nat /\ c <= end
OBVIOUS

\* The types of the constants.
LEMMA ChannelsFacts == Channels \subseteq Nat /\ Never \in Nat /\ IackCycles \in Nat
BY MfpAssumption DEF Channels

\* There is a highest request: the numbers of the channels are bounded.
LEMMA MaxOfChannels ==
    ASSUME NEW S, S \subseteq Channels, S # {}
    PROVE  Max(S) \in S
<1> DEFINE R == OpToRel(<, Nat)
           T == {MFP_INT_MAX - x : x \in S}
<1>1. \A x \in S : MFP_INT_MAX - x \in Nat /\ x \in Nat
  BY MfpAssumption DEF Channels
<1>2. T \subseteq Nat /\ T # {}
  BY <1>1
<1>3. \E x \in T : \A y \in T : ~(<<y, x>> \in R)
  <2> HIDE DEF T, R
  <2>1. IsWellFoundedOn(R, Nat)
    BY NatLessThanWellFounded DEF R
  <2> QED BY <1>2, <2>1, WFMin, Zenon
<1>4. PICK x \in T : \A y \in T : ~(y < x)
  <2>1. PICK x \in T : \A y \in T : ~(<<y, x>> \in R)
    BY <1>3
  <2>2. \A y \in T : ~(y < x)
    BY <1>2, <2>1 DEF OpToRel
  <2> QED BY <2>2
<1>5. PICK m \in S : x = MFP_INT_MAX - m
  BY <1>4
<1>6. \A n \in S : m >= n
  <2> SUFFICES ASSUME NEW n \in S PROVE m >= n
    OBVIOUS
  <2>1. MFP_INT_MAX - n \in T
    OBVIOUS
  <2>2. ~(MFP_INT_MAX - n < MFP_INT_MAX - m)
    BY <1>4, <1>5, <2>1
  <2>3. m \in Nat /\ n \in Nat /\ MFP_INT_MAX \in Nat
    BY <1>1, MfpAssumption
  <2> HIDE DEF T
  <2> QED BY <2>2, <2>3
<1> QED BY <1>6 DEF Max

\* MFP_UpdateIRQ leaves the line up only for the highest request, with a time
\* that is the update's, the request's or the one it had.
LEMMA UpdatedIrqFacts ==
    ASSUME NEW st \in [irq : {0, 1}, current : Channels \cup {-1}, irqTime : Nat],
           NEW requests, requests \subseteq Channels, NEW time \in Nat,
           \A i \in requests : pendingTime[i] \in Nat
    PROVE  LET new == UpdatedIrq(st, requests, time)
           IN  /\ new \in [irq : {0, 1}, current : Channels \cup {-1}, irqTime : Nat]
               /\ new.irq = 1 => /\ new.current \in requests
                                 /\ \/ st.irq = 1 /\ new.irqTime = st.irqTime
                                    \/ time # 0 /\ new.irqTime = time
                                    \/ new.irqTime = pendingTime[new.current]
               /\ new.irq = 0 => new.current = st.current
<1>1. CASE requests = {}
  BY <1>1 DEF UpdatedIrq
<1>2. CASE requests # {}
  <2>1. Max(requests) \in requests
    BY <1>2, MaxOfChannels
  <2> QED BY <1>2, <2>1 DEF UpdatedIrq
<1> QED BY <1>1, <1>2

LEMMA RequestsFacts ==
    ASSUME NEW pending, NEW service, NEW mask, NEW oldest,
           NEW i \in Requests(pending, service, mask, oldest)
    PROVE  i \in pending /\ i \in mask /\ Unblocked(i, service)
BY DEF Requests

\* Every step that ends with an update of the line: what it needs of the
\* registers and times that it has changed before.
LEMMA UpdateInv ==
    ASSUME Inv,
           NEW st \in [irq : {0, 1}, current : Channels \cup {-1}, irqTime : Nat],
           NEW oldest, NEW time \in Nat,
           SetIrq(UpdatedIrq(st, Requests(ipr', isr', imr', oldest), time)),
           ier' \subseteq Channels, ipr' \subseteq ipr, isr' \subseteq Channels,
           imr' \subseteq Channels, sei' \in BOOLEAN, ipr' \subseteq ier',
           pendingTime' = pendingTime, clock' = clock, length' \in Nat, intMasked' \in BOOLEAN,
           phase' \in {"run", "events", "special", "autovector"},
           phase' # "run" => length' <= clock,
           st.irq = 1 => st.irqTime <= EndOfStep', time <= EndOfStep'
    PROVE  Inv'
<1> DEFINE requests == Requests(ipr', isr', imr', oldest)
           new == UpdatedIrq(st, requests, time)
<1>1. requests \subseteq ipr' /\ requests \subseteq imr' /\ \A i \in requests : Unblocked(i, isr')
  BY RequestsFacts
<1>2. ipr' \subseteq Channels /\ \A i \in Channels : pendingTime[i] \in Nat
  BY DEF Inv, TypeOK
<1>3. \A i \in ipr' : pendingTime[i] <= clock
  BY DEF Inv, TimesInv
<1>4. /\ new \in [irq : {0, 1}, current : Channels \cup {-1}, irqTime : Nat]
      /\ new.irq = 1 => /\ new.current \in requests
                        /\ \/ st.irq = 1 /\ new.irqTime = st.irqTime
                           \/ time # 0 /\ new.irqTime = time
                           \/ new.irqTime = pendingTime[new.current]
  <2> HIDE DEF requests
  <2> QED BY <1>1, <1>2, UpdatedIrqFacts
<1>5. /\ irq' = new.irq /\ irqTime' = new.irqTime /\ current' = new.current
      /\ timeMin' = Never /\ updateNeeded' = FALSE
  BY DEF SetIrq
<1>6. clock \in Nat /\ EndOfStep' \in Nat /\ clock <= EndOfStep'
  <2>1. clock \in Nat /\ clock' = clock
    BY DEF Inv, TypeOK
  <2>2. EndOfStep' = IF phase' = "run" THEN clock + length' ELSE clock
    BY DEF EndOfStep
  <2> QED BY <2>1, <2>2, EndFacts
<1> HIDE DEF requests, new
<1>7. TypeOK'
  BY <1>2, <1>4, <1>5, ChannelsFacts DEF Inv, TypeOK
<1>8. PendingIsEnabled' /\ IackInv'
  BY DEF PendingIsEnabled, IackInv
<1>9. SignalIsARequest'
  <2> SUFFICES ASSUME irq' = 1
               PROVE  current' \in ipr' \cap imr' /\ Unblocked(current', isr')
    BY DEF SignalIsARequest, Unblocked
  <2> QED BY <1>1, <1>4, <1>5
<1>10. TimesInv'
  <2>1. irq' = 1 => irqTime' <= EndOfStep'
    <3> SUFFICES ASSUME irq' = 1 PROVE irqTime' <= EndOfStep'
      OBVIOUS
    <3>1. current' \in ipr'
      BY <1>1, <1>4, <1>5
    <3>2. CASE irqTime' = pendingTime[current']
      <4>1. pendingTime[current'] <= clock /\ pendingTime[current'] \in Nat
        BY <3>1, <1>2, <1>3
      <4> QED BY <3>2, <4>1, <1>6
    <3> QED BY <3>2, <1>4, <1>5
  <2> QED BY <1>3, <2>1 DEF TimesInv
<1> QED BY <1>7, <1>8, <1>9, <1>10 DEF Inv

\* A write of a register: the time of the update lies within the instruction.
LEMMA WriteInv ==
    ASSUME Inv, phase = "run", NEW t \in WriteTimes, UpdateIRQ(t),
           ier' \subseteq Channels, ipr' \subseteq ipr, isr' \subseteq Channels,
           imr' \subseteq Channels, sei' \in BOOLEAN, ipr' \subseteq ier',
           pendingTime' = pendingTime, UNCHANGED cpu
    PROVE  Inv'
<1>1. /\ clock' = clock /\ length' = length /\ phase' = phase /\ intMasked' = intMasked
      /\ clock \in Nat /\ length \in Nat
  BY DEF cpu, Inv, TypeOK
<1>2. t \in Nat /\ t <= EndOfStep'
  BY <1>1 DEF WriteTimes, EndOfStep
<1>3. IrqRecord \in [irq : {0, 1}, current : Channels \cup {-1}, irqTime : Nat]
  BY DEF IrqRecord, Inv, TypeOK
<1>4. IrqRecord.irq = 1 => IrqRecord.irqTime <= EndOfStep'
  BY <1>1 DEF IrqRecord, Inv, TimesInv, EndOfStep
<1>5. SetIrq(UpdatedIrq(IrqRecord, Requests(ipr', isr', imr', timeMin), t))
  BY DEF UpdateIRQ
<1>6. length' \in Nat /\ intMasked' \in BOOLEAN /\ phase' = "run"
  BY <1>1 DEF Inv, TypeOK
<1> QED BY <1>1, <1>2, <1>3, <1>4, <1>5, <1>6, UpdateInv

\* An input, now or at most as long ago as the clock allows.
LEMMA InputInv ==
    ASSUME Inv, NEW i \in Channels, NEW delayed \in Nat, delayed <= clock,
           InputOnChannel(i, delayed)
    PROVE  Inv'
<1>1. /\ i \in ier => /\ ipr' = ipr \cup {i}
                      /\ pendingTime' = [pendingTime EXCEPT ![i] = clock - delayed]
                      /\ timeMin' \in {clock - delayed, timeMin}
      /\ i \notin ier => ipr' = ipr \ {i} /\ UNCHANGED <<pendingTime, timeMin>>
      /\ updateNeeded' = TRUE
      /\ UNCHANGED <<ier, isr, imr, sei, irqState, cpu>>
  BY DEF InputOnChannel
<1> USE DEF irqState, cpu
<1>2. clock \in Nat /\ clock - delayed \in Nat /\ clock - delayed <= clock
  BY DEF Inv, TypeOK
<1>3. TypeOK'
  BY <1>1, <1>2 DEF Inv, TypeOK
<1>4. PendingIsEnabled'
  BY <1>1 DEF Inv, PendingIsEnabled
<1>5. SignalIsARequest'
  BY <1>1 DEF Inv, PendingIsEnabled, SignalIsARequest, Unblocked
<1>6. TimesInv'
  <2>1. \A j \in ipr' : pendingTime'[j] <= clock
    BY <1>1, <1>2 DEF Inv, TypeOK, TimesInv
  <2> QED BY <1>1, <2>1 DEF Inv, TimesInv, EndOfStep
<1>7. IackInv'
  BY <1>1 DEF Inv, IackInv
<1> QED BY <1>3, <1>4, <1>5, <1>6, <1>7 DEF Inv

\* The acknowledge: the channel that the first update leaves current is a
\* request, whether that update found a new one or lowered the line.
LEMMA AcknowledgedFacts ==
    ASSUME Inv, phase = "iack"
    PROVE  LET before == UpdatedIrq(IrqRecord, Requests(ipr, isr, imr, timeMin), clock)
           IN  /\ before \in [irq : {0, 1}, current : Channels \cup {-1}, irqTime : Nat]
               /\ before.current \in ipr \cap imr
               /\ Unblocked(before.current, isr)
               /\ before.irq = 1 => before.irqTime <= clock
<1> DEFINE requests == Requests(ipr, isr, imr, timeMin)
           before == UpdatedIrq(IrqRecord, requests, clock)
<1>1. requests \subseteq ipr /\ requests \subseteq imr /\ \A i \in requests : Unblocked(i, isr)
  BY RequestsFacts
<1>2. /\ ipr \subseteq Channels /\ clock \in Nat
      /\ \A i \in ipr : pendingTime[i] \in Nat /\ pendingTime[i] <= clock
  BY DEF Inv, TypeOK, TimesInv
<1>3. /\ IrqRecord \in [irq : {0, 1}, current : Channels \cup {-1}, irqTime : Nat]
      /\ IrqRecord.current = current /\ IrqRecord.irqTime = irqTime
  BY DEF IrqRecord, Inv, TypeOK
<1>4. current \in ipr \cap imr /\ Unblocked(current, isr) /\ irqTime <= clock
  BY DEF Inv, IackInv, SignalIsARequest, TimesInv, EndOfStep
<1> HIDE DEF requests
<1>5. /\ before \in [irq : {0, 1}, current : Channels \cup {-1}, irqTime : Nat]
      /\ before.irq = 1 => /\ before.current \in requests
                           /\ \/ before.irqTime = irqTime
                              \/ before.irqTime = clock
                              \/ before.irqTime = pendingTime[before.current]
      /\ before.irq = 0 => before.current = current
  BY <1>1, <1>2, <1>3, UpdatedIrqFacts
<1> HIDE DEF before
<1>6. CASE before.irq = 1
  BY <1>1, <1>2, <1>4, <1>5, <1>6 DEF before, requests
<1>7. CASE before.irq = 0
  BY <1>4, <1>5, <1>7 DEF before, requests
<1>8. before.irq \in {0, 1}
  BY <1>5
<1> QED BY <1>6, <1>7, <1>8

LEMMA ProcessIACKInv ==
    ASSUME Inv, ProcessIACK
    PROVE  Inv'
<1> DEFINE before == UpdatedIrq(IrqRecord, Requests(ipr, isr, imr, timeMin), clock)
<1>1. /\ phase = "iack" /\ ipr' = ipr \ {before.current}
      /\ isr' = IF sei THEN isr \cup {before.current} ELSE isr \ {before.current}
      /\ SetIrq(UpdatedIrq(before, Requests(ipr', isr', imr', Never), clock))
      /\ UNCHANGED <<ier, imr, sei, pendingTime, clock>>
      /\ intMasked' = TRUE /\ phase' = "run" /\ length' \in InstrCycles
  BY DEF ProcessIACK
<1>2. /\ before \in [irq : {0, 1}, current : Channels \cup {-1}, irqTime : Nat]
      /\ before.current \in ipr \cap imr
      /\ before.irq = 1 => before.irqTime <= clock
  BY <1>1, AcknowledgedFacts
<1> HIDE DEF before
<1>3. ier' \subseteq Channels /\ ipr' \subseteq ipr /\ isr' \subseteq Channels
      /\ imr' \subseteq Channels /\ sei' \in BOOLEAN /\ ipr' \subseteq ier'
  BY <1>1, <1>2 DEF Inv, TypeOK, PendingIsEnabled
<1>4. clock \in Nat /\ length' \in Nat /\ phase' \in {"run", "events", "special", "autovector"}
  BY <1>1, MfpAssumption DEF Inv, TypeOK
<1>5. clock <= EndOfStep' /\ EndOfStep' \in Nat
  BY <1>1, <1>4, EndFacts DEF EndOfStep
<1>6. before.irq = 1 => before.irqTime <= EndOfStep'
  <2>1. before.irqTime \in Nat
    BY <1>2
  <2> QED BY <2>1, <1>2, <1>4, <1>5
<1>7. pendingTime' = pendingTime /\ clock' = clock /\ intMasked' \in BOOLEAN
      /\ (phase' # "run" => length' <= clock)
  BY <1>1
<1> QED BY <1>1, <1>2, <1>3, <1>4, <1>5, <1>6, <1>7, UpdateInv

LEMMA EndEventsInv ==
    ASSUME Inv, EndEvents
    PROVE  Inv'
<1>1. /\ phase \in {"events", "autovector"} /\ phase' \in {"special", "run"}
      /\ UNCHANGED <<registers, pendingTime, clock, length, intMasked>>
  BY DEF EndEvents
<1>2. /\ clock \in Nat /\ length \in Nat /\ length <= clock /\ intMasked \in BOOLEAN
      /\ EndOfStep = clock
  BY <1>1 DEF Inv, TypeOK, TimesInv, EndOfStep
<1>3. clock <= EndOfStep' /\ EndOfStep' \in Nat
  BY <1>1, <1>2, EndFacts DEF EndOfStep
<1>4. CASE updateNeeded
  <2>1. SetIrq(UpdatedIrq(IrqRecord, Requests(ipr', isr', imr', timeMin), 0))
    BY <1>4 DEF EndEvents, UpdateIRQ
  <2>2. IrqRecord \in [irq : {0, 1}, current : Channels \cup {-1}, irqTime : Nat]
    BY DEF IrqRecord, Inv, TypeOK
  <2>3. IrqRecord.irq = 1 => IrqRecord.irqTime <= EndOfStep'
    <3>1. irq = 1 => irqTime <= clock
      BY <1>2 DEF Inv, TimesInv
    <3>2. irqTime \in Nat
      BY DEF Inv, TypeOK
    <3> QED BY <3>1, <3>2, <1>2, <1>3 DEF IrqRecord
  <2>4. ier' \subseteq Channels /\ ipr' \subseteq ipr /\ isr' \subseteq Channels
        /\ imr' \subseteq Channels /\ sei' \in BOOLEAN /\ ipr' \subseteq ier'
    BY <1>1 DEF registers, Inv, TypeOK, PendingIsEnabled
  <2>5. /\ pendingTime' = pendingTime /\ clock' = clock
        /\ length' \in Nat /\ intMasked' \in BOOLEAN /\ 0 <= EndOfStep' /\ 0 \in Nat
        /\ phase' \in {"run", "events", "special", "autovector"}
        /\ (phase' # "run" => length' <= clock)
    BY <1>1, <1>2, <1>3
  <2> QED BY <2>1, <2>2, <2>3, <2>4, <2>5, UpdateInv
<1>5. CASE ~updateNeeded
  <2>1. UNCHANGED <<irqState, timeMin, updateNeeded>>
    BY <1>5 DEF EndEvents
  <2>2. TypeOK' /\ PendingIsEnabled' /\ SignalIsARequest' /\ IackInv'
    BY <1>1, <2>1 DEF registers, irqState, Inv, TypeOK, PendingIsEnabled, SignalIsARequest,
                     Unblocked, IackInv
  <2>3. TimesInv'
    <3>1. irq' = 1 => irqTime' <= EndOfStep'
      <4>1. irq = 1 => irqTime <= clock
        BY <1>2 DEF Inv, TimesInv
      <4>2. irqTime \in Nat /\ irqTime' = irqTime /\ irq' = irq
        BY <2>1 DEF irqState, Inv, TypeOK
      <4> QED BY <4>1, <4>2, <1>2, <1>3
    <3> QED BY <1>1, <1>2, <3>1 DEF registers, Inv, TimesInv
  <2> QED BY <2>2, <2>3 DEF Inv
<1> QED BY <1>4, <1>5

(***************************************************************************)
(* The invariant.                                                          *)
(***************************************************************************)

LEMMA InitInv == Init => Inv
<1> SUFFICES ASSUME Init PROVE Inv
  OBVIOUS
<1>1. TypeOK
  BY ChannelsFacts, MfpAssumption DEF Init, TypeOK
<1>2. PendingIsEnabled /\ SignalIsARequest /\ IackInv /\ TimesInv
  BY DEF Init, PendingIsEnabled, SignalIsARequest, IackInv, TimesInv
<1> QED BY <1>1, <1>2 DEF Inv

LEMMA ResetInv == ASSUME Inv, Reset PROVE Inv'
<1>1. TypeOK'
  BY ChannelsFacts DEF Reset, Inv, TypeOK
<1>2. PendingIsEnabled' /\ SignalIsARequest' /\ IackInv' /\ TimesInv'
  BY DEF Reset, PendingIsEnabled, SignalIsARequest, IackInv, TimesInv
<1> QED BY <1>1, <1>2 DEF Inv

\* The steps of the CPU that leave the registers and the line as they are.
LEMMA CpuInv ==
    ASSUME Inv, UNCHANGED <<registers, irqState, updateNeeded, timeMin, pendingTime>>,
           clock' \in Nat, length' \in Nat, intMasked' \in BOOLEAN,
           phase' \in {"run", "events", "special", "iack", "autovector"},
           clock <= clock', phase' # "run" => length' <= clock', phase' = "iack" => irq = 1,
           EndOfStep \in Nat, EndOfStep <= EndOfStep', EndOfStep' \in Nat
    PROVE  Inv'
<1> USE DEF registers, irqState
<1>1. TypeOK'
  BY DEF Inv, TypeOK
<1>2. PendingIsEnabled' /\ SignalIsARequest' /\ IackInv'
  BY DEF Inv, PendingIsEnabled, SignalIsARequest, Unblocked, IackInv
<1>3. \A i \in ipr' : pendingTime'[i] <= clock'
  <2> SUFFICES ASSUME NEW i \in ipr PROVE pendingTime[i] <= clock'
    OBVIOUS
  <2>1. pendingTime[i] \in Nat /\ clock \in Nat /\ pendingTime[i] <= clock
    BY DEF Inv, TypeOK, TimesInv
  <2> QED BY <2>1
<1>4. irq' = 1 => irqTime' <= EndOfStep'
  <2>1. irqTime \in Nat /\ (irq = 1 => irqTime <= EndOfStep)
    BY DEF Inv, TypeOK, TimesInv
  <2> QED BY <2>1
<1>5. TimesInv'
  BY <1>3, <1>4 DEF TimesInv
<1> QED BY <1>1, <1>2, <1>5 DEF Inv

\* A step of the CPU: where it is and when its step ends.
LEMMA PhaseInv ==
    ASSUME Inv, UNCHANGED <<registers, irqState, updateNeeded, timeMin, pendingTime>>,
           SetLevel \/ (\E b \in BOOLEAN : EndInstruction(b)) \/ StartException
               \/ StartVideoException \/ NextInstruction
    PROVE  Inv'
<1>1. clock \in Nat /\ length \in Nat /\ intMasked \in BOOLEAN
  BY DEF Inv, TypeOK
<1>2. EndOfStep \in Nat /\ EndOfStep = IF phase = "run" THEN clock + length ELSE clock
  BY <1>1, EndFacts DEF EndOfStep
<1>3. EndOfStep' = IF phase' = "run" THEN clock' + length' ELSE clock'
  BY DEF EndOfStep
<1>4. CASE SetLevel
  <2>1. phase = "run" /\ phase' = phase /\ clock' = clock /\ length' = length /\ intMasked' = ~intMasked
    BY <1>4 DEF SetLevel
  <2>2. EndOfStep' = EndOfStep /\ intMasked' \in BOOLEAN
    BY <1>2, <1>3, <2>1
  <2> QED BY <1>1, <1>2, <2>1, <2>2, CpuInv
<1>5. ASSUME NEW b \in BOOLEAN, EndInstruction(b) PROVE Inv'
  <2>1. /\ phase = "run" /\ phase' \in {"events", "special"}
        /\ clock' = clock + length /\ length' = length /\ intMasked' = intMasked
    BY <1>5 DEF EndInstruction
  <2>2. EndOfStep = clock + length /\ EndOfStep' = clock'
    BY <1>2, <1>3, <2>1
  <2>3. clock' \in Nat /\ clock <= clock' /\ length' <= clock'
    BY <1>1, <2>1
  <2> QED BY <1>1, <1>2, <2>1, <2>2, <2>3, CpuInv
<1>6. CASE StartException \/ StartVideoException
  <2>1. /\ phase = "special" /\ phase' \in {"iack", "autovector"}
        /\ clock' = clock + IackCycles /\ length' = IackCycles /\ intMasked' = intMasked
        /\ phase' = "iack" => irq = 1
    BY <1>6 DEF StartException, StartVideoException, ExceptionPossible
  <2>2. EndOfStep = clock /\ EndOfStep' = clock'
    BY <1>2, <1>3, <2>1
  <2>3. clock' \in Nat /\ clock <= clock' /\ length' <= clock' /\ length' \in Nat
    BY <1>1, <2>1, ChannelsFacts
  <2> QED BY <1>1, <1>2, <2>1, <2>2, <2>3, CpuInv
<1>7. CASE NextInstruction
  <2>1. /\ phase = "special" /\ phase' = "run"
        /\ clock' = clock /\ length' \in Nat /\ intMasked' = intMasked
    BY <1>7, MfpAssumption DEF NextInstruction
  <2>2. EndOfStep = clock /\ EndOfStep' = clock + length'
    BY <1>2, <1>3, <2>1
  <2>3. clock + length' \in Nat /\ clock <= clock + length'
    <3>1. \A n \in Nat : clock + n \in Nat /\ clock <= clock + n
      BY <1>1
    <3>2. length' \in Nat
      BY <2>1
    <3> QED BY <3>1, <3>2, Zenon
  <2>4. EndOfStep' \in Nat /\ EndOfStep <= EndOfStep'
    BY <2>2, <2>3, Zenon
  <2> QED BY <1>1, <1>2, <2>1, <2>4, CpuInv
<1> QED BY <1>4, <1>5, <1>6, <1>7

LEMMA NextInv == Inv /\ [Next]_vars => Inv'
<1> SUFFICES ASSUME Inv, [Next]_vars PROVE Inv'
  OBVIOUS
<1>1. CASE Reset
  BY <1>1, ResetInv
<1>2. ASSUME NEW i \in Channels, DeviceInput(i) PROVE Inv'
  BY <1>2, InputInv DEF DeviceInput, Inv, TypeOK
<1>3. ASSUME NEW i \in Channels, NEW d \in 0 .. length, TimerInput(i, d) PROVE Inv'
  <2>1. d \in Nat /\ d <= clock /\ InputOnChannel(i, d)
    BY <1>3 DEF TimerInput, Inv, TypeOK, TimesInv
  <2> QED BY <2>1, InputInv
<1>4. ASSUME NEW bank \in Banks, NEW value \in SUBSET bank,
             \/ WriteEnable(bank, value) \/ WritePending(bank, value)
             \/ WriteInService(bank, value) \/ WriteMask(bank, value)
      PROVE  Inv'
  <2>1. value \subseteq Channels
    BY MfpAssumption
  <2>2. phase = "run" /\ pendingTime' = pendingTime /\ UNCHANGED cpu /\ sei' = sei
        /\ \E t \in WriteTimes : UpdateIRQ(t)
    BY <1>4 DEF WriteEnable, WritePending, WriteInService, WriteMask
  <2>3. /\ ier' \subseteq Channels /\ ipr' \subseteq ipr /\ isr' \subseteq Channels
        /\ imr' \subseteq Channels /\ sei' \in BOOLEAN /\ ipr' \subseteq ier'
    BY <1>4, <2>1, <2>2 DEF WriteEnable, WritePending, WriteInService, WriteMask,
                          Inv, TypeOK, PendingIsEnabled
  <2> QED BY <2>2, <2>3, WriteInv
<1>5. ASSUME NEW software \in BOOLEAN, WriteVector(software) PROVE Inv'
  <2>1. /\ phase = "run" /\ sei' = software
        /\ UNCHANGED <<ier, ipr, imr, pendingTime, cpu>>
    BY <1>5 DEF WriteVector
  <2>2. CASE sei /\ ~software
    <3>1. isr' = {} /\ \E t \in WriteTimes : UpdateIRQ(t)
      BY <1>5, <2>2 DEF WriteVector
    <3>2. ier' \subseteq Channels /\ ipr' \subseteq ipr /\ isr' \subseteq Channels
          /\ imr' \subseteq Channels /\ sei' \in BOOLEAN /\ ipr' \subseteq ier'
      BY <2>1, <3>1 DEF Inv, TypeOK, PendingIsEnabled
    <3> QED BY <2>1, <3>1, <3>2, WriteInv
  <2>3. CASE ~(sei /\ ~software)
    <3>1. UNCHANGED <<isr, irqState, timeMin, updateNeeded>>
      BY <1>5, <2>3 DEF WriteVector
    <3> QED BY <2>1, <3>1 DEF irqState, cpu, Inv, TypeOK, PendingIsEnabled, SignalIsARequest,
                             Unblocked, TimesInv, IackInv, EndOfStep
  <2> QED BY <2>2, <2>3
<1>6. CASE SetLevel
  BY <1>6, PhaseInv DEF SetLevel
<1>7. ASSUME NEW due \in BOOLEAN, EndInstruction(due) PROVE Inv'
  <2>1. UNCHANGED <<registers, irqState, updateNeeded, timeMin, pendingTime>>
    BY <1>7 DEF EndInstruction
  <2> QED BY <1>7, <2>1, PhaseInv
<1>8. CASE EndEvents
  BY <1>8, EndEventsInv
<1>9. CASE StartException \/ StartVideoException \/ NextInstruction
  <2>1. UNCHANGED <<registers, irqState, updateNeeded, timeMin, pendingTime>>
    BY <1>9 DEF StartException, StartVideoException, NextInstruction
  <2> QED BY <1>9, <2>1, PhaseInv
<1>10. CASE ProcessIACK
  BY <1>10, ProcessIACKInv
<1>11. CASE UNCHANGED vars
  BY <1>11 DEF vars, registers, irqState, cpu, Inv, TypeOK, PendingIsEnabled, SignalIsARequest,
               Unblocked, TimesInv, IackInv, EndOfStep
<1> QED BY <1>1, <1>2, <1>3, <1>4, <1>5, <1>6, <1>7, <1>8, <1>9, <1>10, <1>11 DEF Next

\* For any number of channels and any split of the registers: the types, no
\* disabled channel is pending, and the line stands for a request that is there
\* (MFP_InputOnChannel, MFP_UpdateIRQ, the register writes and the acknowledge).
THEOREM MfpInvariant == Spec => [](TypeOK /\ PendingIsEnabled /\ SignalIsARequest)
<1>1. Inv => TypeOK /\ PendingIsEnabled /\ SignalIsARequest
  BY DEF Inv
<1> QED BY <1>1, InitInv, NextInv, PTL DEF Spec

\* The unsigned difference of MFP_ProcessIRQ never wraps.
THEOREM MfpIrqTimeIsPast == Spec => []IrqTimeIsPast
<1>1. Inv => IrqTimeIsPast
  BY DEF Inv, TimesInv, EndOfStep, IrqTimeIsPast
<1> QED BY <1>1, InitInv, NextInv, PTL DEF Spec

\* Service nests by priority, whatever inputs arrive before the acknowledge
\* (MFP_ProcessIACK).
THEOREM MfpNestingIncreases == Spec => NestingIncreases
<1>1. Inv => [ProcessIACK /\ sei =>
                 \E c \in ipr \cap imr : isr' = isr \cup {c} /\ Unblocked(c, isr)]_vars
  <2> SUFFICES ASSUME Inv, ProcessIACK, sei
               PROVE  \E c \in ipr \cap imr : isr' = isr \cup {c} /\ Unblocked(c, isr)
    OBVIOUS
  <2> DEFINE c == UpdatedIrq(IrqRecord, Requests(ipr, isr, imr, timeMin), clock).current
  <2>1. phase = "iack" /\ isr' = isr \cup {c}
    BY DEF ProcessIACK
  <2>2. c \in ipr \cap imr /\ Unblocked(c, isr)
    BY <2>1, AcknowledgedFacts
  <2> QED BY <2>1, <2>2
<1> QED BY <1>1, InitInv, NextInv, PTL DEF Spec, NestingIncreases
=============================================================================

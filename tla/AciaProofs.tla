----------------------------- MODULE AciaProofs -----------------------------
(***************************************************************************)
(* Theorems about Acia and AciaLine, for characters of every size and all  *)
(* sets of bytes and of values of CR.                                      *)
(***************************************************************************)
EXTENDS AciaLine, SequenceTheorems, TLAPS

(* The values of CR are records of their fields.                           *)
LEMMA ControlTypes ==
    ASSUME FlagsOK
    PROVE  /\ cr \in ControlBytes
           /\ cr.word \in Words /\ cr.word.bits \in 1 .. SciBits /\ cr.word.stops \in 1 .. 2
<1>1. NoControl \in ControlBytes
    BY AciaAssumption DEF NoControl, ControlBytes, Words
<1>2. cr \in ControlBytes
    BY <1>1, AciaAssumption DEF FlagsOK
<1>3. cr.word \in Words
    BY <1>2 DEF ControlBytes
<1>4. cr.word.bits \in 1 .. SciBits /\ cr.word.stops \in 1 .. 2
    BY <1>3, AciaAssumption DEF Words
<1> QED BY <1>2, <1>3, <1>4

LEMMA FunctionsAreSeqs ==
    ASSUME NEW n \in Nat, NEW s \in [1 .. n -> Bits]
    PROVE  s \in Seq(Bits) /\ Len(s) = n
OBVIOUS

(* A byte is a sequence of SciBits bits.                                   *)
LEMMA BytesAreSeqs ==
    ASSUME NEW b \in Bytes
    PROVE  b \in Seq(Bits) /\ Len(b) = SciBits
BY AciaAssumption DEF Bytes

LEMMA SeqsAreBytes ==
    ASSUME NEW s \in Seq(Bits), Len(s) = SciBits
    PROVE  s \in Bytes
BY LenProperties DEF Bytes

(* RSR is padded to a byte.                                                *)
LEMMA RsrIsAByte ==
    ASSUME RxOK
    PROVE  Rsr \in Bytes
<1> DEFINE pad == [i \in 1 .. SciBits - Len(rx.reg) |-> 0]
<1>1. rx.reg \in Seq(Bits) /\ Len(rx.reg) \in Nat /\ rx.left \in Nat
    BY LenProperties DEF RxOK, Shifts
<1>2. SciBits - Len(rx.reg) \in Nat
    BY <1>1, AciaAssumption DEF RxOK
<1>3. pad \in [1 .. SciBits - Len(rx.reg) -> Bits]
    BY DEF Bits
<1> HIDE DEF pad
<1>4. pad \o rx.reg \in Seq(Bits) /\ Len(pad \o rx.reg) = SciBits
    <2>1. pad \in Seq(Bits) /\ Len(pad) = SciBits - Len(rx.reg)
        BY <1>2, <1>3, FunctionsAreSeqs
    <2>2. /\ pad \o rx.reg \in Seq(Bits)
          /\ Len(pad \o rx.reg) = Len(pad) + Len(rx.reg)
        BY <1>1, <2>1, ConcatProperties
    <2> QED BY <1>1, <2>1, <2>2, AciaAssumption
<1> QED BY <1>4, SeqsAreBytes DEF Rsr, pad

LEMMA IdleTypes ==
    /\ Idle \in Shifts /\ Idle.state = "idle" /\ Len(Idle.reg) = 0 /\ Idle.left = 0
    /\ SciIdle \in SciShifts /\ SciIdle.state = "idle" /\ Len(SciIdle.reg) = 0
<1>1. <<>> \in Seq(Bits) /\ Len(<<>>) = 0
    BY EmptySeq
<1> QED BY <1>1, AciaAssumption DEF Idle, SciIdle, Shifts, SciShifts, States, Bits

(* Init establishes the types.                                             *)
LEMMA InitTypes == Init => TypeOK
<1> SUFFICES ASSUME Init PROVE TypeOK
    OBVIOUS
<1>1. FlagsOK
    BY DEF Init, FlagsOK
<1>2. BytesOK
    BY DEF Init, BytesOK, Bytes, Zero, Bits
<1>3. TxOK
    BY AciaAssumption DEF Init, TxOK, Shifts, States, Idle, Bits
<1>4. RxOK
    BY AciaAssumption DEF Init, RxOK, Shifts, States, Idle, Bits
<1>5. SciOK
    BY AciaAssumption DEF Init, SciOK, SciShifts, States, SciIdle
<1> QED BY <1>1, <1>2, <1>3, <1>4, <1>5 DEF TypeOK

(* The interrupt bit and the line are what UpdateIRQ makes of them.        *)
LEMMA UpdateTypes ==
    ASSUME FlagsOK, NEW control, NEW status, NEW overran,
           status \subseteq {"rdrf", "tdre", "fe", "ovrn", "pe", "irq"},
           UpdateIRQ(control, status, overran)
    PROVE  sr' \subseteq {"rdrf", "tdre", "fe", "ovrn", "pe", "irq"} /\ low' \in BOOLEAN
<1>1. (Causes(control, status, overran) = ("irq" \in status)) \in BOOLEAN
    OBVIOUS
<1>2. Causes(control, status, overran) \in BOOLEAN
    BY DEF Causes
<1> QED BY <1>2 DEF UpdateIRQ, FlagsOK

LEMMA TransmitTypes ==
    ASSUME FlagsOK, BytesOK, TxOK, NEW b \in Bits, Transmit(b)
    PROVE  TxOK'
<1> USE AciaAssumption
<1>0. tx \in Shifts /\ tx.reg \in Seq(Bits) /\ tx.left \in 0 .. SciBits /\ tx.stops \in 0 .. 2
        /\ tx.parity \in Bits /\ tx.state \in States
    BY DEF TxOK, Shifts
<1>1. CASE tx.state = "idle" /\ UNCHANGED tx
    BY <1>1 DEF TxOK
<1>2. CASE Loads /\ tx' = [state |-> "data", reg |-> tdr, left |-> cr.word.bits, parity |-> 0,
                           stops |-> cr.word.stops]
    <2>1. tdr \in Seq(Bits) /\ Len(tdr) = SciBits
        BY BytesAreSeqs DEF BytesOK
    <2>2. cr.word.bits \in 1 .. SciBits /\ cr.word.stops \in 1 .. 2
        BY ControlTypes
    <2> QED BY <1>2, <2>1, <2>2 DEF TxOK, Shifts, States, Bits
<1>3. CASE /\ tx.state = "data"
           /\ tx' = [tx EXCEPT !.reg = Tail(@), !.parity = (@ + b) % 2, !.left = @ - 1,
                               !.state = IF tx.left > 1 THEN "data" ELSE AfterData]
    <2>1. tx.left > 0 /\ tx.left <= Len(tx.reg) /\ tx.reg # <<>> /\ tx.stops > 0
        BY <1>0, <1>3 DEF TxOK
    <2>2. Tail(tx.reg) \in Seq(Bits) /\ Len(Tail(tx.reg)) = Len(tx.reg) - 1
        BY <1>0, <2>1, HeadTailProperties
    <2>3. (tx.parity + b) % 2 \in Bits
        BY <1>0 DEF Bits
    <2>4. AfterData \in States /\ AfterData # "data"
        BY DEF AfterData, States
    <2>5. tx.left - 1 \in 0 .. SciBits
        BY <1>0, <2>1
    <2>6. tx' \in Shifts /\ tx'.reg = Tail(tx.reg) /\ tx'.left = tx.left - 1
          /\ tx'.state = (IF tx.left > 1 THEN "data" ELSE AfterData) /\ tx'.stops = tx.stops
        BY <1>0, <1>3, <2>2, <2>3, <2>4, <2>5 DEF Shifts, States
    <2>7. tx'.state = "data" => tx'.left > 0 /\ tx'.left <= Len(tx'.reg)
        BY <1>0, <2>1, <2>2, <2>4, <2>6, LenProperties
    <2> QED BY <1>0, <2>1, <2>6, <2>7 DEF TxOK
<1>4. CASE tx.state = "parity" /\ tx' = [tx EXCEPT !.state = "stop"]
    BY <1>0, <1>4 DEF TxOK, Shifts, States
<1>5. CASE /\ tx.state = "stop"
           /\ tx' = IF tx.stops = 1 THEN Idle ELSE [tx EXCEPT !.stops = @ - 1]
    <2>1. CASE tx.stops = 1
        BY <1>5, <2>1 DEF TxOK, Shifts, States, Idle, Bits
    <2>2. CASE tx.stops # 1
        BY <1>0, <1>5, <2>2 DEF TxOK, Shifts, States
    <2> QED BY <2>1, <2>2
<1> QED BY <1>1, <1>2, <1>3, <1>4, <1>5 DEF Transmit

LEMMA ReceiveTypes ==
    ASSUME FlagsOK, RxOK, NEW b \in Bits, Receive(b)
    PROVE  RxOK'
<1> USE AciaAssumption
<1>0. rx \in Shifts /\ rx.reg \in Seq(Bits) /\ rx.left \in 0 .. SciBits /\ rx.stops \in 0 .. 2
        /\ rx.parity \in Bits /\ rx.state \in States /\ Len(rx.reg) \in Nat
    BY LenProperties DEF RxOK, Shifts
<1>1. CASE rx.state = "idle" /\ rx' = rx
    BY <1>1 DEF RxOK
<1>2. CASE rx' = [state |-> "data", reg |-> <<>>, left |-> cr.word.bits, parity |-> 0,
                  stops |-> cr.word.stops]
    <2>1. cr.word.bits \in 1 .. SciBits /\ cr.word.stops \in 1 .. 2
        BY ControlTypes
    <2>2. <<>> \in Seq(Bits) /\ Len(<<>>) = 0
        OBVIOUS
    <2> QED BY <1>2, <2>1, <2>2 DEF RxOK, Shifts, States, Bits
<1>3. CASE /\ rx.state = "data"
           /\ rx' = [rx EXCEPT !.reg = Append(@, b), !.parity = (@ + b) % 2, !.left = @ - 1,
                               !.state = IF rx.left > 1 THEN "data" ELSE AfterData]
    <2>1. rx.left > 0 /\ Len(rx.reg) + rx.left <= SciBits /\ rx.stops > 0
        BY <1>0, <1>3 DEF RxOK
    <2>2. Append(rx.reg, b) \in Seq(Bits) /\ Len(Append(rx.reg, b)) = Len(rx.reg) + 1
        BY <1>0
    <2>3. (rx.parity + b) % 2 \in Bits
        BY <1>0 DEF Bits
    <2>4. AfterData \in States /\ AfterData # "data"
        BY DEF AfterData, States
    <2>5. rx.left - 1 \in 0 .. SciBits
        BY <1>0, <2>1
    <2>6. rx' \in Shifts /\ rx'.reg = Append(rx.reg, b) /\ rx'.left = rx.left - 1
          /\ rx'.state = (IF rx.left > 1 THEN "data" ELSE AfterData) /\ rx'.stops = rx.stops
        BY <1>0, <1>3, <2>2, <2>3, <2>4, <2>5 DEF Shifts, States
    <2>7. (rx'.state = "data" => rx'.left > 0) /\ Len(rx'.reg) + rx'.left <= SciBits
        BY <1>0, <2>1, <2>2, <2>4, <2>6
    <2> QED BY <1>0, <2>1, <2>6, <2>7 DEF RxOK
<1>4. CASE rx.state = "parity" /\ rx' = [rx EXCEPT !.state = "stop"]
    BY <1>0, <1>4 DEF RxOK, Shifts, States
<1>5. CASE rx.state = "stop" /\ rx' = Idle
    BY <1>5 DEF RxOK, Shifts, States, Idle, Bits
<1>6. CASE rx.state = "stop" /\ rx.stops # 1 /\ rx' = [rx EXCEPT !.stops = @ - 1]
    BY <1>0, <1>6 DEF RxOK, Shifts, States
<1> QED BY <1>1, <1>2, <1>3, <1>4, <1>5, <1>6 DEF Receive

LEMMA QueueTypes ==
    ASSUME SciOK, NEW k \in KeyBytes
    PROVE  Queued(k) \in Seq(KeyBytes) /\ Len(Queued(k)) <= MaxOut
<1>1. out \in Seq(KeyBytes) /\ Len(out) <= MaxOut /\ Len(out) \in Nat /\ MaxOut \in Nat
    BY AciaAssumption DEF SciOK
<1> QED BY <1>1 DEF Queued

LEMMA SciTypes ==
    ASSUME BytesOK, SciOK, NEW b \in Bits, NEW c \in Bits, SciReceive(b),
           NEW q \in Answers(b), SciTransmit(c, q)
    PROVE  SciOK' /\ stdr' \in Bytes
<1> USE AciaAssumption
<1>0. /\ stx \in SciShifts /\ stx.reg \in Seq(Bits) /\ stx.state \in States \ {"parity"}
      /\ srx \in SciShifts /\ srx.reg \in Seq(Bits) /\ srx.state \in States \ {"parity"}
      /\ Len(srx.reg) \in Nat /\ out \in Seq(KeyBytes) /\ Len(out) <= MaxOut
      /\ stdr \in Bytes
    BY LenProperties DEF SciOK, SciShifts, BytesOK
<1>1. q \in Seq(KeyBytes) /\ Len(q) <= MaxOut
    <2>1. <<>> \in Seq(KeyBytes) /\ Len(<<>>) <= MaxOut
        BY EmptySeq
    <2>2. q = out \/ q = <<>> \/ \E k \in KeyBytes : q = Queued(k)
        BY DEF Answers
    <2> QED BY <1>0, <2>1, <2>2, QueueTypes
<1>2. /\ srx' \in SciShifts /\ Len(srx'.reg) <= SciBits
      /\ srx'.state = "data" => Len(srx'.reg) < SciBits
    <2>1. CASE srx' = srx
        BY <2>1 DEF SciOK
    <2>2. CASE srx' = SciIdle
        BY <2>2, IdleTypes
    <2>4. CASE srx' = [state |-> "data", reg |-> <<>>]
        <3>1. <<>> \in Seq(Bits) /\ Len(<<>>) = 0
            BY EmptySeq
        <3>2. srx'.reg = <<>>
            BY <2>4
        <3> QED BY <2>4, <3>1, <3>2 DEF SciShifts, States
    <2>3. CASE /\ srx.state = "data"
               /\ srx' = [reg |-> Append(srx.reg, b),
                          state |-> IF Len(srx.reg) + 1 < SciBits THEN "data" ELSE "stop"]
        <3>1. Append(srx.reg, b) \in Seq(Bits) /\ Len(Append(srx.reg, b)) = Len(srx.reg) + 1
            BY <1>0
        <3>2. Len(srx.reg) < SciBits
            BY <2>3 DEF SciOK
        <3> QED BY <1>0, <2>3, <3>1, <3>2 DEF SciShifts, States
    <2> QED BY <2>1, <2>2, <2>3, <2>4 DEF SciReceive
<1>3. /\ stx' \in SciShifts /\ (stx'.state = "data" => Len(stx'.reg) > 0)
      /\ stdr' \in Bytes /\ out' \in Seq(KeyBytes) /\ Len(out') <= MaxOut
    <2>1. CASE stx' = stx /\ stdr' = stdr /\ out' = q
        BY <1>0, <1>1, <2>1 DEF SciOK
    <2>2. CASE /\ q # <<>> /\ out' = Tail(q) /\ stdr' = Head(q)
               /\ stx' = [state |-> "data", reg |-> Head(q)]
        <3>1. Head(q) \in KeyBytes /\ Tail(q) \in Seq(KeyBytes) /\ Len(Tail(q)) = Len(q) - 1
            BY <1>1, <2>2, HeadTailProperties
        <3>2. Head(q) \in Bytes
            <4>1. KeyBytes \subseteq Bytes
                OBVIOUS
            <4> HIDE AciaAssumption
            <4> QED BY <3>1, <4>1
        <3>3. Head(q) \in Seq(Bits) /\ Len(Head(q)) = SciBits
            BY <3>2, BytesAreSeqs
        <3> QED BY <1>1, <2>2, <3>1, <3>2, <3>3, LenProperties DEF SciShifts, States
    <2>3. CASE /\ stx.state = "data" /\ out' = q /\ stdr' = stdr
               /\ stx' = [reg |-> Tail(stx.reg),
                          state |-> IF Len(stx.reg) > 1 THEN "data" ELSE "stop"]
        <3>1. stx.reg # <<>>
            BY <1>0, <2>3, EmptySeq DEF SciOK
        <3>2. Tail(stx.reg) \in Seq(Bits) /\ Len(Tail(stx.reg)) = Len(stx.reg) - 1
            BY <1>0, <3>1, HeadTailProperties
        <3>3. Len(stx.reg) > 1 => Len(Tail(stx.reg)) > 0
            BY <1>0, <3>2, LenProperties
        <3> QED BY <1>0, <1>1, <2>3, <3>2, <3>3 DEF SciShifts, States
    <2>4. CASE out' = q /\ stx' = SciIdle /\ stdr' = stdr
        BY <1>0, <1>1, <2>4 DEF SciShifts, States, SciIdle
    <2> QED BY <2>1, <2>2, <2>3, <2>4 DEF SciTransmit
<1> QED BY <1>2, <1>3 DEF SciOK

(* Every action keeps the types.                                           *)
LEMMA StepTypes == TypeOK /\ [Next]_vars => TypeOK'
<1> SUFFICES ASSUME TypeOK, [Next]_vars PROVE TypeOK'
    OBVIOUS
<1> USE DEF TypeOK
<1>1. CASE Tick
    <2>1. PICK b \in Bits, c \in Bits :
             /\ Transmit(b) /\ SciReceive(b) /\ Receive(c)
             /\ \E q \in Answers(b) : SciTransmit(c, q)
             /\ UpdateIRQ(cr, Received(IF Loads THEN sr \cup {"tdre"} ELSE sr, c), overrun')
        BY <1>1 DEF Tick
    <2>2. UNCHANGED <<cr, srRead, tdr, told, clock>>
        BY <1>1 DEF Tick
    <2>3. TxOK' /\ RxOK'
        BY <2>1, TransmitTypes, ReceiveTypes
    <2>4. SciOK' /\ stdr' \in Bytes
        BY <2>1, SciTypes
    <2>5. rdr' \in Bytes /\ overrun' \in BOOLEAN
        BY <2>1, RsrIsAByte DEF Receive, BytesOK, FlagsOK
    <2>6. Received(IF Loads THEN sr \cup {"tdre"} ELSE sr, c)
             \subseteq {"rdrf", "tdre", "fe", "ovrn", "pe", "irq"}
        BY DEF Received, FlagsOK
    <2>7. FlagsOK'
        BY <2>1, <2>2, <2>5, <2>6, UpdateTypes DEF FlagsOK
    <2> QED BY <2>2, <2>3, <2>4, <2>5, <2>7 DEF BytesOK
<1>2. CASE \E k \in KeyBytes : Send(k)
    <2>1. PICK k \in KeyBytes : Send(k)
        BY <1>2
    <2>2. out' \in Seq(KeyBytes) /\ Len(out') <= MaxOut
        BY <2>1, QueueTypes DEF Send
    <2> QED BY <2>1, <2>2 DEF Send, FlagsOK, BytesOK, TxOK, RxOK, SciOK
<1>3. CASE Processor
    <2>1. CASE \E c \in Controls : WriteCR(c)
        <3>1. PICK c \in Controls : WriteCR(c)
            BY <2>1
        <3>2. BytesOK' /\ SciOK'
            BY <3>1 DEF WriteCR, BytesOK, SciOK
        <3>3. CASE c.divide = "reset"
            <4>1. TxOK' /\ RxOK'
                <5>1. tx' = Idle /\ rx' = Idle
                    BY <3>1, <3>3 DEF WriteCR
                <5> QED BY <5>1, IdleTypes, AciaAssumption DEF TxOK, RxOK
            <4>2. FlagsOK'
                BY <3>1, <3>3 DEF WriteCR, FlagsOK, Causes
            <4> QED BY <3>2, <4>1, <4>2
        <3>4. CASE c.divide # "reset"
            <4>1. TxOK' /\ RxOK'
                BY <3>1, <3>4 DEF WriteCR, TxOK, RxOK
            <4>2. UpdateIRQ(c, sr, overrun)
                BY <3>1, <3>4 DEF WriteCR
            <4>3. sr' \subseteq {"rdrf", "tdre", "fe", "ovrn", "pe", "irq"} /\ low' \in BOOLEAN
                BY <4>2, UpdateTypes DEF FlagsOK
            <4>4. FlagsOK'
                BY <3>1, <3>4, <4>3 DEF WriteCR, FlagsOK
            <4> QED BY <3>2, <4>1, <4>4
        <3> QED BY <3>3, <3>4
    <2>2. CASE \E b \in CpuBytes : WriteTDR(b)
        <3>1. PICK b \in CpuBytes : WriteTDR(b)
            BY <2>2
        <3>2. sr' \subseteq {"rdrf", "tdre", "fe", "ovrn", "pe", "irq"} /\ low' \in BOOLEAN
            BY <3>1, UpdateTypes DEF WriteTDR, FlagsOK
        <3> QED BY <3>1, <3>2, AciaAssumption
                DEF WriteTDR, lines, FlagsOK, BytesOK, TxOK, RxOK, SciOK
    <2>3. CASE ReadSR
        BY <2>3 DEF ReadSR, lines, FlagsOK, BytesOK, TxOK, RxOK, SciOK
    <2>4. CASE ReadRDR
        <3>1. sr' \subseteq {"rdrf", "tdre", "fe", "ovrn", "pe", "irq"} /\ low' \in BOOLEAN
            BY <2>4, UpdateTypes DEF ReadRDR, FlagsOK
        <3> QED BY <2>4, <3>1 DEF ReadRDR, lines, FlagsOK, BytesOK, TxOK, RxOK, SciOK
    <2> QED BY <1>3, <2>1, <2>2, <2>3, <2>4 DEF Processor
<1>4. CASE Reset
    BY <1>4, AciaAssumption
    DEF Reset, SciIdle, SciShifts, States, FlagsOK, BytesOK, TxOK, RxOK, SciOK
<1>5. CASE UNCHANGED vars
    BY <1>5 DEF vars, lines, FlagsOK, BytesOK, TxOK, RxOK, SciOK
<1> QED BY <1>1, <1>2, <1>3, <1>4, <1>5 DEF Next

(* Types: the variables keep their types, whatever the processor writes to *)
(* CR in the middle of a character.                                        *)
THEOREM Types == Spec => []TypeOK
BY InitTypes, StepTypes, PTL DEF Spec
-----------------------------------------------------------------------------
(* UpdateIRQ leaves the bit with its causes, and touches the line only     *)
(* when the bit changes.                                                   *)
LEMMA UpdateSetsTheBit ==
    ASSUME NEW control, NEW status, NEW overran, UpdateIRQ(control, status, overran)
    PROVE  /\ "irq" \in sr' <=> Causes(control, sr', overran)
           /\ sr' \ {"irq"} = status \ {"irq"}
<1>0. ("rdrf" \in sr' <=> "rdrf" \in status) /\ ("tdre" \in sr' <=> "tdre" \in status)
    BY DEF UpdateIRQ
<1>1. Causes(control, sr', overran) = Causes(control, status, overran)
    BY <1>0 DEF Causes
<1>2. Causes(control, status, overran) \in BOOLEAN
    BY DEF Causes
<1>3. "irq" \in sr' <=> Causes(control, status, overran)
    BY <1>2 DEF UpdateIRQ
<1>4. sr' \ {"irq"} = status \ {"irq"}
    BY DEF UpdateIRQ
<1> QED BY <1>1, <1>3, <1>4

(* The interrupt bit always tells whether one of its causes is there.      *)
THEOREM IrqIsCaused == Spec => []IrqFollowsCauses
<1>1. Init => IrqFollowsCauses
    BY DEF Init, IrqFollowsCauses, Causes, NoControl
<1>2. IrqFollowsCauses /\ [Next]_vars => IrqFollowsCauses'
    <2> SUFFICES ASSUME IrqFollowsCauses, [Next]_vars PROVE IrqFollowsCauses'
        OBVIOUS
    <2>1. CASE Tick
        <3>1. PICK status : UpdateIRQ(cr, status, overrun') /\ cr' = cr
            BY <2>1 DEF Tick
        <3> QED BY <3>1, UpdateSetsTheBit DEF IrqFollowsCauses
    <2>2. CASE \E k \in KeyBytes : Send(k)
        BY <2>2 DEF Send, IrqFollowsCauses
    <2>3. CASE \E c \in Controls : WriteCR(c)
        <3>1. PICK c \in Controls : WriteCR(c)
            BY <2>3
        <3>2. CASE c.divide = "reset"
            <4>1. /\ cr' = c /\ overrun' = FALSE
                  /\ sr' = {"tdre"} \cup (IF Causes(c, {"tdre"}, FALSE) THEN {"irq"} ELSE {})
                BY <3>1, <3>2 DEF WriteCR
            <4> QED BY <4>1 DEF IrqFollowsCauses, Causes
        <3>3. CASE c.divide # "reset"
            BY <3>1, <3>3, UpdateSetsTheBit DEF WriteCR, IrqFollowsCauses
        <3> QED BY <3>2, <3>3
    <2>4. CASE \E b \in CpuBytes : WriteTDR(b)
        BY <2>4, UpdateSetsTheBit DEF WriteTDR, IrqFollowsCauses
    <2>5. CASE ReadSR
        BY <2>5 DEF ReadSR, IrqFollowsCauses, Causes
    <2>6. CASE ReadRDR
        BY <2>6, UpdateSetsTheBit DEF ReadRDR, IrqFollowsCauses
    <2>7. CASE Reset
        BY <2>7 DEF Reset, IrqFollowsCauses, Causes
    <2>8. CASE UNCHANGED vars
        BY <2>8 DEF vars, lines, IrqFollowsCauses, Causes
    <2> QED BY <2>1, <2>2, <2>3, <2>4, <2>5, <2>6, <2>7, <2>8 DEF Next, Processor
<1> QED BY <1>1, <1>2, PTL DEF Spec

(* A flag of an overrun is new since the last read of SR, or was seen.     *)
ToldIfRead == "ovrn" \in sr /\ srRead => told

(* An overrun is forgotten only by a master reset.                         *)
THEOREM OverrunsAreTold == Spec => OverrunIsTold
<1>1. Init => ToldIfRead
    BY DEF Init, ToldIfRead
<1>2. ToldIfRead /\ [Next]_vars =>
        /\ ToldIfRead'
        /\ overrun /\ ~overrun' => "ovrn" \in sr' \/ cr'.divide = "reset"
        /\ "ovrn" \in sr /\ "ovrn" \notin sr' => told \/ cr'.divide = "reset"
    <2> SUFFICES ASSUME ToldIfRead, [Next]_vars
                 PROVE  /\ ToldIfRead'
                        /\ overrun /\ ~overrun' => "ovrn" \in sr' \/ cr'.divide = "reset"
                        /\ "ovrn" \in sr /\ "ovrn" \notin sr' => told \/ cr'.divide = "reset"
        OBVIOUS
    <2>1. CASE Tick
        <3>1. PICK b, c \in Bits :
                 /\ Receive(c)
                 /\ UpdateIRQ(cr, Received(IF Loads THEN sr \cup {"tdre"} ELSE sr, c), overrun')
            BY <2>1 DEF Tick
        <3>2. ("ovrn" \in sr') = ("ovrn" \in sr)
            <4>1. "ovrn" \in Received(IF Loads THEN sr \cup {"tdre"} ELSE sr, c)
                    <=> "ovrn" \in sr
                BY DEF Received
            <4> QED BY <3>1, <4>1, UpdateSetsTheBit
        <3>3. overrun => overrun'
            BY <3>1 DEF Receive
        <3>4. UNCHANGED <<srRead, told>>
            BY <2>1 DEF Tick
        <3> QED BY <3>2, <3>3, <3>4 DEF ToldIfRead
    <2>2. CASE \E k \in KeyBytes : Send(k)
        BY <2>2 DEF Send, ToldIfRead
    <2>3. CASE \E c \in Controls : WriteCR(c)
        <3>1. PICK c \in Controls : WriteCR(c)
            BY <2>3
        <3>2. CASE c.divide = "reset"
            BY <3>1, <3>2 DEF WriteCR, ToldIfRead
        <3>3. CASE c.divide # "reset"
            <4>1. UpdateIRQ(c, sr, overrun) /\ UNCHANGED <<overrun, srRead, told>>
                BY <3>1, <3>3 DEF WriteCR
            <4>2. ("ovrn" \in sr') = ("ovrn" \in sr)
                BY <4>1, UpdateSetsTheBit
            <4> QED BY <4>1, <4>2 DEF ToldIfRead
        <3> QED BY <3>2, <3>3
    <2>4. CASE \E b \in CpuBytes : WriteTDR(b)
        <3>1. UpdateIRQ(cr, sr \ {"tdre"}, overrun) /\ UNCHANGED <<overrun, srRead, told>>
            BY <2>4 DEF WriteTDR
        <3>2. ("ovrn" \in sr') = ("ovrn" \in sr)
            BY <3>1, UpdateSetsTheBit
        <3> QED BY <3>1, <3>2 DEF ToldIfRead
    <2>5. CASE ReadSR
        BY <2>5 DEF ReadSR, ToldIfRead
    <2>6. CASE ReadRDR
        <3> DEFINE kept == sr \ (IF srRead THEN {"rdrf", "pe", "ovrn"} ELSE {"rdrf", "pe"})
        <3>2. UpdateIRQ(cr, kept \cup (IF overrun THEN {"ovrn"} ELSE {}), FALSE)
            BY <2>6 DEF ReadRDR
        <3>3. "ovrn" \in sr' <=> "ovrn" \in kept \cup (IF overrun THEN {"ovrn"} ELSE {})
            BY <3>2, UpdateSetsTheBit
        <3>1. /\ ~srRead' /\ told' = told
              /\ overrun => "ovrn" \in sr'
              /\ "ovrn" \in sr /\ ~srRead => "ovrn" \in sr'
            BY <2>6, <3>3 DEF ReadRDR
        <3> QED BY <3>1, <3>3 DEF ToldIfRead
    <2>7. CASE Reset
        BY <2>7 DEF Reset, ToldIfRead
    <2>8. CASE UNCHANGED vars
        BY <2>8 DEF vars, lines, ToldIfRead
    <2> QED BY <2>1, <2>2, <2>3, <2>4, <2>5, <2>6, <2>7, <2>8 DEF Next, Processor
<1> QED BY <1>1, <1>2, PTL DEF Spec, OverrunIsTold
-----------------------------------------------------------------------------
(* A look at the causes that leaves the line low without a request found   *)
(* it low without one.                                                     *)
LEMMA LineAfterUpdate ==
    ASSUME NEW control, NEW status, NEW overran, UpdateIRQ(control, status, overran),
           "irq" \in status <=> "irq" \in sr, low', "irq" \notin sr'
    PROVE  low /\ "irq" \notin sr
<1>1. Causes(control, status, overran) \in BOOLEAN
    BY DEF Causes
<1> QED BY <1>1 DEF UpdateIRQ

LEMMA LineAfterMidiUpdate ==
    ASSUME NEW control, NEW status, M!UpdateIRQ(control, status),
           "irq" \in status <=> "irq" \in msr, low', "irq" \notin msr'
    PROVE  low /\ "irq" \notin msr
<1>1. M!Causes(control, status) \in BOOLEAN
    BY DEF M!Causes
<1> QED BY <1>1 DEF M!UpdateIRQ

LEMMA LineAfterKeyboard ==
    ASSUME Tick \/ (\E k \in KeyBytes : Send(k)) \/ Processor, low', "irq" \notin sr'
    PROVE  low /\ "irq" \notin sr
<1>1. CASE Tick
    <2>1. PICK b, c \in Bits :
             UpdateIRQ(cr, Received(IF Loads THEN sr \cup {"tdre"} ELSE sr, c), overrun')
        BY <1>1 DEF Tick
    <2>2. "irq" \in Received(IF Loads THEN sr \cup {"tdre"} ELSE sr, c) <=> "irq" \in sr
        BY DEF Received
    <2> QED BY <2>1, <2>2, LineAfterUpdate
<1>2. CASE \E k \in KeyBytes : Send(k)
    BY <1>2 DEF Send
<1>3. CASE \E c \in Controls : WriteCR(c)
    <2>1. PICK c \in Controls : WriteCR(c)
        BY <1>3
    <2>2. c.divide # "reset"
        BY <2>1 DEF WriteCR
    <2> QED BY <2>1, <2>2, LineAfterUpdate DEF WriteCR
<1>4. CASE \E b \in CpuBytes : WriteTDR(b)
    <2>1. UpdateIRQ(cr, sr \ {"tdre"}, overrun)
        BY <1>4 DEF WriteTDR
    <2> QED BY <2>1, LineAfterUpdate
<1>5. CASE ReadSR
    BY <1>5 DEF ReadSR
<1>6. CASE ReadRDR
    <2> DEFINE read == (sr \ (IF srRead THEN {"rdrf", "pe", "ovrn"} ELSE {"rdrf", "pe"}))
                            \cup (IF overrun THEN {"ovrn"} ELSE {})
    <2>1. UpdateIRQ(cr, read, FALSE) /\ ("irq" \in read <=> "irq" \in sr)
        BY <1>6 DEF ReadRDR
    <2> QED BY <2>1, LineAfterUpdate
<1> QED BY <1>1, <1>2, <1>3, <1>4, <1>5, <1>6 DEF Processor

LEMMA LineAfterPort ==
    ASSUME M!Next, low', "irq" \notin msr'
    PROVE  low /\ "irq" \notin msr
<1>0. "irq" \in M!Emptied <=> "irq" \in msr
    BY DEF M!Emptied
<1>1. CASE M!Elapse
    BY <1>1 DEF M!Elapse
<1>2. CASE \E received \in BOOLEAN : M!Update(received)
    <2>1. PICK received \in BOOLEAN :
             M!UpdateIRQ(mcr, IF received THEN M!Emptied \cup {"rdrf"} ELSE M!Emptied)
        BY <1>2 DEF M!Update
    <2> QED BY <1>0, <2>1, LineAfterMidiUpdate
<1>3. CASE M!ReadSR
    BY <1>0, <1>3, LineAfterMidiUpdate DEF M!ReadSR
<1>4. CASE \E c \in MidiControls : M!WriteCR(c)
    <2>1. PICK c \in MidiControls : M!UpdateIRQ(c, msr)
        BY <1>4 DEF M!WriteCR
    <2> QED BY <2>1, LineAfterMidiUpdate
<1>5. CASE M!ReadData
    <2>1. M!UpdateIRQ(mcr, msr \ {"rdrf"})
        BY <1>5 DEF M!ReadData
    <2> QED BY <2>1, LineAfterMidiUpdate
<1>6. CASE M!WriteData
    <2>1. M!UpdateIRQ(mcr, msr \ {"tdre"})
        BY <1>6 DEF M!WriteData
    <2> QED BY <2>1, LineAfterMidiUpdate
<1> QED BY <1>1, <1>2, <1>3, <1>4, <1>5, <1>6 DEF M!Next

(* A low line is somebody's request, or has been low since the reset.      *)
THEOREM LowLineIsRequested == LineSpec => []LowIsRequested
<1>1. LineInit => LowIsRequested
    BY DEF LineInit, LowIsRequested
<1>2. LowIsRequested /\ [LineNext]_lineVars => LowIsRequested'
    <2> SUFFICES ASSUME LowIsRequested, [LineNext]_lineVars, low',
                        "irq" \notin sr', "irq" \notin msr'
                 PROVE  unset'
        BY DEF LowIsRequested
    <2>1. CASE /\ Tick \/ (\E k \in KeyBytes : Send(k)) \/ Processor
               /\ UNCHANGED midi /\ Follow
        <3>1. low /\ "irq" \notin sr
            BY <2>1, LineAfterKeyboard
        <3> QED BY <2>1, <3>1 DEF midi, Follow, LowIsRequested
    <2>2. CASE Port /\ Follow
        <3>1. low /\ "irq" \notin msr
            BY <2>2, LineAfterPort DEF Port
        <3> QED BY <2>2, <3>1 DEF Port, Follow, LowIsRequested
    <2>3. CASE LineReset
        BY <2>3 DEF LineReset
    <2>4. CASE UNCHANGED lineVars
        BY <2>4 DEF lineVars, vars, midi, LowIsRequested
    <2> QED BY <2>1, <2>2, <2>3, <2>4 DEF LineNext, KeyboardTick
<1> QED BY <1>1, <1>2, PTL DEF LineSpec
-----------------------------------------------------------------------------
(* The bit that leaves a sender is the next that enters its receiver.      *)
LEMMA BitMoves ==
    ASSUME NEW r \in Seq(Bits), NEW s \in Seq(Bits), s # <<>>
    PROVE  Append(r, Head(s)) \o Tail(s) = r \o s
<1> DEFINE a == Append(r, Head(s))
           t == Tail(s)
<1>1. Head(s) = s[1] /\ Head(s) \in Bits /\ t \in Seq(Bits) /\ Len(t) = Len(s) - 1
      /\ \A i \in 1 .. Len(t) : t[i] = s[i + 1]
    BY HeadTailProperties
<1>2. /\ a \in Seq(Bits) /\ Len(a) = Len(r) + 1
      /\ \A i \in 1 .. Len(r) : a[i] = r[i]
      /\ a[Len(r) + 1] = Head(s)
    BY <1>1
<1>3. Len(r) \in Nat /\ Len(s) \in Nat /\ Len(t) \in Nat
    BY <1>1, LenProperties
<1> HIDE DEF a, t
<1>4. /\ a \o t \in Seq(Bits) /\ Len(a \o t) = Len(a) + Len(t)
      /\ \A i \in 1 .. Len(a) + Len(t) :
            (a \o t)[i] = IF i <= Len(a) THEN a[i] ELSE t[i - Len(a)]
    BY <1>1, <1>2, ConcatProperties
<1>5. /\ r \o s \in Seq(Bits) /\ Len(r \o s) = Len(r) + Len(s)
      /\ \A i \in 1 .. Len(r) + Len(s) :
            (r \o s)[i] = IF i <= Len(r) THEN r[i] ELSE s[i - Len(r)]
    BY ConcatProperties
<1>6. Len(a \o t) = Len(r \o s)
    BY <1>1, <1>2, <1>3, <1>4, <1>5
<1>7. ASSUME NEW i \in 1 .. Len(a \o t) PROVE (a \o t)[i] = (r \o s)[i]
    <2>1. CASE i <= Len(r)
        BY <1>2, <1>3, <1>4, <1>5, <1>6, <2>1
    <2>2. CASE i = Len(r) + 1
        BY <1>1, <1>2, <1>3, <1>4, <1>5, <1>6, <2>2
    <2>3. CASE i > Len(r) + 1
        <3>1. i - Len(a) \in 1 .. Len(t) /\ i - Len(a) + 1 = i - Len(r)
            BY <1>1, <1>2, <1>3, <1>4, <2>3
        <3>2. (a \o t)[i] = t[i - Len(a)]
            BY <1>2, <1>3, <1>4, <2>3
        <3>3. (r \o s)[i] = s[i - Len(r)]
            BY <1>3, <1>5, <1>6, <2>3
        <3> QED BY <1>1, <3>1, <3>2, <3>3
    <2> QED BY <1>1, <1>2, <1>3, <1>4, <2>1, <2>2, <2>3
<1>8. a \o t = r \o s
    BY <1>4, <1>5, <1>6, <1>7, SeqEqual
<1> QED BY <1>8 DEF a, t

(* The bits of a command reach the keyboard in the order of the line.      *)
THEOREM CommandsAreCarried == Spec => CommandsCarried
<1>1. ASSUME TypeOK, cr.word = Standard, cr.tx # "break", InStep(tx, srx, tx), Tick
      PROVE  /\ InStep(tx', srx', tx')
             /\ Carries(tx', srx', IF tx.state = "idle" THEN tdr ELSE srx.reg \o tx.reg)
    <2>0. SciBits \in Nat
        BY AciaAssumption
    <2>1. PICK b \in Bits : Transmit(b) /\ SciReceive(b)
        BY <1>1 DEF Tick
    <2>2. /\ tx \in Shifts /\ tx.reg \in Seq(Bits) /\ Len(tx.reg) \in Nat
          /\ srx \in SciShifts /\ srx.reg \in Seq(Bits) /\ Len(srx.reg) \in Nat
          /\ srx.state # "parity" /\ srx.state = tx.state
        BY <1>1, LenProperties DEF TypeOK, TxOK, SciOK, Shifts, SciShifts, InStep
    <2>3. CASE tx.state = "idle" /\ ~Loads
        <3>1. b = 1 /\ tx' = tx /\ srx' = srx
            BY <1>1, <2>1, <2>2, <2>3 DEF Transmit, SciReceive
        <3> QED BY <1>1, <2>3, <3>1 DEF InStep, Carries
    <2>4. CASE Loads
        <3>1. tx.state = "idle"
            BY <2>4 DEF Loads
        <3>2. /\ tx' = [state |-> "data", reg |-> tdr, left |-> SciBits, parity |-> 0,
                        stops |-> 1]
              /\ srx' = [state |-> "data", reg |-> <<>>]
            BY <1>1, <2>1, <2>2, <2>4, <3>1 DEF Transmit, SciReceive, Standard
        <3>3. tdr \in Seq(Bits) /\ Len(tdr) = SciBits
            BY <1>1, BytesAreSeqs DEF TypeOK, BytesOK
        <3>4. Len(<<>>) = 0 /\ <<>> \o tdr = tdr
            BY <3>3, EmptySeq, ConcatEmptySeq
        <3>5. /\ tx'.state = "data" /\ tx'.reg = tdr /\ tx'.left = SciBits /\ tx'.stops = 1
              /\ srx'.state = "data" /\ srx'.reg = <<>>
            BY <3>2
        <3>6. Len(tx'.reg) + Len(srx'.reg) = SciBits
            BY <2>0, <3>3, <3>4, <3>5
        <3>7. tx'.state = IF tx'.left > 0 THEN "data" ELSE "stop"
            BY <3>5, AciaAssumption
        <3>8. InStep(tx', srx', tx')
            BY <3>3, <3>5, <3>6, <3>7 DEF InStep
        <3> QED BY <3>1, <3>4, <3>5, <3>8 DEF Carries
    <2>5. CASE tx.state = "data"
        <3>1. /\ tx' = [tx EXCEPT !.reg = Tail(@), !.parity = (@ + b) % 2, !.left = @ - 1,
                                  !.state = IF tx.left > 1 THEN "data" ELSE AfterData]
              /\ srx' = [reg |-> Append(srx.reg, b),
                         state |-> IF Len(srx.reg) + 1 < SciBits THEN "data" ELSE "stop"]
              /\ b = Head(tx.reg)
            BY <2>1, <2>2, <2>5 DEF Transmit, SciReceive, Loads
        <3>2. AfterData = "stop"
            BY <1>1 DEF AfterData, Standard
        <3>3. /\ Len(tx.reg) + Len(srx.reg) = SciBits /\ tx.left = Len(tx.reg)
              /\ tx.stops = 1 /\ tx.left > 0
            BY <1>1, <2>5 DEF InStep, TypeOK, TxOK
        <3>4. tx.reg # <<>>
            BY <2>2, <3>3, EmptySeq
        <3>5. /\ Tail(tx.reg) \in Seq(Bits) /\ Len(Tail(tx.reg)) = Len(tx.reg) - 1
              /\ Append(srx.reg, b) \in Seq(Bits) /\ Len(Append(srx.reg, b)) = Len(srx.reg) + 1
            BY <2>2, <3>4, HeadTailProperties
        <3>6. /\ tx'.reg = Tail(tx.reg) /\ tx'.left = tx.left - 1 /\ tx'.stops = 1
              /\ tx'.state = (IF tx.left > 1 THEN "data" ELSE "stop")
              /\ srx'.reg = Append(srx.reg, b)
              /\ srx'.state = (IF Len(srx.reg) + 1 < SciBits THEN "data" ELSE "stop")
            BY <2>2, <3>1, <3>2, <3>3 DEF Shifts
        <3>7. InStep(tx', srx', tx')
            <4>0. tx.reg \in Seq(Bits) /\ srx.reg \in Seq(Bits)
                BY <2>2
            <4>1. /\ Len(tx.reg) > 1 <=> Len(srx.reg) + 1 < SciBits
                  /\ Len(Tail(tx.reg)) + Len(Append(srx.reg, b)) = SciBits
                <5> DEFINE l == Len(tx.reg)  k == Len(srx.reg)
                <5>1. l \in Nat /\ k \in Nat /\ l + k = SciBits
                    BY <2>2, <3>3
                <5>2. Len(Tail(tx.reg)) = l - 1 /\ Len(Append(srx.reg, b)) = k + 1
                    BY <3>5
                <5> HIDE DEF l, k
                <5>3. (l > 1 <=> k + 1 < SciBits) /\ (l - 1) + (k + 1) = SciBits
                    BY <2>0, <5>1
                <5>4. Len(Tail(tx.reg)) + Len(Append(srx.reg, b)) = SciBits
                    BY <5>2, <5>3
                <5> QED BY <5>3, <5>4 DEF l, k
            <4>2. tx'.state = srx'.state
                BY <3>3, <3>6, <4>1
            <4>3. Len(tx'.reg) + Len(srx'.reg) = SciBits
                BY <3>6, <4>1
            <4>4. tx'.left = Len(tx'.reg) /\ tx'.stops = 1
                BY <3>3, <3>5, <3>6
            <4>5. tx'.state = IF tx'.left > 0 THEN "data" ELSE "stop"
                BY <2>2, <3>6 DEF Shifts
            <4> QED BY <4>2, <4>3, <4>4, <4>5 DEF InStep
        <3>8. srx'.reg \o tx'.reg = srx.reg \o tx.reg
            BY <2>2, <3>1, <3>4, <3>6, BitMoves
        <3> QED BY <2>5, <3>7, <3>8 DEF Carries
    <2>6. CASE tx.state = "stop"
        <3>1. tx.stops = 1
            BY <1>1, <2>6 DEF InStep
        <3>2. tx' = Idle /\ srx' = SciIdle
            BY <2>1, <2>2, <2>6, <3>1 DEF Transmit, SciReceive, Loads
        <3> QED BY <3>2, IdleTypes DEF InStep, Carries
    <2> QED BY <2>1, <2>2, <2>3, <2>4, <2>5, <2>6 DEF Transmit
<1>2. TypeOK /\ [Next]_vars =>
        (cr.word = Standard /\ cr.tx # "break" /\ InStep(tx, srx, tx) /\ Tick =>
          /\ InStep(tx', srx', tx')
          /\ Carries(tx', srx', IF tx.state = "idle" THEN tdr ELSE srx.reg \o tx.reg))
    BY <1>1
<1> QED BY <1>2, Types, PTL DEF Spec, CommandsCarried

(* The bits of the keyboard's bytes reach RDR, or are lost to an overrun.  *)
THEOREM KeysAreCarried == Spec => KeysCarried
<1>1. ASSUME TypeOK, cr.word = Standard, InStep(stx, rx, rx), Carries(stx, rx, stdr), Tick
      PROVE  /\ InStep(stx', rx', rx') /\ Carries(stx', rx', stdr')
             /\ rx.state = "stop" => rdr' = stdr \/ overrun'
    <2>0. SciBits \in Nat
        BY AciaAssumption
    <2>1. PICK b \in Bits, c \in Bits :
             /\ SciReceive(b) /\ Receive(c)
             /\ \E q \in Answers(b) : SciTransmit(c, q)
        BY <1>1 DEF Tick
    <2>2. PICK q \in Answers(b) : SciTransmit(c, q)
        BY <2>1
    <2>3. /\ rx \in Shifts /\ rx.reg \in Seq(Bits) /\ Len(rx.reg) \in Nat /\ rx.left \in Nat
          /\ stx \in SciShifts /\ stx.reg \in Seq(Bits) /\ Len(stx.reg) \in Nat
          /\ stx.state \in {"idle", "data", "stop"} /\ rx.state = stx.state
        BY <1>1, LenProperties DEF TypeOK, RxOK, SciOK, Shifts, SciShifts, States, InStep
    <2>4. /\ stdr' \in Seq(Bits) /\ Len(stdr') = SciBits
          /\ stdr \in Seq(Bits) /\ Len(stdr) = SciBits
        BY <1>1, <2>1, <2>2, SciTypes, BytesAreSeqs DEF TypeOK, BytesOK
    <2>5. CASE stx.state = "idle" /\ c = 1 /\ stx' = stx
        <3>1. rx' = rx
            BY <2>1, <2>3, <2>5 DEF Receive
        <3> QED BY <1>1, <2>3, <2>5, <3>1 DEF InStep, Carries
    <2>6. CASE /\ stx.state = "idle" /\ c = 0
               /\ stdr' = Head(q) /\ stx' = [state |-> "data", reg |-> Head(q)]
        <3>1. rx' = [state |-> "data", reg |-> <<>>, left |-> SciBits, parity |-> 0,
                     stops |-> 1]
            BY <1>1, <2>1, <2>3, <2>6 DEF Receive, Standard
        <3>2. Len(<<>>) = 0 /\ <<>> \o stdr' = stdr'
            BY <2>4, EmptySeq, ConcatEmptySeq
        <3>3. /\ stx'.state = "data" /\ stx'.reg = stdr'
              /\ rx'.state = "data" /\ rx'.reg = <<>> /\ rx'.left = SciBits /\ rx'.stops = 1
            BY <2>6, <3>1
        <3>4. Len(stx'.reg) + Len(rx'.reg) = SciBits
            BY <2>0, <2>4, <3>2, <3>3
        <3>5. rx'.state = IF rx'.left > 0 THEN "data" ELSE "stop"
            BY <3>3, AciaAssumption
        <3>6. InStep(stx', rx', rx')
            BY <2>4, <3>3, <3>4, <3>5 DEF InStep
        <3> QED BY <2>3, <2>6, <3>2, <3>3, <3>6 DEF Carries
    <2>7. CASE /\ stx.state = "data" /\ c = Head(stx.reg) /\ stdr' = stdr
               /\ stx' = [reg |-> Tail(stx.reg),
                          state |-> IF Len(stx.reg) > 1 THEN "data" ELSE "stop"]
        <3>1. rx' = [rx EXCEPT !.reg = Append(@, c), !.parity = (@ + c) % 2, !.left = @ - 1,
                               !.state = IF rx.left > 1 THEN "data" ELSE AfterData]
            BY <2>1, <2>3, <2>7 DEF Receive
        <3>2. AfterData = "stop"
            BY <1>1 DEF AfterData, Standard
        <3>3. /\ Len(stx.reg) + Len(rx.reg) = SciBits /\ rx.left = Len(stx.reg)
              /\ rx.stops = 1 /\ rx.left > 0
            BY <1>1, <2>3, <2>7 DEF InStep, TypeOK, RxOK
        <3>4. stx.reg # <<>>
            BY <2>3, <3>3, EmptySeq
        <3>5. /\ Len(Tail(stx.reg)) = Len(stx.reg) - 1
              /\ Len(Append(rx.reg, c)) = Len(rx.reg) + 1
            BY <2>3, <3>4, HeadTailProperties
        <3>6. /\ rx'.reg = Append(rx.reg, c) /\ rx'.left = rx.left - 1 /\ rx'.stops = 1
              /\ rx'.state = (IF rx.left > 1 THEN "data" ELSE "stop")
              /\ stx'.reg = Tail(stx.reg)
              /\ stx'.state = (IF Len(stx.reg) > 1 THEN "data" ELSE "stop")
            BY <2>3, <2>7, <3>1, <3>2, <3>3 DEF Shifts
        <3>7. InStep(stx', rx', rx')
            <4>1. Len(Tail(stx.reg)) + Len(Append(rx.reg, c)) = SciBits
                <5> DEFINE l == Len(stx.reg)  k == Len(rx.reg)
                <5>1. l \in Nat /\ k \in Nat /\ l + k = SciBits
                    BY <2>3, <3>3
                <5>2. Len(Tail(stx.reg)) = l - 1 /\ Len(Append(rx.reg, c)) = k + 1
                    BY <3>5
                <5> HIDE DEF l, k
                <5>3. (l - 1) + (k + 1) = SciBits
                    BY <2>0, <5>1
                <5> QED BY <5>2, <5>3
            <4>2. stx'.state = rx'.state
                BY <3>3, <3>6
            <4>3. rx'.left = Len(stx'.reg) /\ rx'.stops = 1
                BY <3>3, <3>5, <3>6
            <4>4. rx'.state = IF rx'.left > 0 THEN "data" ELSE "stop"
                BY <2>3, <3>6
            <4> QED BY <3>6, <4>1, <4>2, <4>3, <4>4 DEF InStep
        <3>8. rx'.reg \o stx'.reg = rx.reg \o stx.reg
            BY <2>3, <2>7, <3>4, <3>6, BitMoves
        <3>9. rx.reg \o stx.reg = stdr
            BY <1>1, <2>7 DEF Carries
        <3> QED BY <2>3, <2>7, <3>7, <3>8, <3>9 DEF Carries
    <2>8. CASE stx.state = "stop" /\ c = 1 /\ stx' = SciIdle /\ stdr' = stdr
        <3>1. rx.stops = 1 /\ rx.left = Len(stx.reg) /\ ~(rx.left > 0)
            BY <1>1, <2>3, <2>8 DEF InStep
        <3>2. stx.reg = <<>>
            BY <2>3, <3>1, EmptySeq
        <3>3. rx.reg = stdr
            <4>1. rx.reg \o stx.reg = stdr
                BY <1>1, <2>8 DEF Carries
            <4> QED BY <2>3, <3>2, <4>1, ConcatEmptySeq
        <3>4. Rsr = stdr
            <4>1. SciBits - Len(rx.reg) = 0
                BY <2>0, <2>4, <3>3
            <4>2. [i \in 1 .. 0 |-> 0] = <<>>
                OBVIOUS
            <4>3. <<>> \o rx.reg = rx.reg
                BY <2>3, ConcatEmptySeq
            <4> QED BY <3>3, <4>1, <4>2, <4>3 DEF Rsr
        <3>5. rx' = Idle /\ Completes(c)
            BY <2>1, <2>3, <2>8, <3>1 DEF Receive, Completes
        <3>6. rdr' = stdr \/ overrun'
            BY <2>1, <3>4, <3>5 DEF Receive
        <3> QED BY <2>8, <3>5, <3>6, IdleTypes DEF InStep, Carries
    <2> QED BY <2>2, <2>5, <2>6, <2>7, <2>8 DEF SciTransmit
<1>2. TypeOK /\ [Next]_vars =>
        (cr.word = Standard /\ InStep(stx, rx, rx) /\ Carries(stx, rx, stdr) /\ Tick =>
          /\ InStep(stx', rx', rx') /\ Carries(stx', rx', stdr')
          /\ (rx.state = "stop" => rdr' = stdr \/ overrun'))
    BY <1>1
<1> QED BY <1>2, Types, PTL DEF Spec, KeysCarried
=============================================================================

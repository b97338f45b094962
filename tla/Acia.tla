-------------------------------- MODULE Acia --------------------------------
(***************************************************************************)
(* The keyboard's ACIA of acia.c, bit by bit, and the serial port of the   *)
(* keyboard processor at the other end of its lines (the SCI of ikbd.c).   *)
(* One interrupt per bit clocks both: the ACIA sends a bit, which the SCI  *)
(* receives, and then receives the bit that the SCI sends.  What the       *)
(* keyboard does with a byte, and when it has one to send, is left open.   *)
(*                                                                         *)
(* A byte is the sequence of its bits, in the order of the line.  CTS, DCD *)
(* and RTS are not connected.  The divider of the clock is left out but    *)
(* for its being chosen, which starts the clock.  A shift register that is *)
(* idle is shown empty: what it holds is replaced before it is used.       *)
(***************************************************************************)
EXTENDS Integers, Sequences

CONSTANTS
    SciBits,        \* bits of a character of the SCI (8)
    Controls,       \* what the processor may write to CR
    CpuBytes,       \* the bytes that it sends
    KeyBytes,       \* and those that the keyboard sends
    MaxOut          \* bytes that the keyboard's buffer holds (1024)

Bits == {0, 1}
Bytes == [1 .. SciBits -> Bits]
Words == [bits : {SciBits - 1, SciBits}, parity : {"none", "even", "odd"}, stops : {1, 2}]
ControlBytes == [divide : {"1", "16", "64", "reset"}, rie : BOOLEAN, word : Words,
                 tx : {"no irq", "irq", "rts", "break"}]

ASSUME AciaAssumption ==
    /\ SciBits \in Nat /\ SciBits > 1
    /\ Controls \subseteq ControlBytes
    /\ CpuBytes \subseteq Bytes /\ KeyBytes \subseteq Bytes
    /\ MaxOut \in Nat

VARIABLES
    cr, sr,             \* control register; set of the bits of the status register
    srRead, overrun,    \* SR_Read and RX_Overrun
    tdr, rdr,           \* data registers
    tx, rx,             \* TX_... and RX_...: state, shift register, bits left
    clock,              \* Clock_Divider > 0, and the interrupt in the table
    low,                \* line 4 of GPIP, which the ACIAs share
    told,               \* did the last read of SR show OVRN?
    stx, srx, stdr,     \* the SCI's transmitter and receiver, and its TDR
    out                 \* the keyboard's output buffer

lines == <<tx, rx, stx, srx, stdr, out>>
vars == <<cr, sr, srRead, overrun, tdr, rdr, clock, low, told, lines>>

Idle == [state |-> "idle", reg |-> <<>>, left |-> 0, parity |-> 0, stops |-> 0]
SciIdle == [state |-> "idle", reg |-> <<>>]
Zero == [i \in 1 .. SciBits |-> 0]

(* CR is 0 before it is written. *)
NoControl == [divide |-> "1", tx |-> "no irq", rie |-> FALSE,
              word |-> [bits |-> SciBits - 1, parity |-> "even", stops |-> 2]]

(* MFP_Reset clears GPIP, so that the line is low. *)
Init ==
    /\ cr = NoControl /\ sr = {} /\ srRead = FALSE /\ overrun = FALSE
    /\ tdr = Zero /\ rdr = Zero /\ tx = Idle /\ rx = Idle /\ clock = FALSE
    /\ low = TRUE /\ told = FALSE
    /\ stx = SciIdle /\ srx = SciIdle /\ stdr = Zero /\ out = <<>>
-----------------------------------------------------------------------------
(* ACIA_UpdateIRQ: the line follows a change of the bit.                   *)

Causes(control, status, overran) ==
    \/ control.rie /\ ("rdrf" \in status \/ overran)
    \/ control.tx = "irq" /\ "tdre" \in status

UpdateIRQ(control, status, overran) ==
    LET irq == Causes(control, status, overran)
    IN /\ sr' = IF irq THEN status \cup {"irq"} ELSE status \ {"irq"}
       /\ low' = IF irq = ("irq" \in status) THEN low ELSE irq

-----------------------------------------------------------------------------
(* The transmitter of the ACIA sends bit b.                                *)

\* Mutant: TDR is not taken while its interrupt is enabled.
LoadsUnlessIrq == tx.state = "idle" /\ cr.tx \in {"no irq", "rts"} /\ "tdre" \notin sr

Loads == tx.state = "idle" /\ cr.tx # "break" /\ "tdre" \notin sr

\* Mutant: the parity bit is expected when there is none.
AfterDataSwapped == IF cr.word.parity = "none" THEN "parity" ELSE "stop"

AfterData == IF cr.word.parity = "none" THEN "stop" ELSE "parity"

Transmit(b) ==
    \/ /\ tx.state = "idle" /\ ~Loads
       /\ b = IF cr.tx = "break" THEN 0 ELSE 1
       /\ UNCHANGED tx
    \/ /\ Loads
       /\ b = 0
       /\ tx' = [state |-> "data", reg |-> tdr, left |-> cr.word.bits, parity |-> 0,
                 stops |-> cr.word.stops]
    \/ /\ tx.state = "data"
       /\ b = Head(tx.reg)
       /\ tx' = [tx EXCEPT !.reg = Tail(@), !.parity = (@ + b) % 2, !.left = @ - 1,
                           !.state = IF tx.left > 1 THEN "data" ELSE AfterData]
    \/ /\ tx.state = "parity"
       /\ b = IF cr.word.parity = "even" THEN tx.parity ELSE 1 - tx.parity
       /\ tx' = [tx EXCEPT !.state = "stop"]
    \/ /\ tx.state = "stop"
       /\ b = 1
       /\ tx' = IF tx.stops = 1 THEN Idle ELSE [tx EXCEPT !.stops = @ - 1]

(* The receiver of the ACIA gets bit b.  RSR is filled from its upper end, *)
(* where a character of less than SciBits bits stays.                      *)
Rsr == [i \in 1 .. SciBits - Len(rx.reg) |-> 0] \o rx.reg

Completes(b) == rx.state = "stop" /\ b = 1 /\ rx.stops = 1
ParityError(b) == rx.state = "parity" /\ (cr.word.parity = "even" \/ rx.parity = b)
FramingError(b) == rx.state = "stop" /\ b = 0

Receive(b) ==
    /\ \/ /\ rx.state = "idle"
          /\ rx' = IF b = 1 THEN rx
                   ELSE [state |-> "data", reg |-> <<>>, left |-> cr.word.bits, parity |-> 0,
                         stops |-> cr.word.stops]
       \/ /\ rx.state = "data"
          /\ rx' = [rx EXCEPT !.reg = Append(@, b), !.parity = (@ + b) % 2, !.left = @ - 1,
                              !.state = IF rx.left > 1 THEN "data" ELSE AfterData]
       \/ /\ rx.state = "parity"
          /\ rx' = [rx EXCEPT !.state = "stop"]
       \/ /\ rx.state = "stop"
          /\ rx' = IF b = 0 \/ rx.stops = 1 THEN Idle ELSE [rx EXCEPT !.stops = @ - 1]
    /\ rdr' = IF FramingError(b) \/ (Completes(b) /\ "rdrf" \notin sr) THEN Rsr ELSE rdr
    /\ overrun' = (overrun \/ (Completes(b) /\ "rdrf" \in sr))

Received(status, b) ==
    (IF Completes(b) THEN (status \ {"fe"}) \cup {"rdrf"} ELSE status)
        \cup (IF ParityError(b) THEN {"pe"} ELSE {})
        \cup (IF FramingError(b) THEN {"fe"} ELSE {})
-----------------------------------------------------------------------------
(* The SCI: characters of SciBits bits, no parity, one stop bit            *)

Delivers(b) == srx.state = "stop" /\ b = 1      \* IKBD_Process_RDR(RSR)

\* Mutant: the SCI takes one bit more than it should.
SciReceiveMore(b) ==
    \/ /\ srx.state = "idle"
       /\ srx' = IF b = 1 THEN srx ELSE [state |-> "data", reg |-> <<>>]
    \/ /\ srx.state = "data"
       /\ srx' = [reg |-> Append(srx.reg, b),
                  state |-> IF Len(srx.reg) < SciBits THEN "data" ELSE "stop"]
    \/ /\ srx.state = "stop"
       /\ srx' = SciIdle

SciReceive(b) ==
    \/ /\ srx.state = "idle"
       /\ srx' = IF b = 1 THEN srx ELSE [state |-> "data", reg |-> <<>>]
    \/ /\ srx.state = "data"
       /\ srx' = [reg |-> Append(srx.reg, b),
                  state |-> IF Len(srx.reg) + 1 < SciBits THEN "data" ELSE "stop"]
    \/ /\ srx.state = "stop"
       /\ srx' = SciIdle

\* Mutant: the test for a full buffer is off by one.
QueuedMore(k) == IF Len(out) <= MaxOut THEN Append(out, k) ELSE out

(* IKBD_Send_Byte_Delay: a full buffer drops the byte.                     *)
Queued(k) == IF Len(out) < MaxOut THEN Append(out, k) ELSE out

(* The SCI sends bit b, with q in the buffer.  It may send nothing though  *)
(* there is a byte: SCI_TX_Delay is not over, or the output is paused.     *)
SciTransmit(b, q) ==
    \/ /\ stx.state = "idle"
       /\ b = 1 /\ out' = q
       /\ UNCHANGED <<stx, stdr>>
    \/ /\ stx.state = "idle" /\ q # <<>>
       /\ b = 0 /\ out' = Tail(q)
       /\ stdr' = Head(q) /\ stx' = [state |-> "data", reg |-> Head(q)]
    \/ /\ stx.state = "data"
       /\ b = Head(stx.reg) /\ out' = q
       /\ stx' = [reg |-> Tail(stx.reg), state |-> IF Len(stx.reg) > 1 THEN "data" ELSE "stop"]
       /\ UNCHANGED stdr
    \/ /\ stx.state = "stop"
       /\ b = 1 /\ out' = q /\ stx' = SciIdle /\ UNCHANGED stdr

(* IKBD_Process_RDR: the keyboard may answer the byte it gets at once, or  *)
(* empty its buffer (the command that resets it).                          *)
Answers(b) == {out} \cup (IF Delivers(b) THEN {<<>>} \cup {Queued(k) : k \in KeyBytes} ELSE {})
-----------------------------------------------------------------------------
(* ACIA_InterruptHandler_IKBD: a bit in each direction.  A bit only adds   *)
(* causes of the interrupt, so that one look at them stands for the two of *)
(* the code.                                                               *)
Tick ==
    /\ clock
    /\ \E b, c \in Bits :
          /\ Transmit(b) /\ SciReceive(b)
          /\ \E q \in Answers(b) : SciTransmit(c, q)
          /\ Receive(c)
          /\ UpdateIRQ(cr, Received(IF Loads THEN sr \cup {"tdre"} ELSE sr, c), overrun')
    /\ UNCHANGED <<cr, srRead, tdr, told, clock>>

(* The keyboard has something to say, and the clock runs.                  *)
Send(k) ==
    /\ clock
    /\ out' = Queued(k)
    /\ UNCHANGED <<cr, sr, srRead, overrun, tdr, rdr, clock, low, told, tx, rx, stx, srx, stdr>>

(* The processor.  A master reset keeps what it does not clear: TDR, RDR,  *)
(* SR_Read and the clock.                                                  *)
WriteCR(c) ==
    /\ cr' = c
    /\ \/ /\ c.divide = "reset"
          /\ tx' = Idle /\ rx' = Idle /\ overrun' = FALSE
          /\ low' = Causes(c, {"tdre"}, FALSE)
          /\ sr' = {"tdre"} \cup (IF low' THEN {"irq"} ELSE {})
          /\ UNCHANGED clock
       \/ /\ c.divide # "reset"
          /\ UpdateIRQ(c, sr, overrun)
          /\ clock' = (clock \/ c.divide # cr.divide)
          /\ UNCHANGED <<tx, rx, overrun>>
    /\ UNCHANGED <<srRead, tdr, rdr, told, stx, srx, stdr, out>>

\* Mutant: the interrupt is not updated.
WriteTDRQuietly(b) ==
    /\ tdr' = b /\ sr' = sr \ {"tdre"}
    /\ UNCHANGED <<cr, srRead, overrun, rdr, clock, low, told, lines>>

WriteTDR(b) ==
    /\ tdr' = b
    /\ UpdateIRQ(cr, sr \ {"tdre"}, overrun)
    /\ UNCHANGED <<cr, srRead, overrun, rdr, clock, told, lines>>

ReadSR ==
    /\ srRead' = TRUE /\ told' = ("ovrn" \in sr)
    /\ UNCHANGED <<cr, sr, overrun, tdr, rdr, clock, low, lines>>

\* Mutant: the read of RDR clears OVRN, whether SR was read or not.
ReadRDRClears ==
    /\ UpdateIRQ(cr, (sr \ {"rdrf", "pe", "ovrn"}) \cup (IF overrun THEN {"ovrn"} ELSE {}), FALSE)
    /\ srRead' = FALSE /\ overrun' = FALSE
    /\ UNCHANGED <<cr, tdr, rdr, clock, told, lines>>

(* OVRN appears when RDR is read, and goes when RDR is read after SR.      *)
ReadRDR ==
    LET kept == sr \ (IF srRead THEN {"rdrf", "pe", "ovrn"} ELSE {"rdrf", "pe"})
    IN /\ UpdateIRQ(cr, kept \cup (IF overrun THEN {"ovrn"} ELSE {}), FALSE)
       /\ srRead' = FALSE /\ overrun' = FALSE
       /\ UNCHANGED <<cr, tdr, rdr, clock, told, lines>>

(* The RESET instruction resets the keyboard, which empties its buffer,    *)
(* and the MFP.  The ACIA has no such pin, and its interrupt stays.        *)
Reset ==
    /\ stx' = SciIdle /\ srx' = SciIdle /\ out' = <<>>
    /\ low' = TRUE
    /\ UNCHANGED <<cr, sr, srRead, overrun, tdr, rdr, tx, rx, clock, told, stdr>>

Processor ==
    \/ \E c \in Controls : WriteCR(c)
    \/ \E b \in CpuBytes : WriteTDR(b)
    \/ ReadSR
    \/ ReadRDR

Next == Tick \/ (\E k \in KeyBytes : Send(k)) \/ Processor \/ Reset

Spec == Init /\ [][Next]_vars /\ WF_vars(Tick)
-----------------------------------------------------------------------------
States == {"idle", "data", "parity", "stop"}
Shifts == [state : States, reg : Seq(Bits), left : 0 .. SciBits, parity : Bits, stops : 0 .. 2]
SciShifts == [state : States \ {"parity"}, reg : Seq(Bits)]

FlagsOK ==
    /\ cr \in Controls \cup {NoControl}
    /\ sr \subseteq {"rdrf", "tdre", "fe", "ovrn", "pe", "irq"}
    /\ srRead \in BOOLEAN /\ overrun \in BOOLEAN /\ clock \in BOOLEAN
    /\ low \in BOOLEAN /\ told \in BOOLEAN
BytesOK == tdr \in Bytes /\ rdr \in Bytes /\ stdr \in Bytes
TxOK ==
    /\ tx \in Shifts
    /\ tx.state = "data" => tx.left > 0 /\ tx.left <= Len(tx.reg)
    /\ tx.state # "idle" => tx.stops > 0
RxOK ==
    /\ rx \in Shifts
    /\ Len(rx.reg) + rx.left <= SciBits
    /\ rx.state = "data" => rx.left > 0
    /\ rx.state # "idle" => rx.stops > 0
SciOK ==
    /\ stx \in SciShifts /\ srx \in SciShifts
    /\ stx.state = "data" => Len(stx.reg) > 0
    /\ Len(srx.reg) <= SciBits
    /\ srx.state = "data" => Len(srx.reg) < SciBits
    /\ out \in Seq(KeyBytes) /\ Len(out) <= MaxOut

(* The counts of bits and stop bits never run out before their state ends, *)
(* though CR may change in the middle of a character: a sender has the bit *)
(* it sends, a receiver the room for it, and the keyboard's buffer does    *)
(* not overflow.                                                           *)
TypeOK == FlagsOK /\ BytesOK /\ TxOK /\ RxOK /\ SciOK

(* The IRQ bit, which decides whether a change of the line is due, never   *)
(* lags behind its causes: every handler that changes one of them looks.   *)
IrqFollowsCauses == "irq" \in sr <=> Causes(cr, sr, overrun)

(* An overrun is remembered until a read of RDR shows it in SR, and stays  *)
(* there until the processor has read it, though SR_Read only tells that   *)
(* SR was read at some time.  Only a master reset forgets it.              *)
OverrunIsTold ==
    [][/\ overrun /\ ~overrun' => "ovrn" \in sr' \/ cr'.divide = "reset"
       /\ "ovrn" \in sr /\ "ovrn" \notin sr' => told \/ cr'.divide = "reset"]_vars

(* At the default parameters, once a sender and a receiver agree where a   *)
(* character begins, they never lose step, and the bits of the character   *)
(* are, at every one of them, those that the sender took: in both          *)
(* directions, though one interrupt serves the four state machines.        *)
Standard == [bits |-> SciBits, parity |-> "none", stops |-> 1]
InStep(sender, receiver, acia) ==
    /\ sender.state = receiver.state
    /\ sender.state # "idle" =>
          /\ Len(sender.reg) + Len(receiver.reg) = SciBits
          /\ acia.left = Len(sender.reg) /\ acia.stops = 1
          /\ acia.state = IF acia.left > 0 THEN "data" ELSE "stop"
Carries(sender, receiver, byte) ==
    sender.state # "idle" => receiver.reg \o sender.reg = byte

CommandsCarried ==
    [][cr.word = Standard /\ cr.tx # "break" /\ InStep(tx, srx, tx) /\ Tick =>
          /\ InStep(tx', srx', tx')
          /\ Carries(tx', srx', IF tx.state = "idle" THEN tdr ELSE srx.reg \o tx.reg)]_vars

KeysCarried ==
    [][cr.word = Standard /\ InStep(stx, rx, rx) /\ Carries(stx, rx, stdr) /\ Tick =>
          /\ InStep(stx', rx', rx') /\ Carries(stx', rx', stdr')
          /\ (rx.state = "stop" => rdr' = stdr \/ overrun')]_vars

(* The processor is not left waiting: while the clock runs and no break is *)
(* sent, TDR is taken and TDRE set again.                                  *)
BytesAreTaken == clock /\ "tdre" \notin sr ~> "tdre" \in sr \/ cr.tx = "break"
=============================================================================

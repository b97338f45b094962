----------------------------- MODULE UsbMidiIn -----------------------------
(***************************************************************************)
(* The receive buffer of USB MIDI (fsmidi.c): a thread of the USB driver   *)
(* adds the bytes of a message, the emulator's thread takes one byte at a  *)
(* time.  Both change _hRecvBufCount behind _hRecvBufLock, a volatile int  *)
(* that is tested and then set ("TODO: proper atomic lock"), so that both  *)
(* may be behind it at once; ++ and -- are a read and a write.             *)
(* One device is attached: the driver has one thread per device.           *)
(***************************************************************************)
EXTENDS Integers, Sequences

CONSTANTS
    Size,           \* kHardwareInRecvBufSize
    Bytes, NoByte,  \* what a device may send; a place that was never written
    MaxMessage      \* bytes of a message

ASSUME SizeAssumption == Size \in Nat \ {0}
ASSUME MessageAssumption == MaxMessage \in Nat \ {0}

VARIABLES
    wpc, left, wtmp,    \* the driver's thread: step, bytes still to add, count read by ++
    rpc, rtmp,          \* the emulator's thread: step, count read by --
    buf, readIdx, writeIdx, count, lock,    \* _hRecvBuf, ...
    received,           \* what fsMidi_readRecvData read last
    met                 \* both threads were behind the lock at once (for the properties only)

wvars == <<wpc, left, wtmp, writeIdx>>
rvars == <<rpc, rtmp, readIdx, received>>
vars == <<wvars, rvars, buf, count, lock, met>>

Slots == 0 .. Size - 1
Behind == {"check", "store", "read", "write", "free"}     \* steps behind the lock

TypeOK ==
    /\ wpc \in {"idle", "test", "set"} \cup Behind /\ left \in 0 .. MaxMessage
    /\ rpc \in {"idle", "take", "test", "set"} \cup Behind
    /\ wtmp \in Int /\ rtmp \in Int /\ count \in Int
    /\ readIdx \in Slots /\ writeIdx \in Slots /\ lock \in BOOLEAN /\ met \in BOOLEAN
    /\ buf \in [Slots -> Bytes \cup {NoByte}] /\ received \in Bytes \cup {NoByte}

(* fsMidi_init, before there is a driver.  The buffer is not cleared.      *)
Init ==
    /\ wpc = "idle" /\ left = 0 /\ wtmp = 0 /\ rpc = "idle" /\ rtmp = 0
    /\ buf = [i \in Slots |-> NoByte] /\ readIdx = 0 /\ writeIdx = 0
    /\ count = 0 /\ lock = FALSE /\ received = NoByte /\ met = FALSE
-----------------------------------------------------------------------------
(* emulatorReceiveHardwareMidiBytes, called with a whole message.          *)
Receive(n) ==
    /\ wpc = "idle"
    /\ wpc' = "test" /\ left' = n
    /\ UNCHANGED <<wtmp, writeIdx, rvars, buf, count, lock, met>>

(* while (_hRecvBufLock) { usleep(2); }                                    *)
WriterTest ==
    /\ wpc = "test" /\ ~lock
    /\ wpc' = "set"
    /\ UNCHANGED <<left, wtmp, writeIdx, rvars, buf, count, lock, met>>

WriterSet ==
    /\ wpc = "set"
    /\ lock' = TRUE /\ wpc' = "check"
    /\ met' = (met \/ rpc \in Behind)
    /\ UNCHANGED <<left, wtmp, writeIdx, rvars, buf, count>>

(* Mutants: a byte too many; one too few; a full buffer is waited for      *)
(* behind the lock.                                                        *)
CheckLate ==
    /\ wpc = "check"
    /\ wpc' = IF left = 0 \/ count > Size THEN "free" ELSE "store"
    /\ UNCHANGED <<left, wtmp, writeIdx, rvars, buf, count, lock, met>>

CheckEarly ==
    /\ wpc = "check"
    /\ wpc' = IF left = 0 \/ count >= Size - 1 THEN "free" ELSE "store"
    /\ UNCHANGED <<left, wtmp, writeIdx, rvars, buf, count, lock, met>>

WaitWhenFull ==
    /\ wpc = "check"
    /\ wpc' = IF left = 0 THEN "free" ELSE IF count >= Size THEN "check" ELSE "store"
    /\ UNCHANGED <<left, wtmp, writeIdx, rvars, buf, count, lock, met>>

(* The head of the loop: a full buffer loses the rest of the message.      *)
WriterCheck ==
    /\ wpc = "check"
    /\ wpc' = IF left = 0 \/ count >= Size THEN "free" ELSE "store"
    /\ UNCHANGED <<left, wtmp, writeIdx, rvars, buf, count, lock, met>>

Store(b) ==
    /\ wpc = "store"
    /\ buf' = [buf EXCEPT ![writeIdx] = b]
    /\ writeIdx' = (writeIdx + 1) % Size
    /\ wpc' = "read"
    /\ UNCHANGED <<left, wtmp, rvars, count, lock, met>>

(* ++_hRecvBufCount                                                        *)
WriterRead ==
    /\ wpc = "read"
    /\ wtmp' = count /\ wpc' = "write"
    /\ UNCHANGED <<left, writeIdx, rvars, buf, count, lock, met>>

WriterWrite ==
    /\ wpc = "write"
    /\ count' = wtmp + 1 /\ left' = left - 1
    /\ wpc' = "check"
    /\ UNCHANGED <<wtmp, writeIdx, rvars, buf, lock, met>>

WriterFree ==
    /\ wpc = "free"
    /\ lock' = FALSE /\ wpc' = "idle" /\ left' = 0
    /\ UNCHANGED <<wtmp, writeIdx, rvars, buf, count, met>>
-----------------------------------------------------------------------------
(* Midi_InterruptHandler_Update: fsMidi_hasRecvData.                       *)
HasRecvData ==
    /\ rpc = "idle" /\ count > 0
    /\ rpc' = "take"
    /\ UNCHANGED <<rtmp, readIdx, received, wvars, buf, count, lock, met>>

(* Mutant: the place of the byte is not left behind.                       *)
TakeAgain ==
    /\ rpc = "take" /\ count > 0
    /\ received' = buf[readIdx] /\ rpc' = "test"
    /\ UNCHANGED <<readIdx, rtmp, wvars, buf, count, lock, met>>

(* fsMidi_readRecvData looks at the count again, and takes the byte before *)
(* it has the lock.                                                        *)
TakeByte ==
    /\ rpc = "take"
    /\ IF count > 0
       THEN /\ received' = buf[readIdx] /\ readIdx' = (readIdx + 1) % Size
            /\ rpc' = "test"
       ELSE received' = NoByte /\ rpc' = "idle" /\ UNCHANGED readIdx
    /\ UNCHANGED <<rtmp, wvars, buf, count, lock, met>>

ReaderTest ==
    /\ rpc = "test" /\ ~lock
    /\ rpc' = "set"
    /\ UNCHANGED <<rtmp, readIdx, received, wvars, buf, count, lock, met>>

ReaderSet ==
    /\ rpc = "set"
    /\ lock' = TRUE /\ rpc' = "read"
    /\ met' = (met \/ wpc \in Behind)
    /\ UNCHANGED <<rtmp, readIdx, received, wvars, buf, count>>

(* --_hRecvBufCount                                                        *)
ReaderRead ==
    /\ rpc = "read"
    /\ rtmp' = count /\ rpc' = "write"
    /\ UNCHANGED <<readIdx, received, wvars, buf, count, lock, met>>

ReaderWrite ==
    /\ rpc = "write"
    /\ count' = rtmp - 1 /\ rpc' = "free"
    /\ UNCHANGED <<rtmp, readIdx, received, wvars, buf, lock, met>>

ReaderFree ==
    /\ rpc = "free"
    /\ lock' = FALSE /\ rpc' = "idle"
    /\ UNCHANGED <<rtmp, readIdx, received, wvars, buf, count, met>>
-----------------------------------------------------------------------------
Writer ==
    \/ WriterTest \/ WriterSet \/ WriterCheck \/ (\E b \in Bytes : Store(b))
    \/ WriterRead \/ WriterWrite \/ WriterFree

Reader ==
    \/ HasRecvData \/ TakeByte \/ ReaderTest \/ ReaderSet
    \/ ReaderRead \/ ReaderWrite \/ ReaderFree

Next == Writer \/ Reader \/ \E n \in 1 .. MaxMessage : Receive(n)

(* Both threads go on with a call they began, and the emulator comes to    *)
(* look for data; a thread that polls the lock finds it free at some time, *)
(* since the other holds it for a few instructions.  Nothing makes a       *)
(* device send.                                                            *)
Spec ==
    /\ Init /\ [][Next]_vars
    /\ WF_vars(Writer) /\ WF_vars(Reader)
    /\ SF_vars(WriterTest) /\ SF_vars(ReaderTest)
-----------------------------------------------------------------------------
(* Whatever the two threads do, and although updates of the count may be   *)
(* lost, it stays between none and all of the buffer: the driver never     *)
(* adds to a full buffer, the emulator never takes from an empty one.      *)
CountInBounds ==
    /\ count \in 0 .. Size
    /\ wpc = "write" => wtmp < Size
    /\ rpc \in {"take", "test", "set", "read"} => count > 0

(* The bytes in the buffer: the emulator has taken one before it counts    *)
(* it, the driver has added one before.                                    *)
Length == count - (IF rpc \in {"test", "set", "read", "write"} THEN 1 ELSE 0)
Waiting == [i \in 1 .. Length |-> buf[(readIdx + i - 1) % Size]]

Fifo == INSTANCE MidiFifo WITH line <- Waiting

(* As long as the threads have not been behind the lock at once, the bytes *)
(* are read as they were sent, none lost, added or changed on the way.     *)
FifoUntilMet ==
    Fifo!Init /\ [][Fifo!Next \/ met']_<<Waiting, received>>

(* The rest of a message is given up only when the buffer is full, but for *)
(* the place of a byte that the emulator is taking.                        *)
DropsOnlyWhenFull ==
    [][WriterCheck /\ left > 0 /\ wpc' = "free" => Length >= Size - 1 \/ met]_vars

(* A thread that wants the lock gets it and gives it back, also after both *)
(* had it; so nobody waits for a lock that no one will free.               *)
CallsEnd ==
    /\ (wpc # "idle") ~> (wpc = "idle")
    /\ (rpc # "idle") ~> (rpc = "idle")
=============================================================================

------------------------------ MODULE MidiFifo ------------------------------
(***************************************************************************)
(* What the receive buffer of USB MIDI promises: the bytes arrive in the   *)
(* order in which they were sent.  What the buffer has no room for is      *)
(* never put in.                                                           *)
(***************************************************************************)
EXTENDS Naturals, Sequences

CONSTANTS
    Bytes,      \* what a device may send
    NoByte,     \* no byte was received yet
    Size        \* of the buffer

VARIABLES
    line,       \* the bytes on their way
    received    \* the last byte the emulator read

Init == line = <<>> /\ received = NoByte

Put(b) == Len(line) < Size /\ line' = Append(line, b) /\ UNCHANGED received

Take == line # <<>> /\ received' = Head(line) /\ line' = Tail(line)

Next == Take \/ \E b \in Bytes : Put(b)

Spec == Init /\ [][Next]_<<line, received>>
=============================================================================

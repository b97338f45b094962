------------------------ MODULE RingBufferProofs ------------------------
(***************************************************************************)
(* Theorems about the two ring buffers between the emulator and the        *)
(* threads of the devices: first AudioRing, for rings of every size, then  *)
(* UsbMidiIn, for buffers of every size.                                   *)
(***************************************************************************)
EXTENDS AudioRing, UsbMidiIn, SequenceTheorems, TLAPS

(* The buffer k places behind nextBuf in the ring.                         *)
BehindNext(k) == IF nextBuf >= k THEN nextBuf - k ELSE nextBuf - k + NumBufs

(* The queue holds the last buffers that the thread handed over, in order: *)
(* the last of them is nextBuf itself until the thread moves on.           *)
Lag == IF pc = "enqueued" THEN 0 ELSE 1
QueueIsContiguous ==
    \A i \in 1 .. Len(queue) : queue[i] = BehindNext(Lag + Len(queue) - i)

(* In its loop the thread has a free buffer, unless it is to end.          *)
HasFree ==
    /\ pc \in {"fill", "play", "enqueued"} => freeBufs > 0
    /\ pc = "loop" /\ enabled => freeBufs > 0

RingInv ==
    /\ RingTypeOK /\ HasFree /\ AtMostOneLost /\ QueueIsContiguous
    /\ pc \in {"exit", "closed"} => ~enabled
    /\ pc = "closed" => ~called /\ queue = <<>>

(* The step of nextBuf around the ring.                                    *)
LEMMA RingStep ==
    ASSUME NEW n \in Buffers
    PROVE  (n + 1) % NumBufs = IF n = NumBufs - 1 THEN 0 ELSE n + 1
<1>1. CASE n = NumBufs - 1
    BY <1>1, NumBufsAssumption DEF Buffers
<1>2. CASE n # NumBufs - 1
    <2>1. n + 1 \in 0 .. NumBufs - 1
        BY <1>2, NumBufsAssumption DEF Buffers
    <2> QED BY <1>2, <2>1, NumBufsAssumption
<1> QED BY <1>1, <1>2

(* The player's queue never fills up: what it holds leaves the free        *)
(* buffers out.                                                            *)
LEMMA QueueIsBounded ==
    ASSUME RingTypeOK, AtMostOneLost, pc # "closed"
    PROVE  /\ Len(queue) \in Nat
           /\ pc # "enqueued" => Len(queue) <= NumBufs - freeBufs
           /\ Len(queue) <= NumBufs + 1 - freeBufs
<1>1. Len(queue) \in Nat
    BY LenProperties DEF RingTypeOK
<1> QED BY <1>1, NumBufsAssumption DEF RingTypeOK, AtMostOneLost, Counted, InPlayer

(* Steps that leave the buffers alone.                                     *)
LEMMA SameBuffers ==
    ASSUME RingInv, UNCHANGED <<freeBufs, nextBuf, queue, called>>,
           pc # "enqueued", pc' # "enqueued", pc # "closed", pc' # "closed"
    PROVE  AtMostOneLost' /\ QueueIsContiguous'
<1>1. AtMostOneLost'
    BY DEF RingInv, AtMostOneLost, Counted, InPlayer
<1>2. QueueIsContiguous'
    BY DEF RingInv, QueueIsContiguous, Lag, BehindNext
<1> QED BY <1>1, <1>2

LEMMA InitRingInv == RingInit => RingInv
<1> SUFFICES ASSUME RingInit PROVE RingInv
    OBVIOUS
<1>1. queue = <<>> /\ Len(queue) = 0 /\ queue \in Seq(Buffers)
    BY EmptySeq DEF RingInit
<1>2. enabled \in BOOLEAN /\ playing \in BOOLEAN /\ called \in BOOLEAN
    BY DEF RingInit
<1>3. pc \in Steps /\ freeBufs \in 0 .. NumBufs /\ nextBuf \in Buffers
    BY NumBufsAssumption DEF RingInit, Steps, Buffers
<1>4. RingTypeOK
    BY <1>1, <1>2, <1>3 DEF RingTypeOK
<1>5. HasFree /\ AtMostOneLost /\ QueueIsContiguous
    BY <1>1, NumBufsAssumption
    DEF RingInit, HasFree, AtMostOneLost, Counted, InPlayer, QueueIsContiguous
<1> QED BY <1>4, <1>5 DEF RingInit, RingInv

LEMMA ThreadSteps ==
    ASSUME RingInv, GetAudioBuf \/ (\E some \in BOOLEAN : Filled(some)) \/ WaitAudio \/ LeaveLoop
    PROVE  RingInv'
<1>1. /\ UNCHANGED <<enabled, freeBufs, nextBuf, queue, playing, called>>
      /\ pc # "enqueued" /\ pc' # "enqueued" /\ pc # "closed" /\ pc' # "closed"
      /\ pc' \in Steps
    BY DEF GetAudioBuf, Filled, WaitAudio, LeaveLoop, Steps
<1>2. AtMostOneLost' /\ QueueIsContiguous'
    BY <1>1, SameBuffers
<1>3. RingTypeOK'
    BY <1>1 DEF RingInv, RingTypeOK
<1>4. HasFree'
    BY <1>1 DEF RingInv, HasFree, GetAudioBuf, Filled, WaitAudio, LeaveLoop
<1>5. pc' = "exit" => ~enabled'
    BY <1>1 DEF GetAudioBuf, Filled, WaitAudio, LeaveLoop
<1> QED BY <1>1, <1>2, <1>3, <1>4, <1>5 DEF RingInv

LEMMA EnqueueStep ==
    ASSUME RingInv, Enqueue
    PROVE  RingInv'
<1> USE NumBufsAssumption
<1>1. RingTypeOK /\ Len(queue) \in Nat /\ Len(queue) < NumBufs /\ freeBufs > 0 /\ nextBuf \in Buffers
    BY QueueIsBounded DEF RingInv, Enqueue, HasFree, RingTypeOK
<1>2. CASE ~enabled
    <2>1. UNCHANGED <<enabled, freeBufs, nextBuf, queue, playing, called>> /\ pc = "play" /\ pc' = "wait"
        BY <1>2 DEF Enqueue
    <2>2. AtMostOneLost' /\ QueueIsContiguous'
        BY <2>1, SameBuffers
    <2> QED BY <2>1, <2>2 DEF RingInv, RingTypeOK, Steps, HasFree
<1>3. CASE enabled
    <2>1. /\ queue' = Append(queue, nextBuf) /\ pc = "play" /\ pc' = "enqueued"
          /\ UNCHANGED <<enabled, freeBufs, nextBuf, playing, called>>
        BY <1>1, <1>3 DEF Enqueue
    <2>2. /\ queue' \in Seq(Buffers) /\ Len(queue') = Len(queue) + 1
          /\ \A i \in 1 .. Len(queue) : queue'[i] = queue[i]
          /\ queue'[Len(queue) + 1] = nextBuf
        BY <1>1, <2>1, AppendProperties DEF RingTypeOK
    <2>3. RingTypeOK'
        BY <2>1, <2>2 DEF RingInv, RingTypeOK, Steps
    <2>4. AtMostOneLost'
        BY <1>1, <2>1, <2>2 DEF RingInv, RingTypeOK, AtMostOneLost, Counted, InPlayer
    <2>5. QueueIsContiguous'
        <3> SUFFICES ASSUME NEW i \in 1 .. Len(queue')
                     PROVE  queue'[i] = BehindNext(Len(queue') - i)
            BY <2>1 DEF QueueIsContiguous, Lag, BehindNext
        <3>1. CASE i \in 1 .. Len(queue)
            <4>1. queue[i] = BehindNext(1 + Len(queue) - i)
                BY <2>1, <3>1 DEF RingInv, QueueIsContiguous, Lag
            <4> QED BY <1>1, <2>2, <3>1, <4>1 DEF BehindNext
        <3>2. CASE i = Len(queue) + 1
            BY <1>1, <2>2, <3>2 DEF BehindNext, Buffers
        <3> QED BY <1>1, <2>2, <3>1, <3>2
    <2> QED BY <1>1, <2>1, <2>3, <2>4, <2>5 DEF RingInv, HasFree
<1> QED BY <1>2, <1>3 DEF RingInv, RingTypeOK

LEMMA TakeBufStep ==
    ASSUME RingInv, TakeBuf
    PROVE  RingInv'
<1> USE NumBufsAssumption
<1>1. /\ RingTypeOK /\ Len(queue) \in Nat /\ freeBufs > 0 /\ nextBuf \in Buffers
      /\ Len(queue) <= NumBufs
    BY QueueIsBounded DEF RingInv, TakeBuf, HasFree, RingTypeOK
<1>2. /\ freeBufs' = freeBufs - 1 /\ nextBuf' = (nextBuf + 1) % NumBufs
      /\ pc = "enqueued" /\ pc' = "wait" /\ UNCHANGED <<enabled, queue, playing, called>>
    BY <1>1 DEF TakeBuf, RingTypeOK
<1>3. nextBuf' = IF nextBuf = NumBufs - 1 THEN 0 ELSE nextBuf + 1
    BY <1>1, <1>2, RingStep
<1>4. RingTypeOK'
    BY <1>1, <1>2, <1>3 DEF RingTypeOK, Steps, Buffers
<1>5. AtMostOneLost'
    BY <1>1, <1>2 DEF RingInv, RingTypeOK, AtMostOneLost, Counted, InPlayer
<1>6. QueueIsContiguous'
    <2> SUFFICES ASSUME NEW i \in 1 .. Len(queue)
                 PROVE  queue[i] = BehindNext(1 + Len(queue) - i)'
        BY <1>2 DEF QueueIsContiguous, Lag, BehindNext
    <2>1. queue[i] = BehindNext(Len(queue) - i)
        BY <1>1, <1>2 DEF RingInv, QueueIsContiguous, Lag
    <2> QED BY <1>1, <1>2, <1>3, <2>1 DEF BehindNext, Buffers
<1> QED BY <1>2, <1>4, <1>5, <1>6 DEF RingInv, HasFree

LEMMA PlayerSteps ==
    ASSUME RingInv, Played \/ BqPlayerCallback
    PROVE  RingInv'
<1> USE NumBufsAssumption
<1>1. CASE Played
    <2>1. /\ Len(queue) \in Nat \ {0} /\ queue' \in Seq(Buffers) /\ Len(queue') = Len(queue) - 1
          /\ \A i \in 1 .. Len(queue') : queue'[i] = queue[i + 1]
        BY <1>1, HeadTailProperties DEF Played, RingInv, RingTypeOK
    <2>2. /\ UNCHANGED <<pc, enabled, freeBufs, nextBuf, playing>> /\ ~called /\ called' /\ pc # "closed"
        BY <1>1 DEF Played, RingInv
    <2>3. RingTypeOK'
        BY <2>1, <2>2 DEF RingInv, RingTypeOK
    <2>4. AtMostOneLost'
        BY <2>1, <2>2 DEF RingInv, RingTypeOK, AtMostOneLost, Counted, InPlayer
    <2>5. QueueIsContiguous'
        BY <2>1, <2>2 DEF RingInv, QueueIsContiguous, Lag, BehindNext
    <2> QED BY <2>2, <2>3, <2>4, <2>5 DEF RingInv, HasFree
<1>2. CASE BqPlayerCallback
    <2>1. /\ called /\ ~called' /\ UNCHANGED <<pc, enabled, nextBuf, queue, playing>> /\ pc # "closed"
          /\ freeBufs' = IF freeBufs + 1 > NumBufs THEN NumBufs ELSE freeBufs + 1
        BY <1>2 DEF BqPlayerCallback, RingInv
    <2>2. Len(queue) \in Nat
        BY LenProperties DEF RingInv, RingTypeOK
    <2>3. freeBufs' \in 0 .. NumBufs /\ freeBufs' >= freeBufs
        BY <2>1 DEF RingInv, RingTypeOK
    <2>4. enabled' \in BOOLEAN /\ playing' \in BOOLEAN /\ called' \in BOOLEAN
        BY <1>2 DEF BqPlayerCallback, RingInv, RingTypeOK
    <2>5. pc' \in Steps /\ nextBuf' \in Buffers /\ queue' \in Seq(Buffers)
        BY <2>1 DEF RingInv, RingTypeOK
    <2>6. RingTypeOK'
        BY <2>3, <2>4, <2>5 DEF RingTypeOK
    <2>7. HasFree'
        BY <2>1, <2>3 DEF RingInv, RingTypeOK, HasFree
    <2>8. AtMostOneLost'
        BY <2>1, <2>2 DEF RingInv, RingTypeOK, AtMostOneLost, Counted, InPlayer
    <2>9. QueueIsContiguous'
        BY <2>1 DEF RingInv, QueueIsContiguous, Lag, BehindNext
    <2> QED BY <2>1, <2>8, <2>9, <2>6, <2>7 DEF RingInv
<1> QED BY <1>1, <1>2

LEMMA EmulatorSteps ==
    ASSUME RingInv, Emulator
    PROVE  RingInv'
<1> USE NumBufsAssumption
<1>1. CASE (\E pause \in BOOLEAN : PauseStream(pause)) \/ AudioQuit
    <2>1. UNCHANGED <<pc, freeBufs, nextBuf, queue, called>> /\ pc # "closed"
        BY <1>1 DEF PauseStream, AudioQuit
    <2>2. enabled' \in BOOLEAN /\ playing' \in BOOLEAN /\ (enabled' => enabled)
        <3>1. ASSUME NEW pause \in BOOLEAN, PauseStream(pause)
              PROVE  enabled' = enabled /\ playing' \in BOOLEAN
            BY <3>1 DEF PauseStream
        <3>2. CASE AudioQuit
            BY <3>2 DEF AudioQuit, RingInv, RingTypeOK
        <3> QED BY <1>1, <3>1, <3>2 DEF RingInv, RingTypeOK
    <2>3. AtMostOneLost' /\ QueueIsContiguous'
        BY <2>1 DEF RingInv, AtMostOneLost, Counted, InPlayer, QueueIsContiguous, Lag, BehindNext
    <2>4. RingTypeOK'
        BY <2>1, <2>2 DEF RingInv, RingTypeOK
    <2> QED BY <2>1, <2>3, <2>2, <2>4 DEF RingInv, HasFree
<1>2. CASE CloseAudio
    <2>1. /\ pc' = "closed" /\ freeBufs' = 0 /\ nextBuf' = 0 /\ queue' = <<>> /\ playing' = FALSE
          /\ called' = FALSE /\ enabled' = FALSE
        BY <1>2 DEF CloseAudio, RingInv, RingTypeOK
    <2>2. enabled' \in BOOLEAN /\ playing' \in BOOLEAN /\ called' \in BOOLEAN
        BY <2>1
    <2>3. pc' \in Steps /\ freeBufs' \in 0 .. NumBufs /\ nextBuf' \in Buffers
        BY <2>1 DEF Steps, Buffers
    <2>4. RingTypeOK'
        BY <2>1, <2>2, <2>3, EmptySeq DEF RingTypeOK
    <2>5. HasFree' /\ AtMostOneLost' /\ QueueIsContiguous'
        BY <2>1, EmptySeq DEF HasFree, AtMostOneLost, QueueIsContiguous
    <2> QED BY <2>1, <2>4, <2>5 DEF RingInv
<1>3. CASE OpenAudio
    <2>1. /\ pc' = "loop" /\ enabled' = TRUE /\ playing' = TRUE /\ called' = FALSE
          /\ freeBufs' = NumBufs /\ nextBuf' = 0 /\ queue' = <<>>
        BY <1>3 DEF OpenAudio, RingInv, RingTypeOK
    <2>2. enabled' \in BOOLEAN /\ playing' \in BOOLEAN /\ called' \in BOOLEAN
        BY <2>1
    <2>3. pc' \in Steps /\ freeBufs' \in 0 .. NumBufs /\ nextBuf' \in Buffers
        BY <2>1 DEF Steps, Buffers
    <2>4. RingTypeOK'
        BY <2>1, <2>2, <2>3, EmptySeq DEF RingTypeOK
    <2>5. HasFree' /\ AtMostOneLost' /\ QueueIsContiguous'
        BY <2>1, EmptySeq DEF HasFree, AtMostOneLost, Counted, InPlayer, QueueIsContiguous
    <2> QED BY <2>1, <2>4, <2>5 DEF RingInv
<1> QED BY <1>1, <1>2, <1>3 DEF Emulator

LEMMA NextRingInv == RingInv /\ [RingNext]_ringVars => RingInv'
<1> SUFFICES ASSUME RingInv, [RingNext]_ringVars PROVE RingInv'
    OBVIOUS
<1>1. CASE AudioThread
    BY <1>1, ThreadSteps, EnqueueStep, TakeBufStep DEF AudioThread
<1>2. CASE Player
    BY <1>2, PlayerSteps DEF Player
<1>3. CASE Emulator
    BY <1>3, EmulatorSteps
<1>4. CASE UNCHANGED ringVars
    BY <1>4
    DEF ringVars, RingInv, RingTypeOK, HasFree, AtMostOneLost, Counted, InPlayer, QueueIsContiguous,
        Lag, BehindNext
<1> QED BY <1>1, <1>2, <1>3, <1>4 DEF RingNext

LEMMA AlwaysRingInv == RingSpec => []RingInv
BY InitRingInv, NextRingInv, PTL DEF RingSpec

(* Every variable keeps its type, the count its bounds.                    *)
THEOREM RingTypes == RingSpec => []RingTypeOK
<1>1. RingInv => RingTypeOK
    BY DEF RingInv
<1> QED BY <1>1, AlwaysRingInv, PTL

(* At most one buffer is lost to a callback that comes early.              *)
THEOREM LosesAtMostOne == RingSpec => []AtMostOneLost
<1>1. RingInv => AtMostOneLost
    BY DEF RingInv
<1> QED BY <1>1, AlwaysRingInv, PTL

(* The player never refuses a buffer: PlayAudio's error cannot occur.      *)
THEOREM PlayerHasRoom == RingSpec => []EnoughBuffers
<1>1. RingInv => EnoughBuffers
    <2> SUFFICES ASSUME RingInv, pc = "play" PROVE Len(queue) < NumBufs
        BY DEF EnoughBuffers
    <2> QED BY QueueIsBounded, NumBufsAssumption DEF RingInv, HasFree, RingTypeOK
<1> QED BY <1>1, AlwaysRingInv, PTL

(* No buffer that is still to be played is written to.                     *)
THEOREM PlayedBuffersAreKept == RingSpec => []NeverFillsWhatPlays
<1>1. RingInv => NeverFillsWhatPlays
    <2> SUFFICES ASSUME RingInv, pc \in {"fill", "play"}, NEW i \in 1 .. Len(queue)
                 PROVE  queue[i] # nextBuf
        BY DEF NeverFillsWhatPlays
    <2>1. Len(queue) \in Nat /\ Len(queue) < NumBufs
        BY QueueIsBounded, NumBufsAssumption DEF RingInv, HasFree, RingTypeOK
    <2>2. queue[i] = BehindNext(1 + Len(queue) - i)
        BY DEF RingInv, QueueIsContiguous, Lag
    <2> QED BY <2>1, <2>2, NumBufsAssumption DEF BehindNext, RingInv, RingTypeOK, Buffers
<1> QED BY <1>1, AlwaysRingInv, PTL
-----------------------------------------------------------------------------
(* There is room for a byte that the driver adds, and a byte for one that  *)
(* the emulator takes: a lost update can only take away from the first     *)
(* and add to the second.                                                  *)
Room ==
    /\ CountInBounds
    /\ wpc \in {"store", "read"} => count < Size
    /\ wpc = "write" => wtmp >= 0
    /\ wpc \in {"store", "read", "write"} => left > 0
    /\ rpc = "write" => rtmp \in 1 .. Size

IInv == TypeOK /\ Room

LEMMA IndexWraps ==
    ASSUME NEW k \in 0 .. Size + Size - 1
    PROVE  k % Size = IF k >= Size THEN k - Size ELSE k
<1>1. CASE k >= Size
    <2>1. k - Size \in 0 .. Size - 1
        BY <1>1, SizeAssumption
    <2> QED BY <1>1, <2>1, SizeAssumption
<1>2. CASE k < Size
    BY <1>2, SizeAssumption
<1> QED BY <1>1, <1>2, SizeAssumption

(* One place on, and any number of places from there.                      *)
LEMMA PlacesAdd ==
    ASSUME NEW a \in 0 .. Size - 1, NEW k \in 0 .. Size - 1
    PROVE  /\ (a + 1) % Size \in 0 .. Size - 1
           /\ (a + k) % Size \in 0 .. Size - 1
           /\ (((a + 1) % Size) + k) % Size = (a + k + 1) % Size
           /\ (((a + k) % Size) + 1) % Size = (a + k + 1) % Size
<1> USE SizeAssumption
<1> DEFINE s == (a + 1) % Size
           t == (a + k) % Size
<1>1. s = IF a + 1 >= Size THEN a + 1 - Size ELSE a + 1
    BY a + 1 \in 0 .. Size + Size - 1, IndexWraps
<1>2. t = IF a + k >= Size THEN a + k - Size ELSE a + k
    BY a + k \in 0 .. Size + Size - 1, IndexWraps
<1>3. (a + k + 1) % Size = IF a + k + 1 >= Size THEN a + k + 1 - Size ELSE a + k + 1
    BY a + k + 1 \in 0 .. Size + Size - 1, IndexWraps
<1> HIDE DEF s, t
<1>4. s + k \in 0 .. Size + Size - 1 /\ t + 1 \in 0 .. Size + Size - 1
    BY <1>1, <1>2
<1>5. (s + k) % Size = IF s + k >= Size THEN s + k - Size ELSE s + k
    BY <1>1, <1>4, IndexWraps
<1>6. (t + 1) % Size = IF t + 1 >= Size THEN t + 1 - Size ELSE t + 1
    BY <1>2, <1>4, IndexWraps
<1>7. (s + k) % Size = (a + k + 1) % Size /\ (t + 1) % Size = (a + k + 1) % Size
    BY <1>1, <1>2, <1>3, <1>5, <1>6
<1>8. s \in 0 .. Size - 1 /\ t \in 0 .. Size - 1
    BY <1>1, <1>2
<1> QED BY <1>7, <1>8 DEF s, t

LEMMA FunctionsAreSeqs ==
    ASSUME NEW S, NEW n \in Nat, NEW f \in [1 .. n -> S]
    PROVE  f \in Seq(S) /\ Len(f) = n
OBVIOUS

LEMMA InitIInv == Init => IInv
<1> SUFFICES ASSUME Init PROVE IInv
    OBVIOUS
<1>1. lock \in BOOLEAN /\ met \in BOOLEAN
    BY DEF Init
<1>2. buf \in [Slots -> Bytes \cup {NoByte}] /\ received \in Bytes \cup {NoByte}
    BY DEF Init
<1>3. readIdx \in Slots /\ writeIdx \in Slots
    BY SizeAssumption DEF Init, Slots
<1>4. TypeOK
    BY <1>1, <1>2, <1>3, MessageAssumption DEF Init, TypeOK
<1>5. Room
    BY SizeAssumption DEF Init, Room, CountInBounds
<1> QED BY <1>4, <1>5 DEF IInv

(* The flags, apart from the numbers.                                      *)
LEMMA FlagTypes ==
    ASSUME TypeOK, [Next]_vars
    PROVE  lock' \in BOOLEAN /\ met' \in BOOLEAN
<1>1. CASE Writer
    BY <1>1
    DEF Writer, WriterTest, WriterSet, WriterCheck, Store, WriterRead, WriterWrite, WriterFree,
        TypeOK
<1>2. CASE Reader
    BY <1>2
    DEF Reader, HasRecvData, TakeByte, ReaderTest, ReaderSet, ReaderRead, ReaderWrite,
        ReaderFree, TypeOK
<1>3. ASSUME NEW n \in 1 .. MaxMessage, Receive(n)
      PROVE  lock' \in BOOLEAN /\ met' \in BOOLEAN
    BY <1>3 DEF Receive, TypeOK
<1>4. CASE UNCHANGED vars
    BY <1>4 DEF vars, TypeOK
<1> QED BY <1>1, <1>2, <1>3, <1>4 DEF Next

LEMMA WriterKeeps ==
    ASSUME IInv, Writer
    PROVE  IInv'
<1> USE SizeAssumption, MessageAssumption DEF IInv, Room, CountInBounds
<1>1. lock' \in BOOLEAN /\ met' \in BOOLEAN
    BY FlagTypes DEF Next
<1>2. UNCHANGED <<rpc, rtmp, readIdx, received>>
    BY DEF Writer, WriterTest, WriterSet, WriterCheck, Store, WriterRead, WriterWrite, WriterFree,
           rvars
<1>3. CASE WriterTest
    BY <1>1, <1>2, <1>3 DEF WriterTest, TypeOK, Behind
<1>4. CASE WriterSet
    BY <1>1, <1>2, <1>4 DEF WriterSet, TypeOK, Behind
<1>5. CASE WriterCheck
    BY <1>1, <1>2, <1>5 DEF WriterCheck, TypeOK, Behind
<1>6. CASE WriterRead
    BY <1>1, <1>2, <1>6 DEF WriterRead, TypeOK, Behind
<1>7. CASE WriterWrite
    BY <1>1, <1>2, <1>7 DEF WriterWrite, TypeOK, Behind
<1>8. CASE WriterFree
    BY <1>1, <1>2, <1>8 DEF WriterFree, TypeOK, Behind
<1>9. ASSUME NEW b \in Bytes, Store(b)
      PROVE  IInv'
    <2>1. writeIdx' \in Slots
        BY <1>9, IndexWraps DEF Store, TypeOK, Slots
    <2>2. buf' \in [Slots -> Bytes \cup {NoByte}]
        BY <1>9 DEF Store, TypeOK
    <2> QED BY <1>1, <1>2, <1>9, <2>1, <2>2 DEF Store, TypeOK, Behind
<1> QED BY <1>3, <1>4, <1>5, <1>6, <1>7, <1>8, <1>9 DEF Writer

LEMMA ReaderKeeps ==
    ASSUME IInv, Reader
    PROVE  IInv'
<1> USE SizeAssumption, MessageAssumption DEF IInv, Room, CountInBounds
<1>1. lock' \in BOOLEAN /\ met' \in BOOLEAN
    BY FlagTypes DEF Next
<1>2. UNCHANGED <<wpc, left, wtmp, writeIdx, buf>>
    BY DEF Reader, HasRecvData, TakeByte, ReaderTest, ReaderSet, ReaderRead, ReaderWrite,
           ReaderFree, wvars
<1>3. CASE HasRecvData
    BY <1>1, <1>2, <1>3 DEF HasRecvData, TypeOK, Behind
<1>4. CASE TakeByte
    <2>1. readIdx \in Slots /\ buf[readIdx] \in Bytes \cup {NoByte}
        BY DEF TypeOK
    <2>2. received' = buf[readIdx] /\ readIdx' = (readIdx + 1) % Size /\ rpc' = "test"
        BY <1>4 DEF TakeByte
    <2>3. readIdx' \in Slots
        BY <2>1, <2>2, IndexWraps DEF Slots
    <2> QED BY <1>1, <1>2, <1>4, <2>1, <2>2, <2>3 DEF TakeByte, TypeOK, Behind
<1>5. CASE ReaderTest
    BY <1>1, <1>2, <1>5 DEF ReaderTest, TypeOK, Behind
<1>6. CASE ReaderSet
    BY <1>1, <1>2, <1>6 DEF ReaderSet, TypeOK, Behind
<1>7. CASE ReaderRead
    BY <1>1, <1>2, <1>7 DEF ReaderRead, TypeOK, Behind
<1>8. CASE ReaderWrite
    BY <1>1, <1>2, <1>8 DEF ReaderWrite, TypeOK, Behind
<1>9. CASE ReaderFree
    BY <1>1, <1>2, <1>9 DEF ReaderFree, TypeOK, Behind
<1> QED BY <1>3, <1>4, <1>5, <1>6, <1>7, <1>8, <1>9 DEF Reader

LEMMA NextIInv == IInv /\ [Next]_vars => IInv'
<1> SUFFICES ASSUME IInv, [Next]_vars PROVE IInv'
    OBVIOUS
<1>1. ASSUME NEW n \in 1 .. MaxMessage, Receive(n)
      PROVE  IInv'
    <2>1. lock' \in BOOLEAN /\ met' \in BOOLEAN
        BY FlagTypes DEF IInv
    <2> QED BY <1>1, <2>1, MessageAssumption
            DEF Receive, IInv, Room, CountInBounds, TypeOK, Behind, rvars
<1>2. CASE UNCHANGED vars
    BY <1>2 DEF vars, wvars, rvars, IInv, Room, CountInBounds, TypeOK
<1> QED BY <1>1, <1>2, WriterKeeps, ReaderKeeps DEF Next

LEMMA AlwaysIInv == Spec => []IInv
BY InitIInv, NextIInv, PTL DEF Spec

(* Every variable keeps its type.                                          *)
THEOREM Types == Spec => []TypeOK
<1>1. IInv => TypeOK
    BY DEF IInv
<1> QED BY <1>1, AlwaysIInv, PTL

(* The count stays within the buffer although updates of it may be lost.   *)
THEOREM CountIsBounded == Spec => []CountInBounds
<1>1. IInv => CountInBounds
    BY DEF IInv, Room
<1> QED BY <1>1, AlwaysIInv, PTL

(* As long as the threads did not meet behind the lock: what one of them   *)
(* read of the count is still the count, and the two indices are the ends  *)
(* of the bytes on their way, with the one being added beyond them.        *)
Adding == IF wpc \in {"read", "write"} THEN 1 ELSE 0
Order ==
    ~met =>
        /\ ~(wpc \in Behind /\ rpc \in Behind)
        /\ wpc = "write" => wtmp = count
        /\ rpc = "write" => rtmp = count
        /\ writeIdx = (readIdx + Length + Adding) % Size
        /\ Adding = 1 => buf[(readIdx + Length) % Size] \in Bytes

LEMMA Lengths ==
    ASSUME IInv, Order, ~met
    PROVE  /\ Length \in 0 .. Size /\ Length + Adding \in 0 .. Size
           /\ wpc \in {"store", "read", "write"} => Length < Size
BY SizeAssumption DEF IInv, TypeOK, Room, CountInBounds, Order, Length, Adding, Behind

LEMMA WaitingIsSeq ==
    ASSUME IInv, Order, ~met
    PROVE  Waiting \in Seq(Bytes \cup {NoByte}) /\ Len(Waiting) = Length
<1>1. Length \in 0 .. Size /\ readIdx \in 0 .. Size - 1 /\ buf \in [0 .. Size - 1 -> Bytes \cup {NoByte}]
    BY Lengths DEF IInv, TypeOK, Slots
<1>2. ASSUME NEW i \in 1 .. Length
      PROVE  buf[(readIdx + i - 1) % Size] \in Bytes \cup {NoByte}
    <2>1. i - 1 \in 0 .. Size - 1 /\ readIdx + (i - 1) = readIdx + i - 1
        BY <1>1, SizeAssumption
    <2>2. (readIdx + (i - 1)) % Size \in 0 .. Size - 1
        BY <1>1, <2>1, PlacesAdd
    <2> QED BY <1>1, <2>1, <2>2
<1>3. Waiting \in [1 .. Length -> Bytes \cup {NoByte}]
    BY <1>2 DEF Waiting
<1> QED BY <1>1, <1>3, FunctionsAreSeqs

LEMMA InitOrder == Init => Order /\ Fifo!Init
<1> SUFFICES ASSUME Init PROVE Order /\ Fifo!Init
    OBVIOUS
<1>1. Length = 0 /\ Adding = 0
    <2>1. rpc \notin {"test", "set", "read", "write"} /\ wpc \notin {"read", "write"}
        BY DEF Init
    <2>2. Length = 0 - 0 /\ Adding = 0
        BY <2>1 DEF Init, Length, Adding
    <2> QED BY <2>2
<1>2. 0 % Size = 0
    BY IndexWraps, SizeAssumption
<1>3. Order
    BY <1>1, <1>2 DEF Init, Order, Behind
<1>4. Waiting = <<>>
    BY <1>1 DEF Waiting
<1> QED BY <1>3, <1>4 DEF Fifo!Init, Init

(* What a step shows of the buffer as a queue.                             *)
Shows == Fifo!Next \/ UNCHANGED <<Waiting, received>>

(* Steps that move no byte and change no number.                           *)
LEMMA QuietSteps ==
    ASSUME UNCHANGED <<buf, count, readIdx, received>>, Length' = Length
    PROVE  Shows
<1>1. Waiting' = Waiting
    BY DEF Waiting
<1> QED BY <1>1 DEF Shows

LEMMA QuietWriter ==
    ASSUME IInv, Order, ~met', WriterTest \/ WriterSet \/ WriterCheck \/ WriterRead \/ WriterFree
    PROVE  Order' /\ Shows
<1>1. UNCHANGED <<rpc, rtmp, readIdx, received, buf, count, writeIdx>>
    BY DEF WriterTest, WriterSet, WriterCheck, WriterRead, WriterFree, rvars
<1>2. ~met
    BY DEF WriterTest, WriterSet, WriterCheck, WriterRead, WriterFree, IInv, TypeOK
<1>3. wpc' \in Behind => wpc \in Behind \/ rpc \notin Behind
    BY DEF WriterTest, WriterSet, WriterCheck, WriterRead, WriterFree, Behind
<1>4. Length' = Length /\ Adding' = Adding
    BY <1>1 DEF WriterTest, WriterSet, WriterCheck, WriterRead, WriterFree, Length, Adding
<1>5. ~(wpc' \in Behind /\ rpc' \in Behind)
    BY <1>1, <1>3, <1>2 DEF Order
<1>6. wpc' = "write" => wtmp' = count'
    BY <1>1 DEF WriterTest, WriterSet, WriterCheck, WriterRead, WriterFree
<1>7. Order'
    BY <1>1, <1>2, <1>4, <1>5, <1>6 DEF Order
<1> QED BY <1>1, <1>4, <1>7, QuietSteps

LEMMA QuietReader ==
    ASSUME IInv, Order, ~met', HasRecvData \/ ReaderTest \/ ReaderSet \/ ReaderRead \/ ReaderFree
    PROVE  Order' /\ Shows
<1>1. UNCHANGED <<wpc, wtmp, readIdx, received, buf, count, writeIdx>>
    BY DEF HasRecvData, ReaderTest, ReaderSet, ReaderRead, ReaderFree, wvars
<1>2. ~met
    BY DEF HasRecvData, ReaderTest, ReaderSet, ReaderRead, ReaderFree, IInv, TypeOK
<1>3. rpc' \in Behind => rpc \in Behind \/ wpc \notin Behind
    BY DEF HasRecvData, ReaderTest, ReaderSet, ReaderRead, ReaderFree, Behind
<1>4. Length' = Length /\ Adding' = Adding
    BY <1>1 DEF HasRecvData, ReaderTest, ReaderSet, ReaderRead, ReaderFree, Length, Adding
<1>5. ~(wpc' \in Behind /\ rpc' \in Behind)
    BY <1>1, <1>3, <1>2 DEF Order
<1>6. rpc' = "write" => rtmp' = count'
    BY <1>1 DEF HasRecvData, ReaderTest, ReaderSet, ReaderRead, ReaderFree
<1>7. Order'
    BY <1>1, <1>2, <1>4, <1>5, <1>6 DEF Order
<1> QED BY <1>1, <1>4, <1>7, QuietSteps

(* A byte is stored beyond those on their way.                             *)
LEMMA StoreStep ==
    ASSUME IInv, Order, ~met', NEW b \in Bytes, Store(b)
    PROVE  Order' /\ Shows
<1> USE SizeAssumption
<1>1. /\ UNCHANGED <<rpc, rtmp, readIdx, received, count, met>> /\ ~met
      /\ wpc = "store" /\ wpc' = "read" /\ buf' = [buf EXCEPT ![writeIdx] = b]
      /\ writeIdx' = (writeIdx + 1) % Size /\ Adding = 0 /\ Adding' = 1
    BY DEF Store, rvars, Adding
<1>2. Length' = Length
    BY <1>1 DEF Length
<1>3. /\ Length \in 0 .. Size - 1 /\ readIdx \in 0 .. Size - 1 /\ writeIdx \in 0 .. Size - 1
      /\ buf \in [0 .. Size - 1 -> Bytes \cup {NoByte}]
    BY <1>1, Lengths DEF IInv, TypeOK, Slots
<1>4. writeIdx = (readIdx + Length) % Size
    BY <1>1, <1>3 DEF Order
<1>5. writeIdx' = (readIdx + Length + 1) % Size
    BY <1>1, <1>3, <1>4, PlacesAdd
<1>6. buf'[(readIdx + Length) % Size] = b
    BY <1>1, <1>3, <1>4
<1>7. Order'
    BY <1>1, <1>2, <1>5, <1>6 DEF Order, Behind
<1>8. Waiting' = Waiting
    <2>1. ASSUME NEW i \in 1 .. Length
          PROVE  buf'[(readIdx + i - 1) % Size] = buf[(readIdx + i - 1) % Size]
        <3>1. readIdx + i - 1 \in 0 .. Size + Size - 1 /\ readIdx + Length \in 0 .. Size + Size - 1
            BY <1>3
        <3>2. (readIdx + i - 1) % Size # writeIdx /\ (readIdx + i - 1) % Size \in 0 .. Size - 1
            BY <1>3, <1>4, <3>1, IndexWraps
        <3> QED BY <1>1, <1>3, <3>2
    <2> QED BY <1>1, <1>2, <2>1 DEF Waiting
<1> QED BY <1>1, <1>7, <1>8 DEF Shows

(* The count makes the byte one of the queue.                              *)
LEMMA WriteStep ==
    ASSUME IInv, Order, ~met', WriterWrite
    PROVE  Order' /\ Shows
<1> USE SizeAssumption
<1>1. /\ UNCHANGED <<rpc, rtmp, readIdx, received, buf, writeIdx, met>> /\ ~met
      /\ wpc = "write" /\ wpc' = "check" /\ count' = wtmp + 1 /\ wtmp = count
      /\ Adding = 1 /\ Adding' = 0 /\ rpc # "write"
    BY DEF WriterWrite, rvars, Adding, Order, Behind
<1>2. /\ Length \in 0 .. Size - 1 /\ readIdx \in 0 .. Size - 1 /\ count \in Int
    BY <1>1, Lengths DEF IInv, TypeOK, Slots
<1>3. Length' = Length + 1
    BY <1>1, <1>2 DEF Length
<1>4. writeIdx' = (readIdx' + Length' + Adding') % Size
    BY <1>1, <1>2, <1>3 DEF Order
<1>5. Order'
    BY <1>1, <1>3, <1>4 DEF Order, Behind
<1> DEFINE b == buf[(readIdx + Length) % Size]
<1>6. b \in Bytes
    BY <1>1 DEF Order
<1>7. Len(Waiting) = Length /\ Waiting \in Seq(Bytes \cup {NoByte})
    BY <1>1, WaitingIsSeq
<1>8. Waiting' = Append(Waiting, b)
    <2>1. Waiting' = [i \in 1 .. Length + 1 |-> buf[(readIdx + i - 1) % Size]]
        BY <1>1, <1>3 DEF Waiting
    <2>2. Append(Waiting, b) = [i \in 1 .. Length + 1 |-> IF i = Length + 1 THEN b ELSE Waiting[i]]
        BY <1>2, <1>7
    <2>3. ASSUME NEW i \in 1 .. Length + 1
          PROVE  buf[(readIdx + i - 1) % Size] = IF i = Length + 1 THEN b ELSE Waiting[i]
        <3>1. CASE i = Length + 1
            <4>1. readIdx + i - 1 = readIdx + Length
                BY <1>2, <3>1
            <4> QED BY <3>1, <4>1
        <3>2. CASE i # Length + 1
            <4>1. i \in 1 .. Length
                BY <1>2, <3>2
            <4> QED BY <3>2, <4>1 DEF Waiting
        <3> QED BY <3>1, <3>2
    <2> HIDE DEF b
    <2> QED BY <2>1, <2>2, <2>3
<1>9. Fifo!Put(b)
    BY <1>1, <1>2, <1>7, <1>8 DEF Fifo!Put
<1> QED BY <1>5, <1>6, <1>9 DEF Shows, Fifo!Next

(* The emulator takes the first byte.                                      *)
LEMMA TakeStep ==
    ASSUME IInv, Order, ~met', TakeByte
    PROVE  Order' /\ Shows
<1> USE SizeAssumption
<1>1. /\ UNCHANGED <<wpc, wtmp, writeIdx, buf, count, met>> /\ ~met
      /\ rpc = "take" /\ rpc' = "test" /\ received' = buf[readIdx]
      /\ readIdx' = (readIdx + 1) % Size /\ Adding' = Adding
    BY DEF TakeByte, wvars, Adding, IInv, Room, CountInBounds
<1>2. /\ Length \in 1 .. Size /\ readIdx \in 0 .. Size - 1 /\ count \in Int
      /\ Adding \in 0 .. 1 /\ Length + Adding \in 0 .. Size
    BY <1>1, Lengths DEF IInv, TypeOK, Room, CountInBounds, Slots, Length, Adding
<1>3. Length' = Length - 1
    BY <1>1, <1>2 DEF Length
<1>4. ASSUME NEW k \in 0 .. Size - 1
      PROVE  (readIdx' + k) % Size = (readIdx + k + 1) % Size
    BY <1>1, <1>2, PlacesAdd
<1>5. writeIdx' = (readIdx' + Length' + Adding') % Size
    <2>1. Length - 1 + Adding \in 0 .. Size - 1
        BY <1>2
    <2>2. (readIdx' + (Length - 1 + Adding)) % Size = (readIdx + (Length - 1 + Adding) + 1) % Size
        BY <1>4, <2>1
    <2>3. /\ readIdx + (Length - 1 + Adding) + 1 = readIdx + Length + Adding
          /\ readIdx' + (Length - 1 + Adding) = readIdx' + Length' + Adding'
        BY <1>1, <1>2, <1>3, IndexWraps
    <2> QED BY <1>1, <2>2, <2>3 DEF Order
<1>6. Adding' = 1 => buf'[(readIdx' + Length') % Size] \in Bytes
    <2>1. (readIdx' + (Length - 1)) % Size = (readIdx + (Length - 1) + 1) % Size
        BY <1>2, <1>4
    <2>2. readIdx + (Length - 1) + 1 = readIdx + Length
        BY <1>2
    <2> QED BY <1>1, <1>3, <2>1, <2>2 DEF Order
<1>7. Order'
    BY <1>1, <1>5, <1>6 DEF Order, Behind
<1>8. /\ Len(Waiting) = Length /\ Waiting \in Seq(Bytes \cup {NoByte})
      /\ Waiting # <<>> /\ Head(Waiting) = buf[readIdx]
    <2>1. /\ Len(Waiting) = Length /\ Waiting \in Seq(Bytes \cup {NoByte})
          /\ Waiting[1] = buf[(readIdx + 1 - 1) % Size]
        BY <1>1, <1>2, WaitingIsSeq DEF Waiting
    <2>2. (readIdx + 1 - 1) % Size = readIdx
        BY <1>2, IndexWraps
    <2> QED BY <1>2, <2>1, <2>2
<1>9. Waiting' = Tail(Waiting)
    <2>1. /\ Tail(Waiting) \in Seq(Bytes \cup {NoByte}) /\ Len(Tail(Waiting)) = Length - 1
          /\ \A i \in 1 .. Length - 1 : Tail(Waiting)[i] = Waiting[i + 1]
        BY <1>8, HeadTailProperties
    <2>2. ASSUME NEW i \in 1 .. Length - 1
          PROVE  buf'[(readIdx' + i - 1) % Size] = Waiting[i + 1]
        <3>1. i - 1 \in 0 .. Size - 1 /\ i + 1 \in 1 .. Length
            BY <1>2
        <3>2. (readIdx' + (i - 1)) % Size = (readIdx + (i - 1) + 1) % Size
            BY <1>4, <3>1
        <3>3. /\ readIdx' + (i - 1) = readIdx' + i - 1
              /\ readIdx + (i - 1) + 1 = readIdx + (i + 1) - 1
            BY <1>1, <1>2, IndexWraps
        <3> QED BY <1>1, <3>1, <3>2, <3>3 DEF Waiting
    <2>3. Waiting' = [i \in 1 .. Length - 1 |-> buf'[(readIdx' + i - 1) % Size]]
        BY <1>3 DEF Waiting
    <2>4. \A i \in 1 .. Length - 1 : Waiting[i + 1] \in Bytes \cup {NoByte}
        BY <1>2, <1>8
    <2>5. Waiting' \in [1 .. Length - 1 -> Bytes \cup {NoByte}]
        BY <2>2, <2>3, <2>4
    <2>6. Waiting' \in Seq(Bytes \cup {NoByte}) /\ Len(Waiting') = Length - 1
        BY <1>2, <2>5, FunctionsAreSeqs
    <2>7. \A i \in 1 .. Length - 1 : Waiting'[i] = Tail(Waiting)[i]
        BY <2>1, <2>2, <2>3
    <2> QED BY <2>1, <2>6, <2>7, SeqEqual
<1> QED BY <1>1, <1>7, <1>8, <1>9 DEF Shows, Fifo!Next, Fifo!Take

(* The emulator counts the byte it took.                                   *)
LEMMA CountStep ==
    ASSUME IInv, Order, ~met', ReaderWrite
    PROVE  Order' /\ Shows
<1>1. /\ UNCHANGED <<wpc, wtmp, writeIdx, buf, readIdx, received, met>> /\ ~met
      /\ rpc = "write" /\ rpc' = "free" /\ count' = rtmp - 1 /\ rtmp = count /\ count \in Int
      /\ wpc \notin Behind /\ Adding' = Adding
    BY DEF ReaderWrite, wvars, Adding, Order, Behind, IInv, TypeOK
<1>2. Length' = Length
    BY <1>1 DEF Length
<1>3. Order'
    BY <1>1, <1>2 DEF Order, Behind
<1>4. Waiting' = Waiting
    BY <1>1, <1>2 DEF Waiting
<1> QED BY <1>1, <1>3, <1>4 DEF Shows

LEMMA NextOrder ==
    ASSUME IInv, Order, [Next]_vars
    PROVE  Order' /\ (Fifo!Next \/ met' \/ UNCHANGED <<Waiting, received>>)
<1>1. CASE met'
    BY <1>1 DEF Order
<1>2. CASE ~met'
    <2>1. CASE Writer
        BY <1>2, <2>1, QuietWriter, StoreStep, WriteStep DEF Writer, Shows
    <2>2. CASE Reader
        BY <1>2, <2>2, QuietReader, TakeStep, CountStep DEF Reader, Shows
    <2>3. ASSUME NEW n \in 1 .. MaxMessage, Receive(n)
          PROVE  Order' /\ Shows
        <3>1. /\ UNCHANGED <<rvars, buf, count, writeIdx, met, wtmp>> /\ Length' = Length
              /\ Adding' = Adding /\ wpc' = "test"
            BY <2>3 DEF Receive, rvars, Length, Adding
        <3>2. Order'
            BY <3>1 DEF Order, rvars, Behind
        <3> QED BY <3>1, <3>2, QuietSteps DEF rvars
    <2>4. CASE UNCHANGED vars
        BY <2>4 DEF vars, wvars, rvars, Order, Length, Adding, Waiting
    <2> QED BY <2>1, <2>2, <2>3, <2>4 DEF Next, Shows
<1> QED BY <1>1, <1>2

(* Until both threads were behind the lock at once, the buffer is a queue. *)
THEOREM IsAFifoUntilMet == Spec => FifoUntilMet
<1>1. Init => Fifo!Init /\ IInv /\ Order
    BY InitIInv, InitOrder
<1>2. IInv /\ Order /\ [Next]_vars => IInv' /\ Order'
    BY NextIInv, NextOrder
<1>3. IInv /\ Order /\ [Next]_vars => [Fifo!Next \/ met']_<<Waiting, received>>
    BY NextOrder
<1> QED BY <1>1, <1>2, <1>3, PTL DEF Spec, FifoUntilMet

(* A byte is given up only for want of room.                               *)
THEOREM DropsForWantOfRoom == Spec => DropsOnlyWhenFull
<1>1. IInv => (WriterCheck /\ left > 0 /\ wpc' = "free" => Length >= Size - 1 \/ met)
    <2> SUFFICES ASSUME IInv, WriterCheck, left > 0, wpc' = "free"
                 PROVE  Length >= Size - 1
        OBVIOUS
    <2>1. count \in Int /\ count >= Size /\ Size \in Nat
        BY SizeAssumption DEF IInv, TypeOK, WriterCheck
    <2> QED BY <2>1 DEF Length
<1> QED BY <1>1, InitIInv, NextIInv, PTL DEF Spec, DropsOnlyWhenFull
=============================================================================

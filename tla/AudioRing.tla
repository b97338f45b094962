----------------------------- MODULE AudioRing -----------------------------
(***************************************************************************)
(* The buffers between SDL's audio thread and the player of OpenSL ES      *)
(* (SDL_android_opensles_audio.c): the thread fills audioBufs[nextBuf],    *)
(* enqueues it and waits for a free one; the player calls back for each    *)
(* buffer it has played.  A mutex guards the count of free buffers, but    *)
(* not the time between Enqueue and the decrement.                         *)
(* What is in a buffer, the mute and the rate are left out; whether the    *)
(* fill callback has anything for a buffer is left open.                   *)
(***************************************************************************)
EXTENDS Integers, Sequences

CONSTANTS NumBufs           \* numBufs
ASSUME NumBufsAssumption == NumBufs \in Nat /\ NumBufs >= 2

VARIABLES
    pc,         \* what the audio thread does, "closed" when there is none
    enabled,    \* audio->enabled
    freeBufs, nextBuf,
    queue,      \* the player's queue: indices of buffers, that being played first
    playing,    \* the player's state: playing or paused
    called      \* the player is about to call bqPlayerCallback

ringVars == <<pc, enabled, freeBufs, nextBuf, queue, playing, called>>

Buffers == 0 .. NumBufs - 1
Steps == {"loop", "fill", "play", "enqueued", "wait", "exit", "closed"}

RingTypeOK ==
    /\ pc \in Steps /\ enabled \in BOOLEAN /\ playing \in BOOLEAN /\ called \in BOOLEAN
    /\ freeBufs \in 0 .. NumBufs /\ nextBuf \in Buffers
    /\ queue \in Seq(Buffers)

(* createBufferQueueAudioPlayer, playStream and the start of the thread.   *)
RingInit ==
    /\ pc = "loop" /\ enabled = TRUE /\ playing = TRUE /\ called = FALSE
    /\ freeBufs = NumBufs /\ nextBuf = 0 /\ queue = <<>>
-----------------------------------------------------------------------------
(* SDL_RunAudio: GetAudioBuf and the fill callback write to the buffer.    *)
GetAudioBuf ==
    /\ pc = "loop" /\ enabled
    /\ pc' = "fill"
    /\ UNCHANGED <<enabled, freeBufs, nextBuf, queue, playing, called>>

Filled(some) ==
    /\ pc = "fill"
    /\ pc' = IF some THEN "play" ELSE "wait"
    /\ UNCHANGED <<enabled, freeBufs, nextBuf, queue, playing, called>>

(* PlayAudio.  The player refuses a buffer when its queue is full, and     *)
(* the result only makes a message.                                        *)
Enqueue ==
    /\ pc = "play"
    /\ pc' = IF enabled THEN "enqueued" ELSE "wait"
    /\ queue' = IF enabled /\ Len(queue) < NumBufs THEN Append(queue, nextBuf) ELSE queue
    /\ UNCHANGED <<enabled, freeBufs, nextBuf, playing, called>>

(* Mutant: the count is not decremented.                                   *)
CountKept ==
    /\ pc = "enqueued"
    /\ nextBuf' = (nextBuf + 1) % NumBufs
    /\ pc' = "wait"
    /\ UNCHANGED <<enabled, freeBufs, queue, playing, called>>

TakeBuf ==
    /\ pc = "enqueued"
    /\ freeBufs' = IF freeBufs - 1 < 0 THEN 0 ELSE freeBufs - 1
    /\ nextBuf' = (nextBuf + 1) % NumBufs
    /\ pc' = "wait"
    /\ UNCHANGED <<enabled, queue, playing, called>>

(* Mutants: the thread goes on with no buffer free; it waits for one even  *)
(* when it is told to end.                                                 *)
WaitOffByOne ==
    /\ pc = "wait"
    /\ enabled => freeBufs >= 0
    /\ pc' = "loop"
    /\ UNCHANGED <<enabled, freeBufs, nextBuf, queue, playing, called>>

WaitDeaf ==
    /\ pc = "wait" /\ freeBufs > 0
    /\ pc' = "loop"
    /\ UNCHANGED <<enabled, freeBufs, nextBuf, queue, playing, called>>

(* WaitAudio polls the count without the mutex.                            *)
WaitAudio ==
    /\ pc = "wait"
    /\ enabled => freeBufs > 0
    /\ pc' = "loop"
    /\ UNCHANGED <<enabled, freeBufs, nextBuf, queue, playing, called>>

LeaveLoop ==
    /\ pc = "loop" /\ ~enabled
    /\ pc' = "exit"
    /\ UNCHANGED <<enabled, freeBufs, nextBuf, queue, playing, called>>
-----------------------------------------------------------------------------
(* The player has played a buffer, and calls back.                         *)
Played ==
    /\ playing /\ ~called /\ queue # <<>>
    /\ queue' = Tail(queue) /\ called' = TRUE
    /\ UNCHANGED <<pc, enabled, freeBufs, nextBuf, playing>>

(* Mutant: the count is bounded one too low.                               *)
BoundedTooLow ==
    /\ called
    /\ freeBufs' = IF freeBufs + 1 >= NumBufs THEN NumBufs - 1 ELSE freeBufs + 1
    /\ called' = FALSE
    /\ UNCHANGED <<pc, enabled, nextBuf, queue, playing>>

BqPlayerCallback ==
    /\ called
    /\ freeBufs' = IF freeBufs + 1 > NumBufs THEN NumBufs ELSE freeBufs + 1
    /\ called' = FALSE
    /\ UNCHANGED <<pc, enabled, nextBuf, queue, playing>>
-----------------------------------------------------------------------------
(* The emulator's thread: SDL_PauseAudioStream when the program pauses and *)
(* resumes.                                                                *)
PauseStream(pause) ==
    /\ pc # "closed"
    /\ playing' = ~pause
    /\ UNCHANGED <<pc, enabled, freeBufs, nextBuf, queue, called>>

(* SDL_AudioQuit: the thread is told to end; once it has, the player is    *)
(* destroyed, which waits for a callback under way.                        *)
AudioQuit ==
    /\ pc # "closed" /\ enabled
    /\ enabled' = FALSE
    /\ UNCHANGED <<pc, freeBufs, nextBuf, queue, playing, called>>

CloseAudio ==
    /\ pc = "exit" /\ ~called
    /\ pc' = "closed"
    /\ freeBufs' = 0 /\ nextBuf' = 0 /\ queue' = <<>> /\ playing' = FALSE
    /\ UNCHANGED <<enabled, called>>

OpenAudio ==
    /\ pc = "closed"
    /\ pc' = "loop" /\ enabled' = TRUE /\ playing' = TRUE
    /\ freeBufs' = NumBufs /\ nextBuf' = 0 /\ queue' = <<>>
    /\ UNCHANGED called
-----------------------------------------------------------------------------
AudioThread ==
    \/ GetAudioBuf \/ \E some \in BOOLEAN : Filled(some)
    \/ Enqueue \/ TakeBuf \/ WaitAudio \/ LeaveLoop

Player == Played \/ BqPlayerCallback

Emulator ==
    \/ \E pause \in BOOLEAN : PauseStream(pause)
    \/ AudioQuit \/ CloseAudio \/ OpenAudio

RingNext == AudioThread \/ Player \/ Emulator

(* Both threads are scheduled, and CloseAudio follows the end of the       *)
(* thread in the same function.  Nothing makes the emulator do the rest.   *)
RingSpec ==
    /\ RingInit /\ [][RingNext]_ringVars
    /\ WF_ringVars(AudioThread) /\ WF_ringVars(Player) /\ WF_ringVars(CloseAudio)
-----------------------------------------------------------------------------
(* The buffer that the audio thread fills is not one that the player is    *)
(* yet to play, nor has the thread one to fill at the end of its loop.     *)
NeverFillsWhatPlays ==
    pc \in {"fill", "play"} => \A i \in 1 .. Len(queue) : queue[i] # nextBuf

(* "there should be enough buffers" (PlayAudio): the player never refuses  *)
(* a buffer.                                                               *)
EnoughBuffers == pc = "play" => Len(queue) < NumBufs

(* The buffers are counted: a callback that comes before the decrement     *)
(* for its own buffer, when all others are free, is lost at the upper      *)
(* bound, and with it one buffer until the device is opened again; but     *)
(* never a second one, so that the thread can always go on.                *)
InPlayer == Len(queue) + (IF called THEN 1 ELSE 0)
Counted == freeBufs - (IF pc = "enqueued" THEN 1 ELSE 0)
AtMostOneLost ==
    pc # "closed" => Counted + InPlayer \in {NumBufs - 1, NumBufs}

(* A wait for a free buffer ends, unless the stream is paused; and when    *)
(* the device is closed the thread ends even then, so that SDL_WaitThread  *)
(* returns.                                                                *)
WaitsEnd ==
    /\ (pc = "wait") ~> (pc # "wait" \/ ~playing)
    /\ ~enabled ~> (pc = "closed")
=============================================================================

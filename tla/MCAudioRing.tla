---------------------------- MODULE MCAudioRing ----------------------------
(***************************************************************************)
(* AudioRing for TLC.  The number of buffers is two unless the frames of   *)
(* audio are short (createBufferQueueAudioPlayer); with three, the ring    *)
(* has a buffer that is neither filled nor played.                         *)
(***************************************************************************)
EXTENDS AudioRing
=============================================================================

---------------------------- MODULE MCEmuBridge ----------------------------
(***************************************************************************)
(* EmuBridge for TLC: sets of requests that are small enough to check      *)
(* together.                                                               *)
(***************************************************************************)
EXTENDS EmuBridge

SavesAndLoads == {"load", "quicksave", "autosave"}
JustExit == {"quicksave", "autosave"}
AllButExit == Kinds \cup {"save"}
=============================================================================

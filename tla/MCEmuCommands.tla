--------------------------- MODULE MCEmuCommands ---------------------------
(***************************************************************************)
(* EmuCommands for TLC: the activity's and the renderer's threads add two  *)
(* commands each.                                                          *)
(***************************************************************************)
EXTENDS EmuCommands

MCProducers == {"ui", "gl"}
=============================================================================

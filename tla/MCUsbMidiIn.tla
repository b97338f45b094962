---------------------------- MODULE MCUsbMidiIn ----------------------------
(***************************************************************************)
(* UsbMidiIn for TLC: a buffer shorter than a message of three bytes and   *)
(* the one after it, so that it wraps and fills; two bytes tell the order  *)
(* apart.                                                                  *)
(***************************************************************************)
EXTENDS UsbMidiIn
=============================================================================

----------------------------- MODULE MCUartRing -----------------------------
(* Small instances of UartRing for TLC: the .cfg files give the constants. *)
EXTENDS UartRing
=============================================================================

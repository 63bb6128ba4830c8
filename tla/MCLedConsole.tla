---------------------------- MODULE MCLedConsole ----------------------------
(* Small instances of LedConsole for TLC: the .cfg files give the constants. *)
EXTENDS LedConsole

\* 'F', ':', Enter, DEL
SomeKeys == {70, COLON, ENTER, DEL}
=============================================================================

--------------------------- MODULE MCInputThread ---------------------------
(* Small instances of InputThread.                                          *)
EXTENDS InputThread

CONSTANTS d1, d2
=============================================================================

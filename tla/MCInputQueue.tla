---------------------------- MODULE MCInputQueue ---------------------------
(* Small instances of InputQueue.                                           *)
EXTENDS InputQueue

CONSTANTS d1, d2
=============================================================================

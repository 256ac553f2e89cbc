----------------------------- MODULE MCOsTimers ----------------------------
(* Model values and bounds for OsTimers.                                    *)
EXTENDS OsTimers
(* The clock jumps back by less and by more than the margin.               *)
SmallJumps == {1, 4}
OneDelay == {3}
OneOffset == {-1}
=============================================================================

--------------------------- MODULE MCPresentWnmd ---------------------------
(* Model values and bounds for PresentWnmd: flips, copies, and asynchronous *)
(* updates that wait for a fence, with pixmaps of two sizes.                *)
EXTENDS PresentWnmd

CONSTANTS p1, p3

Plain == [kind |-> "pixmap", async |-> FALSE, copy |-> FALSE, update |-> FALSE, wait |-> FALSE]
Copy == [Plain EXCEPT !.copy = TRUE]
AsyncWait == [Plain EXCEPT !.async = TRUE, !.wait = TRUE, !.update = TRUE]
Various == {Plain, Copy, AsyncWait}

Mixed == [p \in Pixmaps |-> IF p = p3 THEN 2 ELSE 1]
=============================================================================

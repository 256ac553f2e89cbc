---------------------------- MODULE MCPresentScmd ----------------------------
(* Small instances of PresentScmd.                                          *)
EXTENDS PresentScmd

CONSTANTS w1, w2, p1, p2, f1

Plain   == [async |-> FALSE, copy |-> FALSE, update |-> FALSE]
Async   == [async |-> TRUE,  copy |-> FALSE, update |-> FALSE]
Partial == [async |-> FALSE, copy |-> FALSE, update |-> TRUE]
Copy    == [async |-> FALSE, copy |-> TRUE,  update |-> FALSE]

PlainOrAsync    == {Plain, Async}
PlainOrPartial  == {Plain, Partial}
PlainOrCopy     == {Plain, Copy}

NoModulus  == {<<0, 0>>}
EvenFrames == {<<0, 0>>, <<2, 0>>}
=============================================================================

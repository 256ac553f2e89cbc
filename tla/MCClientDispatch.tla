-------------------------- MODULE MCClientDispatch --------------------------
(* Model values and bounds for ClientDispatch.                              *)
EXTENDS ClientDispatch, TLC
Symmetry == Permutations(Clients)
(* Neither imperviousness given up nor failing writes: the README says what *)
(* they break.                                                              *)
Most == AllKinds \ {"pervious", "fail"}
=============================================================================

------------------------------- MODULE MCToken -------------------------------
(* Instances of Token for TLC.  A negative lifetime is one the service     *)
(* clamps to zero.                                                         *)
EXTENDS Token

MCLifetimes == {-1, 0, 2, 4}
=============================================================================

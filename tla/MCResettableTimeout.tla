------------------------ MODULE MCResettableTimeout ------------------------
(* Instances of ResettableTimeout for TLC.                                 *)
EXTENDS ResettableTimeout
=============================================================================

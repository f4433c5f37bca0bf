------------------------------ MODULE MCKermit ------------------------------
(* Model checking of Kermit; the constants get their values in the cfgs. *)
EXTENDS KermitInv
=============================================================================

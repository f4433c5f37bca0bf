------------------------------ MODULE MCYmodem ------------------------------
(* Model checking of Ymodem; the constants get their values in the cfgs. *)
EXTENDS YmodemInv
=============================================================================

---------------------------- MODULE MCKermitCodec ----------------------------
(* Model checking of KermitCodec: bytes of every kind the coding knows, and  *)
(* a frame with or without noise before it.                                  *)
EXTENDS KermitCodec

SomeNoises == {<<>>, <<65, 13>>}
=============================================================================

-------------------------- MODULE MCDummyGenerator --------------------------
(* DummyGenerator with values for its constants. *)
EXTENDS DummyGenerator
=============================================================================

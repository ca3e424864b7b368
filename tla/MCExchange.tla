----------------------------- MODULE MCExchange -----------------------------
(* Exchange with values for its constants. *)
EXTENDS Exchange
=============================================================================

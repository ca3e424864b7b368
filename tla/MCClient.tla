------------------------------ MODULE MCClient ------------------------------
(* Client with values for its constants. *)
EXTENDS Client
=============================================================================

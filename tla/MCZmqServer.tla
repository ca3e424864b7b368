---------------------------- MODULE MCZmqServer ----------------------------
(* ZmqServer with values for its constants. *)
EXTENDS ZmqServer, TLC

\* Clients are interchangeable.
ClientSymmetry == Permutations(Identity)
=============================================================================

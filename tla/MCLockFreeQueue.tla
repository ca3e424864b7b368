-------------------------- MODULE MCLockFreeQueue --------------------------
(* The ring buffer with values for its constants. *)
EXTENDS LockFreeQueue
=============================================================================

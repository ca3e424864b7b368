-------------------------- MODULE MCMatchingEngine --------------------------
(* Instance of the matching engine for TLC. *)
EXTENDS MatchingEngine, TLC

\* Sessions are interchangeable but for the dummy generator's.
SessionSymmetry == Permutations(Session \ {DUMMY_SESSION_ID})
=============================================================================

---------------------------- MODULE MCAuthState ----------------------------
(* A small instance of AuthUpdates for TLC.                                *)
EXTENDS AuthUpdates, TLC

Symmetry == Permutations(Models)
=============================================================================

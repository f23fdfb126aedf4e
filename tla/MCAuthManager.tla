--------------------------- MODULE MCAuthManager ---------------------------
(* Small instances of AuthManager for TLC.                                 *)
EXTENDS AuthManager, TLC

CONSTANT MaxBusy    \* bound: handlers that run at the same time

Symmetry == Permutations(Workers)

FewBusy == Cardinality({t \in Threads : Busy(t)'}) <= MaxBusy
=============================================================================

-------------------------- MODULE MCModelRegistry --------------------------
(* Small instances of ModelRegistry for TLC.                               *)
EXTENDS ModelRegistry, TLC

CONSTANT MaxMarks    \* bound: quota and suspension marks at a time

Symmetry == Permutations(Clients) \cup Permutations(Models)

Marks ==
    Cardinality({b \in Clients \X Models : models[b[2]].quota[b[1]] # None})
  + Cardinality({b \in Clients \X Models : models[b[2]].suspended[b[1]] # None})

WithinBounds == Marks <= MaxMarks

StaysWithinBounds == WithinBounds'
=============================================================================

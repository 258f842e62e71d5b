--------------------------- MODULE MCAtomicApply ---------------------------
(* AtomicApply instantiated for TLC, with the symmetries of MCApply.       *)
EXTENDS AtomicApply, TLC

NameSymmetry == Permutations(Name)

Symmetry == NameSymmetry \cup Permutations(Proc)
=============================================================================

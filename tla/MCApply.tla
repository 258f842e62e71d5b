------------------------------ MODULE MCApply ------------------------------
(* Apply instantiated for TLC: names of temporary files are               *)
(* interchangeable, and so are processes that share a configuration.      *)
EXTENDS Apply, TLC

NameSymmetry == Permutations(Name)

Symmetry == NameSymmetry \cup Permutations(Proc)
=============================================================================

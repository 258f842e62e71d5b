-------------------------- MODULE MCUnixDurability --------------------------
(* UnixDurability instantiated for TLC: file numbers and stage names are   *)
(* interchangeable.                                                        *)
EXTENDS UnixDurability, TLC

Symmetry == Permutations(Ino) \cup Permutations(Stage)
=============================================================================

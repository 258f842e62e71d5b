--------------------------- MODULE MCAttestation ---------------------------
(***************************************************************************)
(* Attestation on small lists.  Its constants are numbers, so they are     *)
(* given in the configurations; nothing is symmetric, for the order of the *)
(* attestations is what matters.                                           *)
(***************************************************************************)
EXTENDS Attestation
=============================================================================

------------------------------ MODULE MCEaPoll ------------------------------
(* Instances of EaPoll for TLC.                                            *)
EXTENDS EaPoll, TLC

CONSTANTS p1, p2

Symmetry == Permutations(Pollers)
=============================================================================

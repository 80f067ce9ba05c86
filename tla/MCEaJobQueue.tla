---------------------------- MODULE MCEaJobQueue ----------------------------
(* Instances of EaJobQueue for TLC.                                        *)
EXTENDS EaJobQueue, TLC

CONSTANTS w1, w2

Symmetry == Permutations(Workers)
=============================================================================

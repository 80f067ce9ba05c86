---------------------------- MODULE MCEaSendPath ----------------------------
(* Instances of EaSendPath for TLC.                                        *)
EXTENDS EaSendPath, TLC

CONSTANTS e1, e2, a1, a2, t1, t2, f1, f2, p1, u1, u2, w1, w2

\* One email of an outreach sequence, whose recipient can be edited.
MCProspectOf == [e \in Emails |-> IF p1 \in Prospects THEN p1 ELSE NoProspect]
MCProspectAddress == [p \in Prospects |-> a1]

Symmetry == Permutations(Workers)
=============================================================================

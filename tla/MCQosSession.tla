---------------------------- MODULE MCQosSession ----------------------------
(* Instances of QosSession for TLC. *)
EXTENDS QosSession, TLC

CONSTANTS t1, t2, t3, t4, a1, a2, i1, i2, i3, i4, p1, p2, c1, c2, c3

Symmetry == Permutations(Tasks) \cup Permutations(Afs)
                \cup Permutations(Ids) \cup Permutations(Ctxs)
=============================================================================

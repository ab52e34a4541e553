---------------------------- MODULE MCRuntimeNode ----------------------------
(* RuntimeNode on one node whose requests come from two clients. *)
EXTENDS RuntimeNode, TLC

CONSTANTS n1, c1, c2, d1, d1x, d2, i1, i2

\* d1 and d1x share their id: they differ in violationCount only.
MCIdOf == [d \in Decision |-> IF d = d2 THEN i2 ELSE i1]
MCHome == c1 :> Outside @@ c2 :> Outside

ClientSymmetry == Permutations({c1, c2})
=============================================================================

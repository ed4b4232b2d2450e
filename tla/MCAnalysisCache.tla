-------------------------- MODULE MCAnalysisCache --------------------------
(* Small instances of AnalysisCache for TLC. *)
EXTENDS AnalysisCache, TLC

CONSTANTS u1, u2, j1, p1, p2, c1, c2, m1, m2, r1, r2, absent

RequestSymmetry == Permutations({r1, r2})
=============================================================================

--------------------------- MODULE MCVectorIndex ---------------------------
(* Small instances of VectorIndex for TLC. *)
EXTENDS VectorIndex

CONSTANTS t1, t2, t3
=============================================================================

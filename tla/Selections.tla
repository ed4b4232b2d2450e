----------------------------- MODULE Selections -----------------------------
(***************************************************************************)
(* What a loop appends that passes over some elements of a slice: those at *)
(* the places that qualify, in their order. This is SelectSeq with the     *)
(* places for the test and the loop spelled out, which the proofs reason   *)
(* about and of which the prover knows nothing for SelectSeq.              *)
(***************************************************************************)
EXTENDS Naturals, Sequences

\* Selection(s, places)[n] is the result after the first n elements.
Selection(s, places) ==
  LET upTo[n \in 0 .. Len(s)] ==
        IF n = 0 THEN <<>>
        ELSE IF n \in places THEN Append(upTo[n - 1], s[n])
        ELSE upTo[n - 1]
  IN  upTo

Selected(s, places) == Selection(s, places)[Len(s)]
=============================================================================

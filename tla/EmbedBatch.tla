----------------------------- MODULE EmbedBatch -----------------------------
(***************************************************************************)
(* Gold's call of EmbedDocuments: the client cuts the texts into requests  *)
(* of BatchSize, puts the answers together, and Gold pairs the vectors     *)
(* with the postings by their place and saves them in one transaction.     *)
(*                                                                         *)
(* The API answers with any number of embeddings; the n-th is of the n-th  *)
(* text of the request. A vector is the text it is of and its dimension.   *)
(***************************************************************************)
EXTENDS Integers, Sequences

CONSTANTS
  Jobs,         \* posting ids
  BatchSize,    \* texts of a request (100 in the code)
  ExpectedDim,  \* EMBEDDING_DIM
  Dims,         \* dimensions that vectors of the API may have
  MaxPending    \* bound: postings that are pending

ASSUME EmbedBatchConstants ==
  /\ BatchSize \in Nat \ {0}
  /\ ExpectedDim \in Dims
  /\ MaxPending \in Nat

Vector == [of : Jobs, dim : Dims]

VARIABLES
  pending,  \* the postings Pending returned: their texts, in their order
  embed,    \* "request", "answered", "failed" or "saved"
  start,    \* texts before the next request
  vectors,  \* the answers so far
  rows      \* what UpsertMany is given: posting and vector

embedVars == <<pending, embed, start, vectors, rows>>

EmbedInit ==
  /\ \E n \in 1 .. MaxPending : pending \in [1 .. n -> Jobs]
  /\ \A i, j \in DOMAIN pending : i # j => pending[i] # pending[j]
  /\ embed = "request"
  /\ start = 0
  /\ vectors = <<>>
  /\ rows = <<>>

Left == Len(pending) - start
ChunkSize == IF Left < BatchSize THEN Left ELSE BatchSize

\* Answers of n embeddings to the request that starts after start.
Answers(n) ==
  {a \in [1 .. n -> Vector] : \A i \in 1 .. n : i <= ChunkSize => a[i].of = pending[start + i]}

\* Mutation: the number of the embeddings is not compared with that of the texts.
Complete_Unchecked(n) == n <= ChunkSize

Complete(n) == n = ChunkSize

\* One request, answered in full; an incomplete answer is an error.
EmbedChunk ==
  /\ embed = "request"
  /\ start < Len(pending)
  /\ \E n \in 0 .. ChunkSize + 1 :
       /\ Complete(n)
       /\ \E a \in Answers(n) : vectors' = vectors \o a
  /\ start' = start + BatchSize
  /\ UNCHANGED <<pending, embed, rows>>

\* A request fails, or is answered with an error, too few or too many embeddings. The
\* answers before it are dropped with it.
EmbedFails ==
  /\ embed = "request"
  /\ start < Len(pending)
  /\ embed' = "failed"
  /\ UNCHANGED <<pending, start, vectors, rows>>

\* Gold looks at the dimension of the first vector.
Embedded ==
  /\ embed = "request"
  /\ start >= Len(pending)
  /\ embed' = IF vectors # <<>> /\ vectors[1].dim # ExpectedDim THEN "failed" ELSE "answered"
  /\ UNCHANGED <<pending, start, vectors, rows>>

Save ==
  /\ embed = "answered"
  /\ rows' = [i \in 1 .. Len(pending) |-> [job |-> pending[i], vector |-> vectors[i]]]
  /\ embed' = "saved"
  /\ UNCHANGED <<pending, start, vectors>>

SaveFails ==
  /\ embed = "answered"
  /\ embed' = "failed"
  /\ UNCHANGED <<pending, start, vectors, rows>>

EmbedNext == EmbedChunk \/ EmbedFails \/ Embedded \/ Save \/ SaveFails

EmbedSpec == EmbedInit /\ [][EmbedNext]_embedVars

-----------------------------------------------------------------------------
(* Properties.                                                             *)

\* However the texts were cut into requests, every posting is saved with the vector of
\* its own text, or nothing is saved (embedder.go, embedBatch; pipeline.go, Gold).
EachItsOwnVector ==
  /\ embed \in {"answered", "saved"} => Len(vectors) = Len(pending)
  /\ embed # "saved" => rows = <<>>
  /\ embed = "saved" =>
       /\ Len(rows) = Len(pending)
       /\ \A i \in 1 .. Len(pending) : rows[i].job = pending[i] /\ rows[i].vector.of = pending[i]
=============================================================================

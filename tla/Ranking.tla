------------------------------- MODULE Ranking -------------------------------
(***************************************************************************)
(* A recommendation once the index is loaded: the scan of SearchTopK,      *)
(* which keeps the best k rows in a sorted slice, and the list that        *)
(* Recommend builds from the hits whose postings still exist.              *)
(*                                                                         *)
(* A row of the index is named by its place in the scan, which stands for  *)
(* its job_id (the primary key). Similarities are integers: hundredths of  *)
(* the cosine. NaN, which takes an infinite component, is left out.        *)
(***************************************************************************)
EXTENDS Integers, Sequences, Selections

CONSTANTS
  Sims,     \* similarities that occur
  TopKs,    \* values of RECOMMEND_TOP_K
  MaxRows   \* bound: rows in the index

ASSUME RankingConstants == Sims \subseteq Int /\ TopKs \subseteq Int /\ MaxRows \in Nat

\* zero: the vector is all zeros; short: it has fewer components than the query;
\* cos: its cosine otherwise.
Row == [zero : BOOLEAN, short : BOOLEAN, cos : Sims]

Hit == [row : Nat, sim : Int]

VARIABLES
  table,      \* the snapshot: rows in the order of the scan
  zeroQuery,  \* the query vector is all zeros
  k,          \* RECOMMEND_TOP_K
  stage,      \* "search", "scan", "hits" or "answered"
  next,       \* the row the scan looks at next
  topk,       \* the slice of hits
  answer      \* recommendations: row and match score

rankingVars == <<table, zeroQuery, k, stage, next, topk, answer>>

RankingInit ==
  /\ \E n \in 0 .. MaxRows : table \in [1 .. n -> Row]
  /\ zeroQuery \in BOOLEAN
  /\ k \in TopKs
  /\ stage = "search"
  /\ next = 1
  /\ topk = <<>>
  /\ answer = <<>>

-----------------------------------------------------------------------------
(* SearchTopK.                                                             *)

\* denom = 0: a zero vector, or a zero query, scores nothing.
Scoreless(r) == zeroQuery \/ table[r].zero

Sim(r) == IF Scoreless(r) THEN 0 ELSE table[r].cos

\* Vectors of another, smaller model cannot be compared and are passed over.
Skipped(r) == ~Scoreless(r) /\ table[r].short

\* k <= 0 and an empty index answer without a scan.
Search ==
  /\ stage = "search"
  /\ stage' = IF k <= 0 \/ table = <<>> THEN "hits" ELSE "scan"
  /\ UNCHANGED <<table, zeroQuery, k, next, topk, answer>>

\* k rows are kept and this one is no better than the last of them.
Crowded(s) == Len(topk) = k /\ s <= topk[k].sim

PassOver ==
  /\ stage = "scan"
  /\ next <= Len(table)
  /\ Skipped(next) \/ Crowded(Sim(next))
  /\ next' = next + 1
  /\ UNCHANGED <<table, zeroQuery, k, stage, topk, answer>>

\* Mutation: >= instead of > in the search for the place, so equals go in front.
Place_BeforeEquals(p, s) ==
  /\ \A j \in 1 .. p - 1 : topk[j].sim > s
  /\ \A j \in p .. Len(topk) : topk[j].sim <= s

\* sort.Search: p is the first place of the descending slice below s, or its end.
Place(p, s) ==
  /\ \A j \in 1 .. p - 1 : topk[j].sim >= s
  /\ \A j \in p .. Len(topk) : topk[j].sim < s

\* append while the slice is short of k; copy moves the tail down by one, over the
\* last hit of a full slice; the new hit takes the place.
Inserted(p, hit) ==
  [j \in 1 .. (IF Len(topk) < k THEN Len(topk) + 1 ELSE Len(topk)) |->
     IF j < p THEN topk[j] ELSE IF j = p THEN hit ELSE topk[j - 1]]

Insert ==
  /\ stage = "scan"
  /\ next <= Len(table)
  /\ ~Skipped(next) /\ ~Crowded(Sim(next))
  /\ \E p \in 1 .. Len(topk) + 1 :
       /\ Place(p, Sim(next))
       /\ topk' = Inserted(p, [row |-> next, sim |-> Sim(next)])
  /\ next' = next + 1
  /\ UNCHANGED <<table, zeroQuery, k, stage, answer>>

Scanned ==
  /\ stage = "scan"
  /\ next > Len(table)
  /\ stage' = "hits"
  /\ UNCHANGED <<table, zeroQuery, k, next, topk, answer>>

-----------------------------------------------------------------------------
(* Recommend.                                                              *)

\* SimilarityToScore: the hundredths, clamped.
SimilarityToScore(s) == IF s < 40 THEN 40 ELSE IF s > 99 THEN 99 ELSE s

JobSummary(hit) == [row |-> hit.row, score |-> SimilarityToScore(hit.sim)]

\* Mutation: the answer walks the postings found, not the list of the hits.
Summaries_ByPosting(found) ==
  LET shown == Selected([r \in DOMAIN table |-> r], found)
  IN  [j \in DOMAIN shown |-> JobSummary([row |-> shown[j], sim |-> Sim(shown[j])])]

\* The hits whose postings were found, in the order of the hits.
Summaries(found) ==
  LET shown == Selected(topk, {j \in DOMAIN topk : topk[j].row \in found})
  IN  [j \in DOMAIN shown |-> JobSummary(shown[j])]

\* GetMetaByIDs finds any part of the hits: a posting may be gone by now.
Answer ==
  /\ stage = "hits"
  /\ \E found \in SUBSET {topk[j].row : j \in DOMAIN topk} : answer' = Summaries(found)
  /\ stage' = "answered"
  /\ UNCHANGED <<table, zeroQuery, k, next, topk>>

RankingNext == Search \/ PassOver \/ Insert \/ Scanned \/ Answer

RankingSpec == RankingInit /\ [][RankingNext]_rankingVars

-----------------------------------------------------------------------------
(* Properties.                                                             *)

RankingTypeOK ==
  /\ table \in Seq(Row)
  /\ zeroQuery \in BOOLEAN
  /\ k \in Int
  /\ stage \in {"search", "scan", "hits", "answered"}
  /\ next \in 1 .. Len(table) + 1
  /\ topk \in Seq(Hit)

\* The order of a recommendation: by similarity, and equals as the scan met them.
Before(a, b) == Sim(a) > Sim(b) \/ (Sim(a) = Sim(b) /\ a < b)

\* The slice holds what a full sort of the first n rows would put in front: hits are
\* rows that can be compared, with their own similarity, in descending order, and a
\* row that is left out comes after k others.
OwnRows(slice, n) ==
  \A j \in 1 .. Len(slice) :
    /\ slice[j].row \in 1 .. n /\ ~Skipped(slice[j].row)
    /\ slice[j].sim = Sim(slice[j].row)

Sorted(slice) ==
  \A i, j \in 1 .. Len(slice) : i < j => Before(slice[i].row, slice[j].row)

NoneMissing(slice, n) ==
  \A r \in 1 .. n :
    \/ Skipped(r)
    \/ \E j \in 1 .. Len(slice) : slice[j].row = r
    \/ Len(slice) = k /\ \A j \in 1 .. Len(slice) : Before(slice[j].row, r)

BestOf(slice, n) == OwnRows(slice, n) /\ Sorted(slice) /\ NoneMissing(slice, n)

\* SearchTopK returns the best k rows, best first, for every k from one up, whatever
\* zero and short vectors and equal similarities the index holds; for k <= 0 nothing.
HitsAreBest ==
  stage \in {"hits", "answered"} =>
    IF k > 0 THEN Len(topk) <= k /\ BestOf(topk, Len(table)) ELSE topk = <<>>

\* The list that Recommend answers never ranks a job above a better one, by its score
\* as by its similarity, whichever postings are gone by then.
AnswerIsRanked ==
  \A i, j \in DOMAIN answer :
    i < j => /\ Before(answer[i].row, answer[j].row)
             /\ answer[i].score >= answer[j].score
=============================================================================

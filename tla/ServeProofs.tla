---------------------------- MODULE ServeProofs -----------------------------
(***************************************************************************)
(* The answer of a recommendation and the life of a process. SearchTopK    *)
(* returns the best rows for every index, every k and every distribution   *)
(* of similarities (the loop invariant of the scan: after n rows the slice *)
(* is what a full sort of these n rows would put in front), and Recommend  *)
(* keeps their order whichever postings it finds. For any settings, files  *)
(* and crashes: the schema is what the record of migrations says, lines of *)
(* .env that are not to change survive, and a restart finds the last       *)
(* switch.                                                                 *)
(***************************************************************************)
EXTENDS Ranking, Startup, SelectionsProofs, FiniteSetTheorems, TLAPS

-----------------------------------------------------------------------------
(* The search.                                                             *)

RankingInv ==
  /\ RankingTypeOK
  /\ stage = "search" => topk = <<>> /\ next = 1
  /\ stage = "scan" => k > 0 /\ Len(topk) <= k /\ BestOf(topk, next - 1)
  /\ HitsAreBest

-----------------------------------------------------------------------------

\* A row has an integer similarity, whatever its vector and the query are.
LEMMA SimIsInt ==
  ASSUME table \in Seq(Row), zeroQuery \in BOOLEAN, NEW r \in 1 .. Len(table)
  PROVE  Sim(r) \in Int /\ Skipped(r) \in BOOLEAN
<1>1. table[r] \in Row
  OBVIOUS
<1>2. table[r].cos \in Int
  BY <1>1, RankingConstants DEF Row
<1> QED BY <1>2 DEF Sim, Skipped

\* Insertion keeps the slice a slice of hits, one longer unless it was full, with the
\* new hit at its place, the better ones before it and the others after it.
LEMMA InsertedShape ==
  ASSUME topk \in Seq(Hit), k \in Int, Len(topk) <= k, k > 0,
         NEW hit \in Hit, NEW p \in 1 .. Len(topk) + 1,
         p <= k
  PROVE  /\ Inserted(p, hit) \in Seq(Hit)
         /\ Len(Inserted(p, hit)) = IF Len(topk) < k THEN Len(topk) + 1 ELSE Len(topk)
         /\ p \in 1 .. Len(Inserted(p, hit))
         /\ \A j \in 1 .. Len(Inserted(p, hit)) :
              Inserted(p, hit)[j] =
                IF j < p THEN topk[j] ELSE IF j = p THEN hit ELSE topk[j - 1]
<1> DEFINE n == IF Len(topk) < k THEN Len(topk) + 1 ELSE Len(topk)
           at(j) == IF j < p THEN topk[j] ELSE IF j = p THEN hit ELSE topk[j - 1]
<1>1. n \in Nat /\ p \in 1 .. n /\ n <= Len(topk) + 1
  OBVIOUS
<1>2. \A j \in 1 .. n : at(j) \in Hit
  BY <1>1
<1>3. Inserted(p, hit) = [j \in 1 .. n |-> at(j)]
  BY DEF Inserted
<1> HIDE DEF n, at
<1>4. Inserted(p, hit) \in Seq(Hit) /\ Len(Inserted(p, hit)) = n
  BY <1>1, <1>2, <1>3
<1>5. \A j \in 1 .. n : Inserted(p, hit)[j] = at(j)
  BY <1>3
<1> QED BY <1>1, <1>4, <1>5 DEF n, at

\* Before is a strict order of the rows.
LEMMA BeforeIsOrder ==
  ASSUME table \in Seq(Row), zeroQuery \in BOOLEAN,
         NEW a \in 1 .. Len(table), NEW b \in 1 .. Len(table), NEW c \in 1 .. Len(table)
  PROVE  Before(a, b) /\ Before(b, c) => Before(a, c)
<1>1. Sim(a) \in Int /\ Sim(b) \in Int /\ Sim(c) \in Int
  BY SimIsInt
<1> QED BY <1>1 DEF Before

-----------------------------------------------------------------------------

LEMMA RankingInit_Inv == RankingInit => RankingInv
<1> SUFFICES ASSUME RankingInit PROVE RankingInv
  OBVIOUS
<1>1. PICK n \in 0 .. MaxRows : table \in [1 .. n -> Row]
  BY DEF RankingInit
<1>2. n \in Nat /\ table \in Seq(Row) /\ Len(table) = n
  BY <1>1, RankingConstants
<1> QED BY <1>2, RankingConstants DEF RankingInit, RankingInv, RankingTypeOK, HitsAreBest

\* A row that is passed over leaves the slice the best of one row more.
LEMMA PassOverKeepsBest ==
  ASSUME RankingInv, PassOver
  PROVE  BestOf(topk, next)
<1> USE DEF RankingInv, RankingTypeOK
<1>1. next \in 1 .. Len(table) /\ Sim(next) \in Int /\ BestOf(topk, next - 1) /\ k > 0
  BY SimIsInt DEF PassOver
<1>2. CASE Skipped(next)
  <2>1. OwnRows(topk, next - 1) /\ Sorted(topk) /\ NoneMissing(topk, next - 1)
    BY <1>1 DEF BestOf
  <2>2. OwnRows(topk, next)
    <3> SUFFICES ASSUME NEW j \in 1 .. Len(topk)
                 PROVE  /\ topk[j].row \in 1 .. next /\ ~Skipped(topk[j].row)
                        /\ topk[j].sim = Sim(topk[j].row)
      BY DEF OwnRows
    <3>1. /\ topk[j].row \in 1 .. next - 1 /\ ~Skipped(topk[j].row)
          /\ topk[j].sim = Sim(topk[j].row)
      BY <2>1 DEF OwnRows
    <3> QED BY <1>1, <3>1
  <2>3. NoneMissing(topk, next)
    <3>1. ASSUME NEW r \in 1 .. next
          PROVE  r \in 1 .. next - 1 \/ r = next
      BY <1>1
    <3> QED BY <1>2, <2>1, <3>1 DEF NoneMissing
  <2> QED BY <2>1, <2>2, <2>3 DEF BestOf
<1>3. CASE ~Skipped(next) /\ Crowded(Sim(next))
  <2>1. Len(topk) = k /\ Sim(next) <= topk[k].sim
    BY <1>3 DEF Crowded
  <2>2. ASSUME NEW j \in 1 .. Len(topk)
        PROVE  Before(topk[j].row, next)
    <3>1. topk[j].row \in 1 .. next - 1 /\ topk[k].row \in 1 .. next - 1
      BY <1>1, <2>1 DEF BestOf, OwnRows, Sorted
    <3>2. topk[k].sim = Sim(topk[k].row)
      BY <1>1, <2>1 DEF BestOf, OwnRows, Sorted
    <3>3. Sim(topk[k].row) \in Int /\ Sim(topk[j].row) \in Int
      BY <1>1, <3>1, SimIsInt, SMTT(40)
    <3>4. j = k \/ Before(topk[j].row, topk[k].row)
      BY <1>1, <2>1 DEF BestOf, OwnRows, Sorted
    <3> QED BY <1>1, <2>1, <3>1, <3>2, <3>3, <3>4 DEF Before
  <2>3. OwnRows(topk, next) /\ Sorted(topk)
    BY <1>1 DEF BestOf, OwnRows
  <2>4. NoneMissing(topk, next)
    BY <1>1, <2>1, <2>2 DEF BestOf, NoneMissing
  <2> QED BY <2>3, <2>4 DEF BestOf
<1> QED BY <1>2, <1>3 DEF PassOver

\* An inserted row goes where the order of the rows wants it, and a hit that falls off
\* the end of a full slice comes after all that stay.
LEMMA InsertKeepsBest ==
  ASSUME RankingInv, Insert
  PROVE  topk' \in Seq(Hit) /\ Len(topk') <= k /\ BestOf(topk', next)
<1> DEFINE s == Sim(next)
           hit == [row |-> next, sim |-> s]
           n == Len(topk)
<1>1. next \in 1 .. Len(table) /\ s \in Int /\ k \in Int /\ k > 0 /\ n <= k
      /\ table \in Seq(Row) /\ zeroQuery \in BOOLEAN /\ topk \in Seq(Hit)
  BY SimIsInt DEF Insert, RankingInv, RankingTypeOK
<1>2. OwnRows(topk, next - 1) /\ Sorted(topk) /\ NoneMissing(topk, next - 1)
  BY DEF Insert, RankingInv, BestOf
<1>3. ~Skipped(next) /\ ~Crowded(s)
  BY DEF Insert
<1>4. PICK p \in 1 .. n + 1 : Place(p, s) /\ topk' = Inserted(p, hit)
  BY DEF Insert
<1>5. \A j \in 1 .. n :
        /\ topk[j].row \in 1 .. next - 1 /\ ~Skipped(topk[j].row)
        /\ topk[j].sim = Sim(topk[j].row) /\ Sim(topk[j].row) \in Int
  BY <1>1, <1>2, SimIsInt DEF OwnRows
<1>6. p <= k
  BY <1>1, <1>3, <1>4, <1>5 DEF Crowded, Place
<1>7. hit \in Hit
  BY <1>1 DEF Hit
<1>8. /\ topk' \in Seq(Hit)
      /\ Len(topk') = IF n < k THEN n + 1 ELSE n
      /\ p \in 1 .. Len(topk')
      /\ \A j \in 1 .. Len(topk') :
           topk'[j] = IF j < p THEN topk[j] ELSE IF j = p THEN hit ELSE topk[j - 1]
  BY <1>1, <1>4, <1>6, <1>7, InsertedShape, ZenonT(60)
<1>9. \A j \in 1 .. n : IF j < p THEN Before(topk[j].row, next) ELSE Before(next, topk[j].row)
  BY <1>1, <1>4, <1>5, SMTT(40) DEF Place, Before
<1> HIDE DEF s, hit, n
<1> DEFINE t == topk'
<1>sizes. n \in Nat /\ Len(t) \in Nat /\ p \in Nat
  BY <1>1, <1>4, <1>8 DEF n
<1>moved. \A j \in 1 .. Len(t) :
        /\ j < p => j \in 1 .. n /\ t[j] = topk[j]
        /\ j = p => t[j].row = next /\ t[j].sim = s
        /\ j > p => j - 1 \in 1 .. n /\ t[j] = topk[j - 1]
  BY <1>1, <1>4, <1>8, <1>sizes DEF hit
<1>10. OwnRows(t, next)
  <2> SUFFICES ASSUME NEW j \in 1 .. Len(t)
               PROVE  /\ t[j].row \in 1 .. next /\ ~Skipped(t[j].row)
                      /\ t[j].sim = Sim(t[j].row)
    BY DEF OwnRows
  <2>1. CASE j = p
    BY <1>1, <1>3, <1>moved, <2>1 DEF s
  <2>2. CASE j < p
    <3>1. t[j] = topk[j] /\ j \in 1 .. n
      BY <1>moved, <2>2
    <3>2. t[j].row \in 1 .. next - 1 /\ ~Skipped(t[j].row) /\ t[j].sim = Sim(t[j].row)
      BY <1>5, <3>1
    <3> QED BY <1>1, <3>2
  <2>3. CASE j > p
    <3>1. t[j] = topk[j - 1] /\ j - 1 \in 1 .. n
      BY <1>moved, <2>3
    <3>2. t[j].row \in 1 .. next - 1 /\ ~Skipped(t[j].row) /\ t[j].sim = Sim(t[j].row)
      BY <1>5, <3>1
    <3> QED BY <1>1, <3>2
  <2> QED BY <1>sizes, <2>1, <2>2, <2>3
<1>11. Sorted(t)
  <2> SUFFICES ASSUME NEW i \in 1 .. Len(t), NEW j \in 1 .. Len(t), i < j
               PROVE  Before(t[i].row, t[j].row)
    BY DEF Sorted
  <2>1. \A a, b \in 1 .. n : a < b => Before(topk[a].row, topk[b].row)
    BY <1>2 DEF Sorted, n
  <2>2. CASE i = p
    <3>1. t[i].row = next /\ t[j] = topk[j - 1] /\ j - 1 \in 1 .. n /\ j - 1 >= p
      BY <1>sizes, <1>moved, <2>2
    <3> QED BY <1>9, <1>sizes, <3>1
  <2>3. CASE j = p
    <3>1. t[j].row = next /\ t[i] = topk[i] /\ i \in 1 .. n /\ i < p
      BY <1>sizes, <1>moved, <2>3
    <3> QED BY <1>9, <3>1
  <2>4. CASE j < p
    BY <1>sizes, <1>moved, <2>1, <2>4
  <2>5. CASE i < p /\ j > p
    BY <1>sizes, <1>moved, <2>1, <2>5
  <2>6. CASE i > p
    BY <1>sizes, <1>moved, <2>1, <2>6
  <2> QED BY <1>sizes, <2>2, <2>3, <2>4, <2>5, <2>6
<1>12. NoneMissing(t, next)
  <2> SUFFICES ASSUME NEW r \in 1 .. next, ~Skipped(r), \A j \in 1 .. Len(t) : t[j].row # r
               PROVE  Len(t) = k /\ \A j \in 1 .. Len(t) : Before(t[j].row, r)
    BY DEF NoneMissing
  <2>1. r # next
    BY <1>8 DEF hit
  <2>2. \A j \in 1 .. n : topk[j].row = r => n = k /\ j = n
    <3> SUFFICES ASSUME NEW j \in 1 .. n, topk[j].row = r, n # k \/ j # n
                 PROVE  FALSE
      OBVIOUS
    <3>1. CASE j < p
      BY <1>1, <1>4, <1>8, <3>1, SMTT(40) DEF n
    <3>2. CASE j >= p
      <4>1. j + 1 \in 1 .. Len(t)
        BY <1>1, <1>8 DEF n
      <4>2. t[j + 1] = topk[j]
        BY <1>4, <1>8, <3>2, <4>1 DEF n
      <4> QED BY <4>1, <4>2
    <3> QED BY <1>4, <3>1, <3>2 DEF n
  <2>3. n = k /\ \A j \in 1 .. n : topk[j].row = r \/ Before(topk[j].row, r)
    <3>1. CASE \E j \in 1 .. n : topk[j].row = r
      <4>1. n = k /\ topk[n].row = r
        BY <2>2, <3>1
      <4>2. \A j \in 1 .. n : j = n \/ Before(topk[j].row, topk[n].row)
        BY <1>1, <1>2 DEF Sorted, n
      <4> QED BY <4>1, <4>2
    <3>2. CASE ~\E j \in 1 .. n : topk[j].row = r
      <4>1. r \in 1 .. next - 1
        BY <1>1, <2>1
      <4> QED BY <1>2, <3>2, <4>1 DEF NoneMissing, n
    <3> QED BY <3>1, <3>2
  <2>4. Len(t) = k
    BY <1>1, <1>8, <2>3
  <2>5. \A j \in 1 .. n - 1 : Before(topk[j].row, r)
    BY <1>1, <2>2, <2>3 DEF n
  <2>6. Before(next, r)
    <3>1. topk[n].row = r \/ Before(topk[n].row, r)
      BY <1>1, <2>3
    <3>2. Before(next, topk[n].row)
      BY <1>1, <1>4, <1>6, <1>9, <2>3
    <3>3. topk[n].row \in 1 .. Len(table) /\ r \in 1 .. Len(table)
      BY <1>1, <1>5, <2>3
    <3> QED BY <1>1, <3>1, <3>2, <3>3, BeforeIsOrder
  <2> QED
    BY <1>1, <1>4, <1>8, <2>3, <2>4, <2>5, <2>6 DEF hit, n
<1> QED BY <1>1, <1>8, <1>10, <1>11, <1>12 DEF BestOf, n

-----------------------------------------------------------------------------

\* The operators of the invariant read the table, the query and k, which never change.
LEMMA BestOfPrimed ==
  ASSUME table' = table, zeroQuery' = zeroQuery, k' = k, NEW slice, NEW n
  PROVE  BestOf(slice, n) <=> BestOf(slice, n)'
<1>1. \A r : (Sim(r)' = Sim(r)) /\ (Skipped(r)' <=> Skipped(r))
  BY DEF Sim, Skipped, Scoreless
<1> QED BY <1>1 DEF BestOf, OwnRows, Sorted, NoneMissing, Before

LEMMA RankingStep_Inv == RankingInv /\ [RankingNext]_rankingVars => RankingInv'
<1> SUFFICES ASSUME RankingInv, [RankingNext]_rankingVars
             PROVE  RankingInv'
  OBVIOUS
<1>0. RankingTypeOK /\ HitsAreBest /\ k \in Int /\ Len(table) \in Nat /\ next \in Nat
  BY DEF RankingInv, RankingTypeOK
<1>1. CASE Search
  <2>1. stage' = "scan" => k > 0 /\ next = 1
    BY <1>0, <1>1 DEF Search, RankingInv
  <2>2. stage = "search" /\ topk = <<>> /\ next = 1
    BY <1>1 DEF Search, RankingInv
  <2>3. BestOf(topk, 0)
    BY <2>2 DEF BestOf, OwnRows, Sorted, NoneMissing
  <2>4. stage' = "hits" => k <= 0 \/ Len(table) = 0
    BY <1>0, <1>1 DEF Search, RankingTypeOK
  <2>5. RankingTypeOK'
    BY <1>0, <1>1 DEF Search, RankingTypeOK
  <2>6. UNCHANGED <<table, zeroQuery, k, next, topk>> /\ stage' \in {"scan", "hits"}
    BY <1>1 DEF Search
  <2>7. BestOf(topk, 0)'
    BY <2>3, <2>6, BestOfPrimed
  <2>8. (stage = "scan" => k > 0 /\ Len(topk) <= k /\ BestOf(topk, next - 1))'
    BY <1>0, <2>1, <2>2, <2>6, <2>7
  <2>9. HitsAreBest'
    BY <1>0, <2>2, <2>4, <2>6, <2>7 DEF HitsAreBest
  <2> QED BY <2>5, <2>6, <2>8, <2>9 DEF RankingInv
<1>2. CASE PassOver
  <2>1. /\ UNCHANGED <<table, zeroQuery, k, stage, topk, answer>> /\ stage = "scan"
        /\ next' = next + 1 /\ next' \in 1 .. Len(table) + 1
    BY <1>0, <1>2 DEF PassOver, RankingTypeOK
  <2>2. PICK slice, n : slice = topk /\ n = next
    OBVIOUS
  <2>3. BestOf(slice, n)'
    BY <1>2, <2>1, <2>2, PassOverKeepsBest, BestOfPrimed
  <2>4. (k > 0 /\ Len(topk) <= k)'
    BY <2>1 DEF RankingInv
  <2>5. BestOf(topk, next - 1)'
    BY <1>0, <2>1, <2>2, <2>3
  <2>6. RankingTypeOK'
    BY <1>0, <2>1 DEF RankingTypeOK
  <2> QED BY <2>1, <2>4, <2>5, <2>6 DEF RankingInv, HitsAreBest
<1>3. CASE Insert
  <2>1. /\ UNCHANGED <<table, zeroQuery, k, stage, answer>> /\ stage = "scan"
        /\ next' = next + 1 /\ next' \in 1 .. Len(table) + 1
    BY <1>0, <1>3 DEF Insert, RankingTypeOK
  <2>2. PICK slice, n : slice = topk' /\ n = next
    OBVIOUS
  <2>3. BestOf(slice, n)'
    BY <1>3, <2>1, <2>2, InsertKeepsBest, BestOfPrimed
  <2>4. (k > 0 /\ Len(topk) <= k)'
    BY <1>3, <2>1, InsertKeepsBest DEF RankingInv
  <2>5. BestOf(topk, next - 1)'
    BY <1>0, <2>1, <2>2, <2>3
  <2>6. RankingTypeOK'
    BY <1>0, <1>3, <2>1, InsertKeepsBest DEF RankingTypeOK
  <2> QED BY <2>1, <2>4, <2>5, <2>6 DEF RankingInv, HitsAreBest
<1>4. CASE Scanned
  <2>1. /\ UNCHANGED <<table, zeroQuery, k, next, topk, answer>> /\ stage = "scan"
        /\ stage' = "hits" /\ next - 1 = Len(table)
    BY <1>0, <1>4 DEF Scanned, RankingTypeOK
  <2>2. k > 0 /\ Len(topk) <= k /\ BestOf(topk, Len(table))
    BY <2>1 DEF RankingInv
  <2>3. PICK slice, n : slice = topk /\ n = Len(table)
    OBVIOUS
  <2>4. BestOf(slice, n)'
    BY <2>1, <2>2, <2>3, BestOfPrimed
  <2>5. HitsAreBest'
    BY <2>1, <2>2, <2>3, <2>4 DEF HitsAreBest
  <2>6. RankingTypeOK'
    BY <1>0, <2>1 DEF RankingTypeOK
  <2> QED BY <2>1, <2>5, <2>6 DEF RankingInv
<1>5. CASE Answer \/ UNCHANGED rankingVars
  <2>1. /\ UNCHANGED <<table, zeroQuery, k, next, topk>>
        /\ stage' = stage \/ (stage = "hits" /\ stage' = "answered")
    BY <1>5 DEF Answer, rankingVars
  <2>2. RankingTypeOK'
    BY <1>0, <2>1 DEF RankingTypeOK
  <2>3. PICK slice, n, all : slice = topk /\ n = next - 1 /\ all = Len(table)
    OBVIOUS
  <2>4. (BestOf(slice, n) => BestOf(slice, n)') /\ (BestOf(slice, all) => BestOf(slice, all)')
    BY <2>1, BestOfPrimed
  <2>5. HitsAreBest'
    BY <1>0, <2>1, <2>3, <2>4 DEF HitsAreBest
  <2>6. (stage = "scan" => k > 0 /\ Len(topk) <= k /\ BestOf(topk, next - 1))'
    BY <1>0, <2>1, <2>3, <2>4 DEF RankingInv
  <2>7. (stage = "search" => topk = <<>> /\ next = 1)'
    BY <2>1 DEF RankingInv
  <2> QED BY <2>2, <2>5, <2>6, <2>7 DEF RankingInv
<1> QED BY <1>1, <1>2, <1>3, <1>4, <1>5 DEF RankingNext

\* The hits of SearchTopK are the best k rows, best first, whatever the index holds
\* and whatever k is (embeddings.go, SearchTopK).
THEOREM SearchFindsBest == RankingSpec => []HitsAreBest
<1>1. RankingInv => HitsAreBest
  BY DEF RankingInv
<1> QED BY RankingInit_Inv, RankingStep_Inv, <1>1, PTL DEF RankingSpec

-----------------------------------------------------------------------------
(* The answer.                                                             *)

\* An answer is ranked, and there is none before Recommend gives it.
AnswerInv ==
  /\ stage # "answered" => answer = <<>>
  /\ AnswerIsRanked

\* A better hit has no lower score: rounding to hundredths and clamping are monotonic.
LEMMA ScoreIsMonotonic ==
  ASSUME NEW a \in Int, NEW b \in Int, a >= b
  PROVE  /\ SimilarityToScore(a) \in Int /\ SimilarityToScore(b) \in Int
         /\ SimilarityToScore(a) >= SimilarityToScore(b)
BY DEF SimilarityToScore

\* The hits that are shown keep their order, whichever postings were found.
LEMMA SummariesAreRanked ==
  ASSUME RankingTypeOK, NEW n \in 0 .. Len(table), BestOf(topk, n), NEW found
  PROVE  \A i, j \in DOMAIN Summaries(found) :
           i < j => /\ Before(Summaries(found)[i].row, Summaries(found)[j].row)
                    /\ Summaries(found)[i].score >= Summaries(found)[j].score
<1> DEFINE shown == Selected(topk, {j \in DOMAIN topk : topk[j].row \in found})
<1>1. topk \in Seq(Hit) /\ table \in Seq(Row) /\ zeroQuery \in BOOLEAN
  BY DEF RankingTypeOK
<1>2. shown \in Seq(Hit)
  BY <1>1, SelectedType
<1>3. PICK e \in [1 .. Len(shown) -> 1 .. Len(topk)] :
        /\ \A i \in 1 .. Len(shown) : shown[i] = topk[e[i]]
        /\ \A i, j \in 1 .. Len(shown) : i < j => e[i] < e[j]
  <2>1. PICK P : P = {j \in DOMAIN topk : topk[j].row \in found}
    OBVIOUS
  <2>2. \E e \in [1 .. Len(Selected(topk, P)) -> 1 .. Len(topk)] :
          /\ \A i \in 1 .. Len(Selected(topk, P)) :
               e[i] \in P /\ Selected(topk, P)[i] = topk[e[i]]
          /\ \A i, j \in 1 .. Len(Selected(topk, P)) : i < j => e[i] < e[j]
    BY ONLY <1>1, SelectedInOrder
  <2> HIDE DEF shown
  <2>3. shown = Selected(topk, P)
    BY <2>1 DEF shown
  <2> QED BY ONLY <2>2, <2>3
<1>4. Summaries(found) = [j \in DOMAIN shown |-> JobSummary(shown[j])]
  BY DEF Summaries
<1> HIDE DEF shown
<1>5. DOMAIN shown = 1 .. Len(shown)
  BY <1>2
<1> SUFFICES ASSUME NEW i \in 1 .. Len(shown), NEW j \in 1 .. Len(shown), i < j
             PROVE  /\ Before(Summaries(found)[i].row, Summaries(found)[j].row)
                    /\ Summaries(found)[i].score >= Summaries(found)[j].score
  BY <1>4, <1>5
<1> DEFINE a == topk[e[i]]
           b == topk[e[j]]
<1>6. e[i] \in 1 .. Len(topk) /\ e[j] \in 1 .. Len(topk) /\ e[i] < e[j]
  BY <1>3
<1>7. Before(a.row, b.row) /\ a.sim = Sim(a.row) /\ b.sim = Sim(b.row)
  BY <1>6 DEF BestOf, Sorted, OwnRows
<1>8. a \in Hit /\ b \in Hit
  BY <1>1, <1>6
<1>9. Summaries(found)[i] = JobSummary(a) /\ Summaries(found)[j] = JobSummary(b)
  BY <1>3, <1>4, <1>5
<1> HIDE DEF a, b
<1>10. a.sim \in Int /\ b.sim \in Int /\ a.sim >= b.sim
  BY <1>7, <1>8 DEF Before, Hit
<1>11. SimilarityToScore(a.sim) >= SimilarityToScore(b.sim)
  BY <1>10, ScoreIsMonotonic
<1> QED BY <1>7, <1>9, <1>11 DEF JobSummary

LEMMA AnswerStep ==
  RankingInv /\ AnswerInv /\ [RankingNext]_rankingVars => AnswerInv'
<1> SUFFICES ASSUME RankingInv, AnswerInv, [RankingNext]_rankingVars
             PROVE  AnswerInv'
  OBVIOUS
<1>1. RankingTypeOK /\ HitsAreBest
  BY DEF RankingInv
\* The order of two rows is read from the table and the query, which never change.
<1>2. ASSUME UNCHANGED <<table, zeroQuery>>, NEW a, NEW b
      PROVE  Before(a, b)' <=> Before(a, b)
  BY <1>2 DEF Before, Sim, Scoreless
<1>3. CASE UNCHANGED answer /\ UNCHANGED <<table, zeroQuery>>
           /\ (stage = "answered" => stage' = "answered")
  <2>1. AnswerIsRanked'
    BY <1>2, <1>3 DEF AnswerInv, AnswerIsRanked
  <2>2. (stage # "answered" => answer = <<>>)'
    BY <1>3 DEF AnswerInv
  <2> QED BY <2>1, <2>2 DEF AnswerInv
<1>4. CASE Answer
  <2>1. /\ UNCHANGED <<table, zeroQuery, k, topk>> /\ stage = "hits" /\ stage' = "answered"
    BY <1>4 DEF Answer
  <2>2. PICK found : answer' = Summaries(found)
    BY <1>4 DEF Answer
  <2>3. CASE k > 0
    <3>1. BestOf(topk, Len(table)) /\ Len(table) \in 0 .. Len(table)
      BY <1>1, <2>1, <2>3 DEF HitsAreBest, RankingTypeOK
    <3>2. \A i, j \in DOMAIN answer' :
            i < j => /\ Before(answer'[i].row, answer'[j].row)
                     /\ answer'[i].score >= answer'[j].score
      BY <1>1, <2>2, <3>1, SummariesAreRanked
    <3>3. AnswerIsRanked'
      BY <1>2, <2>1, <3>2 DEF AnswerIsRanked
    <3> QED BY <2>1, <3>3 DEF AnswerInv
  <2>4. CASE ~(k > 0)
    <3>1. topk = <<>> /\ topk \in Seq(Hit)
      BY <1>1, <2>1, <2>4 DEF HitsAreBest, RankingTypeOK
    <3>2. BestOf(topk, 0) /\ 0 \in 0 .. Len(table)
      BY <1>1, <3>1 DEF BestOf, OwnRows, Sorted, NoneMissing, RankingTypeOK
    <3>3. \A i, j \in DOMAIN answer' :
            i < j => /\ Before(answer'[i].row, answer'[j].row)
                     /\ answer'[i].score >= answer'[j].score
      BY <1>1, <2>2, <3>2, SummariesAreRanked
    <3>4. AnswerIsRanked'
      BY <1>2, <2>1, <3>3 DEF AnswerIsRanked
    <3> QED BY <2>1, <3>4 DEF AnswerInv
  <2> QED BY <2>3, <2>4
<1>5. CASE Search
  BY <1>3, <1>5 DEF Search
<1>6. CASE PassOver
  BY <1>3, <1>6 DEF PassOver
<1>7. CASE Insert
  BY <1>3, <1>7 DEF Insert
<1>8. CASE Scanned
  BY <1>3, <1>8 DEF Scanned
<1>9. CASE UNCHANGED rankingVars
  BY <1>3, <1>9 DEF rankingVars
<1> QED BY <1>4, <1>5, <1>6, <1>7, <1>8, <1>9 DEF RankingNext

\* Whichever postings are gone by the time they are read, the list that Recommend
\* answers ranks no job above a better one (recommend.go, Recommend).
THEOREM RecommendsInOrder == RankingSpec => []AnswerIsRanked
<1>1. RankingInit => AnswerInv
  BY DEF RankingInit, AnswerInv, AnswerIsRanked
<1>2. AnswerInv => AnswerIsRanked
  BY DEF AnswerInv
<1> QED BY RankingInit_Inv, RankingStep_Inv, AnswerStep, <1>1, <1>2, PTL DEF RankingSpec

-----------------------------------------------------------------------------
(* Types.                                                                  *)

InTransaction == {"body", "record", "commit"}
Migrating == {"next"} \cup InTransaction
InUpdate == {"backup", "backupFill", "write", "fill", "adopt"}
Serving == {"up"} \cup InUpdate

File == [there : BOOLEAN, lines : Seq(Line)]
Settings == [Keys -> Texts]
Local == [pc : {"off", "migrate"} \cup Migrating \cup Serving, settings : Settings,
          todo : SUBSET Migrations, lines : Seq(Line), copy : Seq(Line), target : Settings]

StartupTypeOK ==
  /\ env \in File /\ bak \in File
  /\ shell \in Settings
  /\ recorded \in SUBSET Migrations
  /\ effects \in [Migrations -> Nat]
  /\ writer \in [by : Procs \cup {"nobody"}, done : SUBSET Migrations, recorded : SUBSET Migrations]
  /\ proc \in [Procs -> Local]

-----------------------------------------------------------------------------
(* Migrations.                                                             *)

\* The write lock has one holder, and who runs the statements of a file holds it.
LockIsHeld ==
  /\ \A p \in Procs : writer.by = p <=> proc[p].pc \in InTransaction
  /\ writer.by = "nobody" => writer = NoTx

\* A process that migrates has every file ahead of it that is not on record.
NothingSkipped ==
  \A p \in Procs :
    /\ proc[p].pc \in Migrating => Migrations \ proc[p].todo \subseteq recorded
    /\ proc[p].pc \in InTransaction => proc[p].todo # {}

\* What the open transaction holds at each of its statements.
TransactionHolds ==
  \A p \in Procs :
    /\ proc[p].pc = "body" => writer.done = {} /\ writer.recorded = {}
    /\ proc[p].pc = "record" => writer.done = {NextFile(p)} /\ writer.recorded = {}
    /\ proc[p].pc = "commit" => /\ writer.done = {NextFile(p)} /\ writer.recorded = {NextFile(p)}
                                /\ NextFile(p) \notin recorded

MigrationInv == LockIsHeld /\ NothingSkipped /\ TransactionHolds /\ SchemaFollowsRecord

-----------------------------------------------------------------------------
(* The other lines.                                                        *)

OneUpdates == \A p, q \in Procs : Updating(p) /\ Updating(q) => p = q

\* Where the other lines are at each step of an Update.
LinesAreSafe ==
  \A p \in Procs :
    /\ Updating(p) => HasAllLines(proc[p].lines)
    /\ proc[p].pc \in {"backup", "backupFill", "write", "adopt"} => HasAllLines(env.lines)
    /\ proc[p].pc = "backupFill" => HasAllLines(proc[p].copy)
    /\ proc[p].pc \in {"write", "fill"} => HasAllLines(bak.lines)

LinesInv ==
  /\ env.there \/ env.lines = <<>>
  /\ whole /\ original # <<>> => OneUpdates /\ LinesAreSafe
  /\ OtherLinesSurvive

-----------------------------------------------------------------------------
(* Settings.                                                               *)

Matches(p) == \A key \in Keys : shell[key] = Unset => FromFile(env.lines, key) = proc[p].settings[key]

SyncInv ==
  \A p \in synced :
    /\ p \in Procs
    /\ \A q \in Procs : Updating(q) => q = p
    /\ ~At(p, "off") /\ ~Updating(p) => Matches(p)
    /\ At(p, "adopt") => \A key \in Keys : FromFile(env.lines, key) = proc[p].target[key]

-----------------------------------------------------------------------------

\* The file a process runs next is the first of those it has to run.
LEMMA NextFileIsFirst ==
  ASSUME NEW p \in Procs, proc[p].todo \in SUBSET Migrations, proc[p].todo # {}
  PROVE  NextFile(p) \in proc[p].todo /\ \A g \in proc[p].todo : NextFile(p) <= g
<1> DEFINE T == proc[p].todo
<1>1. T \in SUBSET Nat /\ T # {}
  BY DEF Migrations
<1>2. \E f \in T : \A g \in T : f <= g
  BY <1>1, LeastElement
<1> QED BY <1>2 DEF NextFile, Min

\* Steps outside a transaction keep the schema and its record as they are.
LEMMA OutsideTransaction ==
  ASSUME StartupTypeOK, MigrationInv, UNCHANGED schema, NEW p \in Procs,
         \A q \in Procs \ {p} : proc'[q] = proc[q],
         proc[p].pc \notin InTransaction,
         proc'[p].pc \notin InTransaction,
         proc'[p].pc = "next" => Migrations \ proc'[p].todo \subseteq recorded,
         p = "server" /\ proc'[p].pc \in Serving => recorded = Migrations
  PROVE  MigrationInv'
<1> USE DEF schema
<1>1. LockIsHeld'
  <2>1. \A q \in Procs : proc'[q].pc \in InTransaction <=> proc[q].pc \in InTransaction
    OBVIOUS
  <2> QED BY <2>1 DEF MigrationInv, LockIsHeld
<1>2. NothingSkipped'
  BY DEF MigrationInv, NothingSkipped, Migrating
<1>3. TransactionHolds'
  BY DEF MigrationInv, TransactionHolds, NextFile, InTransaction
<1>4. SchemaFollowsRecord'
  <2>1. recorded' = recorded /\ effects' = effects
    OBVIOUS
  <2>2. proc'["server"].pc \in Serving => recorded = Migrations
    <3>1. CASE p = "server"
      BY <3>1
    <3>2. CASE p # "server"
      <4>1. proc'["server"] = proc["server"]
        BY <3>2 DEF Procs
      <4> QED BY <4>1 DEF MigrationInv, SchemaFollowsRecord, Serving, InUpdate
    <3> QED BY <3>1, <3>2
  <2> QED BY <2>1, <2>2 DEF MigrationInv, SchemaFollowsRecord, Serving, InUpdate
<1> QED BY <1>1, <1>2, <1>3, <1>4 DEF MigrationInv

\* Steps of a process in its transaction that commit nothing.
LEMMA InsideTransaction ==
  ASSUME StartupTypeOK, MigrationInv, UNCHANGED <<recorded, effects>>, NEW p \in Procs,
         \A q \in Procs \ {p} : proc'[q] = proc[q] /\ proc[q].pc \notin InTransaction,
         proc'[p].todo = proc[p].todo,
         proc[p].pc \in Migrating, proc'[p].pc \in InTransaction, proc[p].todo # {},
         writer'.by = p,
         proc'[p].pc = "body" => writer'.done = {} /\ writer'.recorded = {},
         proc'[p].pc = "record" => writer'.done = {NextFile(p)} /\ writer'.recorded = {},
         proc'[p].pc = "commit" =>
           /\ writer'.done = {NextFile(p)} /\ writer'.recorded = {NextFile(p)}
           /\ NextFile(p) \notin recorded
  PROVE  MigrationInv'
<1>1. LockIsHeld'
  BY DEF LockIsHeld, Procs
<1>2. NothingSkipped'
  BY DEF MigrationInv, NothingSkipped, Migrating
<1>3. NextFile(p)' = NextFile(p)
  BY DEF NextFile
<1>4. TransactionHolds'
  BY <1>3 DEF TransactionHolds, InTransaction
<1>5. SchemaFollowsRecord'
  <2>1. recorded' = recorded /\ effects' = effects
    OBVIOUS
  <2>2. proc'["server"].pc \in Serving => proc["server"].pc \in Serving
    BY DEF InTransaction, Serving, InUpdate, Procs
  <2> QED BY <2>1, <2>2 DEF MigrationInv, SchemaFollowsRecord, Serving, InUpdate
<1> QED BY <1>1, <1>2, <1>4, <1>5 DEF MigrationInv

LEMMA MigrationInit == StartupInit => MigrationInv
BY DEF StartupInit, MigrationInv, LockIsHeld, NothingSkipped, TransactionHolds,
       SchemaFollowsRecord, InTransaction, Migrating, NoTx, Off, Procs

LEMMA MigrationStep ==
  StartupTypeOK /\ StartupTypeOK' /\ MigrationInv /\ [StartupNext]_startupVars => MigrationInv'
<1> SUFFICES ASSUME StartupTypeOK, StartupTypeOK', MigrationInv, [StartupNext]_startupVars
             PROVE  MigrationInv'
  OBVIOUS
<1>a. /\ proc \in [Procs -> Local] /\ proc' \in [Procs -> Local]
      /\ recorded \in SUBSET Migrations /\ effects \in [Migrations -> Nat]
      /\ \A p \in Procs : proc[p].todo \in SUBSET Migrations
  BY DEF StartupTypeOK, Local
<1>b. \A p \in Procs : proc[p].pc \in InTransaction =>
        /\ writer.by = p
        /\ \A q \in Procs \ {p} : proc[q].pc \notin InTransaction
  BY DEF MigrationInv, LockIsHeld
<1> USE DEF At, Goto
<1>0. CASE UNCHANGED startupVars
  BY <1>0 DEF startupVars, MigrationInv, LockIsHeld, NothingSkipped, TransactionHolds,
              SchemaFollowsRecord, NextFile
<1>1. ASSUME NEW p \in Procs, Start(p)
      PROVE  MigrationInv'
  <2>1. PICK pc \in (IF p = "server" THEN {"migrate"} ELSE {"migrate", "up"}) :
          proc' = [proc EXCEPT ![p] = [Off EXCEPT !.pc = pc,
                                                  !.settings = [key \in Keys |-> Loaded(key)]]]
    BY <1>1 DEF Start
  <2>2. proc'[p].pc = pc
    BY <1>a, <2>1 DEF Off
  <2> QED BY <1>a, <1>1, <2>1, <2>2, OutsideTransaction DEF Start, InTransaction, Serving, InUpdate
<1>2. ASSUME NEW p \in Procs, ReadVersions(p)
      PROVE  MigrationInv'
  <2>1. /\ proc'[p].pc = "next" /\ proc'[p].todo = Migrations \ recorded
        /\ \A q \in Procs \ {p} : proc'[q] = proc[q]
    BY <1>a, <1>2 DEF ReadVersions, Local
  <2> QED BY <1>2, <2>1, OutsideTransaction DEF ReadVersions, InTransaction, Serving, InUpdate
<1>3. ASSUME NEW p \in Procs, Begin(p)
      PROVE  MigrationInv'
  <2>1. /\ proc'[p].pc = "body" /\ proc'[p].todo = proc[p].todo
        /\ \A q \in Procs \ {p} : proc'[q] = proc[q]
    BY <1>a, <1>3 DEF Begin, Local
  <2>2. \A q \in Procs : proc[q].pc \notin InTransaction
    BY <1>3 DEF Begin, MigrationInv, LockIsHeld, Procs
  <2>3. writer' = [by |-> p, done |-> {}, recorded |-> {}]
    BY <1>3 DEF Begin, NoTx
  <2> QED BY <1>3, <2>1, <2>2, <2>3, InsideTransaction DEF Begin, InTransaction, Migrating
<1>4. ASSUME NEW p \in Procs, Body(p)
      PROVE  MigrationInv'
  <2>1. /\ proc'[p].pc = "record" /\ proc'[p].todo = proc[p].todo
        /\ \A q \in Procs \ {p} : proc'[q] = proc[q]
    BY <1>a, <1>4 DEF Body, Local
  <2>2. proc[p].pc = "body" /\ proc[p].pc \in InTransaction
    BY <1>4 DEF Body, InTransaction
  <2>3. /\ writer' = [writer EXCEPT !.done = {NextFile(p)}]
        /\ writer.by = p /\ writer.recorded = {}
    BY <1>4, <1>b, <2>2 DEF Body, MigrationInv, TransactionHolds
  <2>4. writer'.by = p /\ writer'.done = {NextFile(p)} /\ writer'.recorded = {}
    BY <2>3 DEF StartupTypeOK
  <2>5. proc[p].todo # {}
    BY <2>2 DEF MigrationInv, NothingSkipped
  <2> QED BY <1>4, <1>b, <2>1, <2>2, <2>4, <2>5, InsideTransaction DEF Body, InTransaction, Migrating
<1>5. ASSUME NEW p \in Procs, Record(p)
      PROVE  MigrationInv'
  <2>1. /\ proc'[p].pc = "commit" /\ proc'[p].todo = proc[p].todo
        /\ \A q \in Procs \ {p} : proc'[q] = proc[q]
    BY <1>a, <1>5 DEF Record, Local
  <2>2. proc[p].pc = "record" /\ proc[p].pc \in InTransaction
    BY <1>5 DEF Record, InTransaction
  <2>3. /\ writer' = [writer EXCEPT !.recorded = {NextFile(p)}]
        /\ writer.by = p /\ writer.done = {NextFile(p)}
    BY <1>5, <1>b, <2>2 DEF Record, MigrationInv, TransactionHolds
  <2>4. /\ writer'.by = p /\ writer'.done = {NextFile(p)} /\ writer'.recorded = {NextFile(p)}
        /\ NextFile(p) \notin recorded
    BY <1>5, <2>3 DEF StartupTypeOK, Record
  <2>5. proc[p].todo # {}
    BY <2>2 DEF MigrationInv, NothingSkipped
  <2> QED BY <1>5, <1>b, <2>1, <2>2, <2>4, <2>5, InsideTransaction DEF Record, InTransaction, Migrating
<1>6. ASSUME NEW p \in Procs, Commit(p)
      PROVE  MigrationInv'
  <2> DEFINE f == NextFile(p)
  <2>1. proc[p].pc = "commit" /\ proc[p].pc \in InTransaction /\ proc[p].pc \in Migrating
    BY <1>6 DEF Commit, InTransaction, Migrating
  <2>2. /\ writer.done = {f} /\ writer.recorded = {f} /\ f \notin recorded
        /\ proc[p].todo # {} /\ Migrations \ proc[p].todo \subseteq recorded
    BY <2>1 DEF MigrationInv, TransactionHolds, NothingSkipped
  <2>3. f \in proc[p].todo /\ f \in Migrations /\ \A g \in proc[p].todo : f <= g
    BY <1>a, <2>2, NextFileIsFirst
  <2>4. /\ proc'[p].pc = "next" /\ proc'[p].todo = proc[p].todo \ {f}
        /\ \A q \in Procs \ {p} : proc'[q] = proc[q]
    BY <1>a, <1>6 DEF Commit, Local
  <2>5. /\ effects' = [g \in Migrations |-> IF g \in writer.done THEN effects[g] + 1 ELSE effects[g]]
        /\ recorded' = recorded \cup {f} /\ writer' = NoTx
    BY <1>6, <2>2 DEF Commit
  <2> HIDE DEF f
  <2>6. LockIsHeld'
    BY <1>b, <2>1, <2>4, <2>5 DEF LockIsHeld, NoTx, InTransaction, Procs
  <2>7. NothingSkipped'
    BY <1>b, <2>1, <2>2, <2>4, <2>5 DEF MigrationInv, NothingSkipped, InTransaction
  <2>8. TransactionHolds'
    BY <1>b, <2>1, <2>4 DEF TransactionHolds, InTransaction
  <2>9. SchemaFollowsRecord'
    <3>1. \A g \in Migrations : effects'[g] = IF g \in recorded' THEN 1 ELSE 0
      BY <1>a, <2>2, <2>5 DEF MigrationInv, SchemaFollowsRecord
    <3>2. ASSUME NEW g \in Migrations, NEW h \in Migrations, g < h, h \in recorded'
          PROVE  g \in recorded'
      <4>1. CASE h = f
        <5>1. g \notin proc[p].todo
          BY <2>3, <3>2, <4>1 DEF Migrations
        <5> QED BY <2>2, <2>5, <5>1
      <4>2. CASE h # f
        BY <2>5, <3>2, <4>2 DEF MigrationInv, SchemaFollowsRecord
      <4> QED BY <4>1, <4>2
    <3>3. proc'["server"].pc \in Serving => recorded' = Migrations
      <4>1. proc'["server"].pc \in Serving => proc["server"].pc \in Serving
        BY <2>4 DEF Serving, InUpdate, Procs
      <4>2. proc["server"].pc \in Serving => recorded = Migrations
        BY DEF MigrationInv, SchemaFollowsRecord, Serving, InUpdate
      <4> QED BY <1>a, <2>3, <2>5, <4>1, <4>2
    <3> QED BY <3>1, <3>2, <3>3 DEF SchemaFollowsRecord, Serving, InUpdate
  <2> QED BY <2>6, <2>7, <2>8, <2>9 DEF MigrationInv
<1>7. ASSUME NEW p \in Procs, Migrated(p)
      PROVE  MigrationInv'
  <2>1. /\ proc'[p].pc = IF p = "server" THEN "up" ELSE "off"
        /\ \A q \in Procs \ {p} : proc'[q] = proc[q]
    BY <1>a, <1>7 DEF Migrated, Local, Off
  <2>2. recorded = Migrations
    BY <1>a, <1>7 DEF Migrated, MigrationInv, NothingSkipped, Migrating
  <2> QED BY <1>7, <2>1, <2>2, OutsideTransaction DEF Migrated, InTransaction
<1>8. ASSUME NEW p \in Procs, End(p)
      PROVE  MigrationInv'
  <2>1. proc'[p].pc = "off" /\ \A q \in Procs \ {p} : proc'[q] = proc[q]
    BY <1>a, <1>8 DEF End, Off
  <2>2. CASE writer.by # p
    <3>1. proc[p].pc \notin InTransaction
      BY <2>2, <1>b
    <3>2. writer' = writer
      BY <1>8, <2>2 DEF End
    <3> QED BY <1>8, <2>1, <3>1, <3>2, OutsideTransaction
            DEF End, schema, InTransaction, Serving, InUpdate
  <2>3. CASE writer.by = p
    <3>1. writer' = NoTx /\ recorded' = recorded /\ effects' = effects
      BY <1>8, <2>3 DEF End
    <3>2. \A q \in Procs : proc'[q].pc \notin InTransaction
      BY <1>b, <2>1, <2>3 DEF MigrationInv, LockIsHeld, InTransaction
    <3>3. LockIsHeld'
      BY <3>1, <3>2 DEF LockIsHeld, NoTx, Procs
    <3>4. NothingSkipped'
      BY <2>1, <3>1, <3>2 DEF MigrationInv, NothingSkipped, Migrating
    <3>5. TransactionHolds'
      BY <3>2 DEF TransactionHolds, InTransaction
    <3>6. SchemaFollowsRecord'
      <4>1. proc'["server"].pc \in Serving => proc["server"].pc \in Serving
        BY <2>1 DEF Serving, InUpdate, Procs
      <4> QED BY <3>1, <4>1 DEF MigrationInv, SchemaFollowsRecord, Serving, InUpdate
    <3> QED BY <3>3, <3>4, <3>5, <3>6 DEF MigrationInv
  <2> QED BY <2>2, <2>3
\* A switch is no business of the schema's.
<1>9. ASSUME NEW p \in Procs,
             Switch(p) \/ Backup(p) \/ FillBackup(p) \/ Write(p) \/ Fill(p) \/ Adopt(p)
               \/ UpdateFails(p)
      PROVE  MigrationInv'
  <2>1. proc[p].pc \in Serving /\ UNCHANGED schema
    BY <1>9 DEF Switch, Backup, FillBackup, Write, Fill, Adopt, UpdateFails, Updating,
                Serving, InUpdate
  <2>2. proc'[p].pc \in Serving \cup {"off"} /\ \A q \in Procs \ {p} : proc'[q] = proc[q]
    <3>1. CASE Switch(p)
      <4>1. PICK target \in [Keys -> Values] :
              proc' = [proc EXCEPT ![p].pc = IF env.there THEN "backup" ELSE "write",
                                   ![p].lines = env.lines, ![p].target = target]
        BY <3>1 DEF Switch
      <4>2. proc'[p].pc = IF env.there THEN "backup" ELSE "write"
        BY <1>a, <4>1 DEF Local
      <4> QED BY <1>a, <4>1, <4>2 DEF Serving, InUpdate
    <3>2. CASE Backup(p) \/ FillBackup(p) \/ Write(p) \/ Fill(p)
      BY <1>a, <3>2 DEF Backup, FillBackup, Write, Fill, Serving, InUpdate, Local
    <3>3. CASE Adopt(p) \/ UpdateFails(p)
      <4> DEFINE after(s) == IF p = "cli" THEN Off ELSE [Off EXCEPT !.pc = "up", !.settings = s]
      <4>1. \A s : after(s).pc \in {"up", "off"}
        BY DEF Off
      <4>2. \/ proc' = [proc EXCEPT ![p] = after(proc[p].target)]
            \/ proc' = [proc EXCEPT ![p] = after(proc[p].settings)]
        BY <3>3 DEF Adopt, UpdateFails
      <4> HIDE DEF after
      <4> QED BY <1>a, <4>1, <4>2 DEF Serving
    <3> QED BY <1>9, <3>1, <3>2, <3>3
  <2>3. p = "server" => recorded = Migrations
    BY <2>1 DEF MigrationInv, SchemaFollowsRecord, Serving, InUpdate
  <2> QED BY <2>1, <2>2, <2>3, OutsideTransaction DEF InTransaction, Serving, InUpdate
<1> QED BY <1>0, <1>1, <1>2, <1>3, <1>4, <1>5, <1>6, <1>7, <1>8, <1>9 DEF StartupNext, Step

-----------------------------------------------------------------------------

\* Which line of a key Load reads: the first.
LEMMA FromFileIsFirst ==
  ASSUME NEW lines \in Seq(Line), NEW key
  PROVE  \/ LinesOf(lines, key) = {} /\ FromFile(lines, key) = Unset
         \/ \E i \in LinesOf(lines, key) :
              /\ FromFile(lines, key) = lines[i].val
              /\ \A j \in LinesOf(lines, key) : i <= j
<1>1. LinesOf(lines, key) \in SUBSET Nat
  BY DEF LinesOf
<1>2. CASE LinesOf(lines, key) # {}
  <2>1. \E i \in LinesOf(lines, key) : \A j \in LinesOf(lines, key) : i <= j
    BY <1>1, <1>2, LeastElement
  <2>2. FromFile(lines, key) = lines[Min(LinesOf(lines, key))].val
    BY <1>2 DEF FromFile
  <2> QED BY <2>1, <2>2 DEF Min
<1>3. CASE LinesOf(lines, key) = {}
  BY <1>3 DEF FromFile
<1> QED BY <1>2, <1>3

LEMMA FromFileType ==
  ASSUME NEW lines \in Seq(Line), NEW key
  PROVE  FromFile(lines, key) \in Texts
<1>1. \A i \in LinesOf(lines, key) : lines[i].val \in Texts
  <2>1. \A i \in DOMAIN lines : lines[i] \in Line
    OBVIOUS
  <2> QED BY <2>1 DEF LinesOf, Line
<1>2. Unset \in Texts
  BY DEF Texts
<1> QED BY <1>1, <1>2, FromFileIsFirst

\* What Update writes: every line in its place, those of its keys with the new values,
\* and then the keys that had none.
LEMMA UpdatedShape ==
  ASSUME NEW lines \in Seq(Line), NEW target \in Settings, NEW added \in Seq(Keys)
  PROVE  /\ Updated(lines, target, added) \in Seq(Line)
         /\ Len(Updated(lines, target, added)) = Len(lines) + Len(added)
         /\ \A i \in 1 .. Len(lines) :
              Updated(lines, target, added)[i] =
                IF lines[i].key \in Keys THEN LineOf(lines[i].key, target) ELSE lines[i]
         /\ \A i \in 1 .. Len(added) :
              Updated(lines, target, added)[Len(lines) + i] = LineOf(added[i], target)
<1> DEFINE new(i) == IF lines[i].key \in Keys THEN LineOf(lines[i].key, target) ELSE lines[i]
           a == [i \in DOMAIN lines |-> new(i)]
           b == [i \in DOMAIN added |-> LineOf(added[i], target)]
<1>1. \A key \in Keys : LineOf(key, target) \in Line
  BY DEF LineOf, Line, Settings
<1>2. a \in Seq(Line) /\ Len(a) = Len(lines) /\ \A i \in 1 .. Len(lines) : a[i] = new(i)
  <2>1. DOMAIN lines = 1 .. Len(lines) /\ Len(lines) \in Nat
    OBVIOUS
  <2>2. \A i \in 1 .. Len(lines) : new(i) \in Line
    BY <1>1
  <2> HIDE DEF new
  <2> QED BY <2>1, <2>2
<1>3. b \in Seq(Line) /\ Len(b) = Len(added) /\ \A i \in 1 .. Len(added) : b[i] = LineOf(added[i], target)
  <2>1. DOMAIN added = 1 .. Len(added) /\ Len(added) \in Nat
    OBVIOUS
  <2>2. \A i \in 1 .. Len(added) : LineOf(added[i], target) \in Line
    BY <1>1
  <2> QED BY <2>1, <2>2
<1>4. Updated(lines, target, added) = a \o b
  BY DEF Updated
<1> HIDE DEF a, b
<1>5. a \o b \in Seq(Line) /\ Len(a \o b) = Len(a) + Len(b)
  BY ONLY <1>2, <1>3, ConcatProperties
<1>6. \A i \in 1 .. Len(a) + Len(b) : (a \o b)[i] = IF i <= Len(a) THEN a[i] ELSE b[i - Len(a)]
  BY ONLY <1>2, <1>3, ConcatProperties
<1>7. /\ \A i \in 1 .. Len(a) : (a \o b)[i] = a[i]
      /\ \A i \in 1 .. Len(b) : (a \o b)[Len(a) + i] = b[i]
  <2>1. Len(a) \in Nat /\ Len(b) \in Nat
    BY <1>2, <1>3
  <2>2. ASSUME NEW i \in 1 .. Len(b) PROVE (a \o b)[Len(a) + i] = b[i]
    <3>1. Len(a) + i \in 1 .. Len(a) + Len(b) /\ ~(Len(a) + i <= Len(a)) /\ (Len(a) + i) - Len(a) = i
      BY <2>1
    <3> QED BY <1>6, <3>1
  <2> QED BY <1>6, <2>1, <2>2
<1> QED BY <1>2, <1>3, <1>4, <1>5, <1>7

LEMMA StartupTypeInit == StartupInit => StartupTypeOK
<1> SUFFICES ASSUME StartupInit PROVE StartupTypeOK
  OBVIOUS
<1>1. Unset \in Texts /\ <<>> \in Seq(Line)
  BY DEF Texts
<1>2. env \in File
  <2>1. NoFile \in File /\ \A lines \in Seq(Line) : Written(lines) \in File
    BY <1>1 DEF File, Written, NoFile
  <2>2. \/ env = NoFile
        \/ \E lines \in InitialFiles : env = Written(lines)
    BY DEF StartupInit
  <2>3. \A lines \in InitialFiles : lines \in Seq(Line)
    BY StartupConstants
  <2> QED BY <2>1, <2>2, <2>3
<1>3. bak \in File
  BY <1>1 DEF StartupInit, File, NoFile
<1>4. Off \in Local
  BY <1>1 DEF Off, Local, Settings
<1>5. shell \in Settings
  BY StartupConstants DEF StartupInit, Settings, Texts
<1> QED BY <1>2, <1>3, <1>4, <1>5
        DEF StartupInit, StartupTypeOK, NoTx

\* A process's record gets another place in the program and other settings.
LEMMA LocalType ==
  ASSUME NEW p \in Procs, proc \in [Procs -> Local]
  PROVE  /\ Off \in Local
         /\ \A pc \in {"off", "migrate"} \cup Migrating \cup Serving : [proc[p] EXCEPT !.pc = pc] \in Local
         /\ \A pc \in {"off", "migrate"} \cup Migrating \cup Serving, s \in Settings :
              [Off EXCEPT !.pc = pc, !.settings = s] \in Local
         /\ \A v \in Local : [proc EXCEPT ![p] = v] \in [Procs -> Local]
<1>1. Unset \in Texts /\ <<>> \in Seq(Line)
  BY DEF Texts
<1>2. Off \in Local
  BY <1>1 DEF Off, Local, Settings
<1> QED BY <1>2 DEF Local

\* Fill writes what Update makes of the lines it read; every key that had none is added.
LEMMA FillWrites ==
  ASSUME StartupTypeOK, NEW p \in Procs, Fill(p)
  PROVE  \E added \in Seq(Keys) :
           /\ env' = Written(Updated(proc[p].lines, proc[p].target, added))
           /\ Updated(proc[p].lines, proc[p].target, added) \in Seq(Line)
           /\ \A key \in Keys : LinesOf(proc[p].lines, key) = {} => \E i \in 1 .. Len(added) : added[i] = key
<1> DEFINE lines == proc[p].lines
           target == proc[p].target
           missing == {key \in Keys : LinesOf(lines, key) = {}}
<1>1. lines \in Seq(Line) /\ target \in Settings
  BY DEF StartupTypeOK, Local
<1>2. PICK added \in SetToSeqs(missing) : env' = Written(Updated(lines, target, added))
  BY DEF Fill
<1>3. IsFiniteSet(missing)
  BY StartupConstants, FS_Subset
<1> DEFINE n == Cardinality(missing)
<1>4. n \in Nat
  BY <1>3, FS_CardinalityType
<1>5. /\ added \in [1 .. n -> missing]
      /\ \A i, j \in 1 .. n : i # j => added[i] # added[j]
  BY <1>2 DEF SetToSeqs
<1>6. added \in Seq(Keys) /\ Len(added) = n
  <2>1. added \in [1 .. n -> Keys]
    BY <1>5
  <2> HIDE DEF n, missing
  <2> QED BY <1>4, <2>1
<1>7. ASSUME NEW key \in missing
      PROVE  \E i \in 1 .. n : added[i] = key
  <2>1. IsFiniteSet(1 .. n) /\ Cardinality(1 .. n) = n
    BY <1>4, FS_Interval
  <2>2. added \in Injection(1 .. n, missing)
    BY <1>5 DEF Injection, IsInjective
  <2>3. added \in Surjection(1 .. n, missing)
    <3>1. Cardinality(1 .. n) = Cardinality(missing)
      BY <2>1
    <3> HIDE DEF missing, n
    <3> QED BY <1>3, <2>2, <3>1, FS_Injection
  <2> QED BY <2>3 DEF Surjection
<1>8. Updated(lines, target, added) \in Seq(Line)
  BY <1>1, <1>6, UpdatedShape
<1> QED BY <1>2, <1>6, <1>7, <1>8

LEMMA StartupTypeStep ==
  StartupTypeOK /\ MigrationInv /\ [StartupNext]_startupVars => StartupTypeOK'
<1> SUFFICES ASSUME StartupTypeOK, MigrationInv, [StartupNext]_startupVars
             PROVE  StartupTypeOK'
  OBVIOUS
<1> USE DEF At, Goto, files, fixed, schema
<1>a. /\ proc \in [Procs -> Local] /\ env \in File /\ bak \in File /\ shell \in Settings
      /\ env.lines \in Seq(Line) /\ env.there \in BOOLEAN
      /\ recorded \in SUBSET Migrations /\ effects \in [Migrations -> Nat]
  BY DEF StartupTypeOK, File
<1>b. Unset \in Texts /\ \A lines \in Seq(Line) : Written(lines) \in File
  BY DEF Texts, Written, File
<1>c. Empty \in Seq(Line)
  BY <1>b DEF Empty, Line
\* A process goes to another place; the files and the schema stay.
<1>d. ASSUME NEW p \in Procs, NEW pc \in {"off", "migrate"} \cup Migrating \cup Serving,
             proc' = [proc EXCEPT ![p].pc = pc]
      PROVE  proc' \in [Procs -> Local]
  <2>1. proc' = [proc EXCEPT ![p] = [proc[p] EXCEPT !.pc = pc]]
    BY <1>d
  <2> QED BY <1>a, <2>1, LocalType
<1>0. CASE UNCHANGED startupVars
  BY <1>0 DEF startupVars, StartupTypeOK
<1>1. ASSUME NEW p \in Procs, Start(p)
      PROVE  StartupTypeOK'
  <2>1. PICK pc \in {"migrate", "up"} :
          proc' = [proc EXCEPT ![p] = [Off EXCEPT !.pc = pc,
                                                  !.settings = [key \in Keys |-> Loaded(key)]]]
    BY <1>1 DEF Start
  <2>2. [key \in Keys |-> Loaded(key)] \in Settings
    BY <1>a, FromFileType DEF Loaded, Settings
  <2>3. proc' \in [Procs -> Local]
    BY <1>a, <2>1, <2>2, LocalType DEF Serving
  <2> QED BY <1>1, <2>3 DEF Start, StartupTypeOK
<1>2. ASSUME NEW p \in Procs, ReadVersions(p)
      PROVE  StartupTypeOK'
  <2>1. proc' = [proc EXCEPT ![p].pc = "next", ![p].todo = Migrations \ recorded]
    BY <1>2 DEF ReadVersions
  <2>2. proc' \in [Procs -> Local]
    <3> DEFINE after == [proc[p] EXCEPT !.pc = "next", !.todo = Migrations \ recorded]
    <3>1. proc[p] \in Local
      BY <1>a
    <3>2. after \in Local
      BY <1>a, <3>1 DEF Local, Migrating
    <3>3. proc' = [proc EXCEPT ![p] = after]
      BY <2>1
    <3> HIDE DEF after
    <3> QED BY <1>a, <3>2, <3>3, LocalType
  <2> QED BY <1>2, <2>2 DEF ReadVersions, StartupTypeOK
<1>3. ASSUME NEW p \in Procs, Begin(p)
      PROVE  StartupTypeOK'
  <2>1. proc' \in [Procs -> Local]
    BY <1>3, <1>d DEF Begin, Migrating, InTransaction
  <2> QED BY <1>3, <2>1 DEF Begin, StartupTypeOK, NoTx
\* In its transaction a process has a next file.
<1>e. ASSUME NEW p \in Procs, proc[p].pc \in InTransaction
      PROVE  {NextFile(p)} \in SUBSET Migrations
  <2>1. proc[p].todo # {} /\ proc[p].todo \in SUBSET Migrations
    BY <1>a, <1>e DEF MigrationInv, NothingSkipped, Local
  <2> QED BY <2>1, NextFileIsFirst
<1>4. ASSUME NEW p \in Procs, Body(p)
      PROVE  StartupTypeOK'
  <2>1. proc' \in [Procs -> Local]
    BY <1>4, <1>d DEF Body, Migrating, InTransaction
  <2>2. writer' = [writer EXCEPT !.done = {NextFile(p)}] /\ {NextFile(p)} \in SUBSET Migrations
    BY <1>4, <1>e DEF Body, InTransaction
  <2> QED BY <1>4, <2>1, <2>2 DEF Body, StartupTypeOK
<1>5. ASSUME NEW p \in Procs, Record(p)
      PROVE  StartupTypeOK'
  <2>1. proc' \in [Procs -> Local]
    BY <1>5, <1>d DEF Record, Migrating, InTransaction
  <2>2. writer' = [writer EXCEPT !.recorded = {NextFile(p)}] /\ {NextFile(p)} \in SUBSET Migrations
    BY <1>5, <1>e DEF Record, InTransaction
  <2> QED BY <1>5, <2>1, <2>2 DEF Record, StartupTypeOK
<1>6. ASSUME NEW p \in Procs, Commit(p)
      PROVE  StartupTypeOK'
  <2>1. proc' = [proc EXCEPT ![p].pc = "next", ![p].todo = @ \ {NextFile(p)}]
    BY <1>6 DEF Commit
  <2>2. proc' \in [Procs -> Local]
    <3> DEFINE after == [proc[p] EXCEPT !.pc = "next", !.todo = proc[p].todo \ {NextFile(p)}]
    <3>1. proc[p] \in Local
      BY <1>a
    <3>2. after \in Local
      BY <1>a, <3>1 DEF Local, Migrating
    <3>3. proc' = [proc EXCEPT ![p] = after]
      BY <2>1
    <3> HIDE DEF after
    <3> QED BY <1>a, <3>2, <3>3, LocalType
  <2>3. recorded' \in SUBSET Migrations /\ effects' \in [Migrations -> Nat] /\ writer' = NoTx
    BY <1>6 DEF Commit, StartupTypeOK
  <2> QED BY <1>6, <2>2, <2>3 DEF Commit, StartupTypeOK, NoTx
<1>7. ASSUME NEW p \in Procs, Migrated(p)
      PROVE  StartupTypeOK'
  <2>1. proc' \in [Procs -> Local]
    BY <1>a, <1>7, <1>d, LocalType DEF Migrated, Serving
  <2> QED BY <1>7, <2>1 DEF Migrated, StartupTypeOK
<1>8. ASSUME NEW p \in Procs, Switch(p)
      PROVE  StartupTypeOK'
  <2>1. PICK target \in [Keys -> Values] :
          proc' = [proc EXCEPT ![p].pc = IF env.there THEN "backup" ELSE "write",
                               ![p].lines = env.lines, ![p].target = target]
    BY <1>8 DEF Switch
  <2>2. target \in Settings
    BY DEF Settings, Texts
  <2> DEFINE after == [proc[p] EXCEPT !.pc = IF env.there THEN "backup" ELSE "write",
                                     !.lines = env.lines, !.target = target]
  <2>3. after \in Local
    <3>1. proc[p] \in Local
      BY <1>a
    <3> QED BY <1>a, <2>2, <3>1 DEF Local, Serving, InUpdate
  <2>4. proc' = [proc EXCEPT ![p] = after]
    BY <2>1
  <2>5. proc' \in [Procs -> Local]
    <3> HIDE DEF after
    <3> QED BY <1>a, <2>3, <2>4, LocalType
  <2> QED BY <1>8, <2>5 DEF Switch, StartupTypeOK
<1>9. ASSUME NEW p \in Procs, Backup(p)
      PROVE  StartupTypeOK'
  <2>1. proc' = [proc EXCEPT ![p].pc = "backupFill", ![p].copy = env.lines]
    BY <1>9 DEF Backup
  <2>2. proc' \in [Procs -> Local]
    <3> DEFINE after == [proc[p] EXCEPT !.pc = "backupFill", !.copy = env.lines]
    <3>1. proc[p] \in Local
      BY <1>a
    <3>2. after \in Local
      BY <1>a, <3>1 DEF Local, Serving, InUpdate
    <3>3. proc' = [proc EXCEPT ![p] = after]
      BY <2>1
    <3> HIDE DEF after
    <3> QED BY <1>a, <3>2, <3>3, LocalType
  <2>3. bak' \in File
    BY <1>9, <1>b, <1>c DEF Backup
  <2> QED BY <1>9, <2>2, <2>3 DEF Backup, StartupTypeOK
<1>10. ASSUME NEW p \in Procs, FillBackup(p)
       PROVE  StartupTypeOK'
  <2>1. proc' \in [Procs -> Local]
    BY <1>10, <1>d DEF FillBackup, Serving, InUpdate
  <2>2. bak' \in File
    BY <1>10, <1>a, <1>b DEF FillBackup, Local
  <2> QED BY <1>10, <2>1, <2>2 DEF FillBackup, StartupTypeOK
<1>11. ASSUME NEW p \in Procs, Write(p)
       PROVE  StartupTypeOK'
  <2>1. proc' \in [Procs -> Local]
    BY <1>11, <1>d DEF Write, Serving, InUpdate
  <2>2. env' \in File
    BY <1>11, <1>b, <1>c DEF Write
  <2> QED BY <1>11, <2>1, <2>2 DEF Write, StartupTypeOK
<1>12. ASSUME NEW p \in Procs, Fill(p)
       PROVE  StartupTypeOK'
  <2>1. proc' \in [Procs -> Local]
    BY <1>12, <1>d DEF Fill, Serving, InUpdate
  <2>2. env' \in File
    BY <1>12, <1>b, FillWrites
  <2> QED BY <1>12, <2>1, <2>2 DEF Fill, StartupTypeOK
<1>13. ASSUME NEW p \in Procs, Adopt(p) \/ UpdateFails(p)
       PROVE  StartupTypeOK'
  <2> DEFINE after(s) == IF p = "cli" THEN Off ELSE [Off EXCEPT !.pc = "up", !.settings = s]
  <2>1. \A s \in Settings : after(s) \in Local
    BY <1>a, LocalType DEF Serving
  <2>2. proc[p].target \in Settings /\ proc[p].settings \in Settings
    BY <1>a DEF Local
  <2>3. \/ proc' = [proc EXCEPT ![p] = after(proc[p].target)]
        \/ proc' = [proc EXCEPT ![p] = after(proc[p].settings)]
    BY <1>13 DEF Adopt, UpdateFails
  <2> HIDE DEF after
  <2>4. proc' \in [Procs -> Local]
    BY <1>a, <2>1, <2>2, <2>3
  <2> QED BY <1>13, <2>4 DEF Adopt, UpdateFails, StartupTypeOK
<1>14. ASSUME NEW p \in Procs, End(p)
       PROVE  StartupTypeOK'
  <2>1. proc' \in [Procs -> Local]
    BY <1>a, <1>14, LocalType DEF End
  <2> QED BY <1>14, <2>1 DEF End, StartupTypeOK, NoTx
<1> QED BY <1>0, <1>1, <1>2, <1>3, <1>4, <1>5, <1>6, <1>7, <1>8, <1>9, <1>10, <1>11, <1>12,
           <1>13, <1>14 DEF StartupNext, Step

-----------------------------------------------------------------------------

\* Every line keeps its key, and those of Keys get their new values.
LEMMA UpdatedKeys ==
  ASSUME NEW lines \in Seq(Line), NEW target \in Settings, NEW added \in Seq(Keys)
  PROVE  /\ \A i \in 1 .. Len(lines) :
              /\ Updated(lines, target, added)[i].key = lines[i].key
              /\ lines[i].key \in Keys =>
                   Updated(lines, target, added)[i].val = target[lines[i].key]
              /\ lines[i].key \notin Keys => Updated(lines, target, added)[i] = lines[i]
         /\ \A i \in Len(lines) + 1 .. Len(Updated(lines, target, added)) :
              /\ i - Len(lines) \in 1 .. Len(added)
              /\ Updated(lines, target, added)[i].key = added[i - Len(lines)]
              /\ Updated(lines, target, added)[i].val = target[added[i - Len(lines)]]
<1> DEFINE u == Updated(lines, target, added)
           m == Len(lines)
<1>1. /\ Len(u) = m + Len(added)
      /\ \A i \in 1 .. m : u[i] = IF lines[i].key \in Keys THEN LineOf(lines[i].key, target) ELSE lines[i]
      /\ \A i \in 1 .. Len(added) : u[m + i] = LineOf(added[i], target)
  BY UpdatedShape
<1>2. m \in Nat /\ Len(added) \in Nat
  OBVIOUS
<1> HIDE DEF u, m
<1>3. ASSUME NEW i \in 1 .. m
      PROVE  /\ u[i].key = lines[i].key
             /\ lines[i].key \in Keys => u[i].val = target[lines[i].key]
             /\ lines[i].key \notin Keys => u[i] = lines[i]
  <2>1. CASE lines[i].key \in Keys
    <3>1. u[i] = LineOf(lines[i].key, target)
      BY <1>1, <2>1
    <3> QED BY <2>1, <3>1 DEF LineOf
  <2>2. CASE lines[i].key \notin Keys
    BY <1>1, <2>2
  <2> QED BY <2>1, <2>2
<1>4. ASSUME NEW i \in m + 1 .. Len(u)
      PROVE  /\ i - m \in 1 .. Len(added)
             /\ u[i].key = added[i - m] /\ u[i].val = target[added[i - m]]
  <2>1. i - m \in 1 .. Len(added) /\ m + (i - m) = i
    BY <1>1, <1>2
  <2>2. u[m + (i - m)] = LineOf(added[i - m], target)
    BY <1>1, <2>1
  <2> QED BY <2>1, <2>2 DEF LineOf
<1> QED BY <1>3, <1>4 DEF u, m

\* Of two files, the longer has the other lines of the shorter if its further lines are
\* none.
LEMMA OthersAgree ==
  ASSUME NEW u \in Seq(Line), NEW lines \in Seq(Line), Len(lines) <= Len(u),
         \A i \in 1 .. Len(lines) :
           u[i].key = lines[i].key /\ (lines[i].key = "other" => u[i] = lines[i]),
         \A i \in Len(lines) + 1 .. Len(u) : u[i].key # "other"
  PROVE  OtherLines(u) = OtherLines(lines)
<1>1. \A i \in 1 .. Len(lines) :
        /\ i \in LinesOf(u, "other") <=> i \in LinesOf(lines, "other")
        /\ i \in LinesOf(u, "other") => u[i] = lines[i]
  BY DEF LinesOf
<1>2. \A i \in Len(lines) + 1 .. Len(u) : i \notin LinesOf(u, "other")
  BY DEF LinesOf
<1> QED BY <1>1, <1>2, SelectedAgrees DEF OtherLines

\* Update writes the other lines back as it read them, and in their order.
LEMMA UpdatedKeepsOthers ==
  ASSUME NEW lines \in Seq(Line), NEW target \in Settings, NEW added \in Seq(Keys)
  PROVE  OtherLines(Updated(lines, target, added)) = OtherLines(lines)
<1> DEFINE u == Updated(lines, target, added)
<1>1. u \in Seq(Line) /\ Len(u) = Len(lines) + Len(added)
  BY UpdatedShape
<1>2. /\ \A i \in 1 .. Len(lines) :
           u[i].key = lines[i].key /\ (lines[i].key \notin Keys => u[i] = lines[i])
      /\ \A i \in Len(lines) + 1 .. Len(u) :
           i - Len(lines) \in 1 .. Len(added) /\ u[i].key = added[i - Len(lines)]
  BY UpdatedKeys
<1>3. "other" \notin Keys /\ \A i \in 1 .. Len(added) : added[i] \in Keys
  BY StartupConstants
<1> HIDE DEF u
<1>4. Len(lines) <= Len(u)
  BY <1>1
<1>5. OtherLines(u) = OtherLines(lines)
  BY <1>1, <1>2, <1>3, <1>4, OthersAgree
<1> QED BY <1>5 DEF u

\* What Load reads after an Update are the values that Update was given.
LEMMA UpdatedMatches ==
  ASSUME NEW lines \in Seq(Line), NEW target \in Settings, NEW added \in Seq(Keys),
         \A key \in Keys : LinesOf(lines, key) = {} => \E i \in 1 .. Len(added) : added[i] = key
  PROVE  \A key \in Keys : FromFile(Updated(lines, target, added), key) = target[key]
<1> TAKE key \in Keys
<1> DEFINE u == Updated(lines, target, added)
           m == Len(lines)
<1>1. u \in Seq(Line) /\ Len(u) = m + Len(added)
  BY UpdatedShape
<1>2. /\ \A i \in 1 .. m :
           u[i].key = lines[i].key /\ (lines[i].key \in Keys => u[i].val = target[lines[i].key])
      /\ \A i \in m + 1 .. Len(u) : u[i].key = added[i - m] /\ u[i].val = target[added[i - m]]
  BY UpdatedKeys
<1>3. m \in Nat /\ Len(added) \in Nat /\ DOMAIN lines = 1 .. m /\ DOMAIN u = 1 .. Len(u)
  BY <1>1
<1> HIDE DEF u
<1>4. \A i \in LinesOf(u, key) : u[i].val = target[key]
  <2> SUFFICES ASSUME NEW i \in DOMAIN u, u[i].key = key PROVE u[i].val = target[key]
    BY DEF LinesOf
  <2>1. CASE i \in 1 .. m
    <3>1. u[i].key = lines[i].key /\ (lines[i].key \in Keys => u[i].val = target[lines[i].key])
      BY <1>2, <2>1
    <3> QED BY <3>1
  <2>2. CASE i \in m + 1 .. Len(u)
    <3>1. u[i].key = added[i - m] /\ u[i].val = target[added[i - m]]
      BY <1>2, <2>2
    <3> QED BY <3>1
  <2> QED BY <1>3, <2>1, <2>2
<1>5. LinesOf(u, key) # {}
  <2>1. CASE LinesOf(lines, key) = {}
    <3>1. PICK i \in 1 .. Len(added) : added[i] = key
      BY <2>1
    <3>2. m + i \in m + 1 .. Len(u) /\ m + i \in DOMAIN u /\ (m + i) - m = i
      BY <1>1, <1>3
    <3>3. u[m + i].key = key
      BY <1>2, <3>1, <3>2
    <3> QED BY <3>2, <3>3 DEF LinesOf
  <2>2. CASE LinesOf(lines, key) # {}
    <3>1. PICK i \in 1 .. m : lines[i].key = key
      BY <1>3, <2>2 DEF LinesOf
    <3>2. i \in DOMAIN u /\ u[i].key = key
      BY <1>1, <1>2, <1>3, <3>1
    <3> QED BY <3>2 DEF LinesOf
  <2> QED BY <2>1, <2>2
<1>6. FromFile(u, key) = target[key]
  BY <1>1, <1>4, <1>5, FromFileIsFirst
<1> QED BY <1>6 DEF u

\* A step by which p does not go on with an Update leaves the files alone.
LEMMA NoUpdate ==
  ASSUME StartupTypeOK, NEW p \in Procs,
         \/ Start(p) \/ ReadVersions(p) \/ Begin(p) \/ Body(p) \/ Record(p) \/ Commit(p)
         \/ Migrated(p) \/ Adopt(p) \/ UpdateFails(p) \/ End(p)
  PROVE  /\ UNCHANGED <<env, bak, shell, original, whole>>
         /\ proc'[p].pc \notin InUpdate
         /\ \A q \in Procs \ {p} : proc'[q] = proc[q]
<1>1. proc \in [Procs -> Local]
  BY DEF StartupTypeOK
<1> USE DEF files, fixed, At, Goto
<1>2. CASE Start(p)
  <2>1. PICK pc \in {"migrate", "up"} :
          proc' = [proc EXCEPT ![p] = [Off EXCEPT !.pc = pc,
                                                  !.settings = [key \in Keys |-> Loaded(key)]]]
    BY <1>2 DEF Start
  <2>2. proc'[p].pc = pc
    BY <1>1, <2>1 DEF Off
  <2> QED BY <1>1, <1>2, <2>1, <2>2 DEF Start, InUpdate
<1>3. CASE ReadVersions(p) \/ Begin(p) \/ Body(p) \/ Record(p) \/ Commit(p)
  BY <1>1, <1>3 DEF ReadVersions, Begin, Body, Record, Commit, InUpdate, Local
<1>4. CASE Migrated(p)
  BY <1>1, <1>4 DEF Migrated, InUpdate, Local, Off
<1>5. CASE Adopt(p) \/ UpdateFails(p)
  <2> DEFINE after(v) == IF p = "cli" THEN Off ELSE [Off EXCEPT !.pc = "up", !.settings = v]
  <2>1. \A v : after(v).pc \in {"up", "off"}
    BY DEF Off
  <2>2. \/ proc' = [proc EXCEPT ![p] = after(proc[p].target)]
        \/ proc' = [proc EXCEPT ![p] = after(proc[p].settings)]
    BY <1>5 DEF Adopt, UpdateFails
  <2> HIDE DEF after
  <2> QED BY <1>1, <1>5, <2>1, <2>2 DEF Adopt, UpdateFails, InUpdate
<1>6. CASE End(p)
  BY <1>1, <1>6 DEF End, Off, InUpdate
<1> QED BY <1>2, <1>3, <1>4, <1>5, <1>6

\* A step by which p does, up to what is particular to it.
LEMMA UpdateStep ==
  ASSUME StartupTypeOK, NEW p \in Procs,
         Backup(p) \/ FillBackup(p) \/ Write(p) \/ Fill(p)
  PROVE  /\ UNCHANGED <<shell, original, whole, synced>>
         /\ proc'[p].lines = proc[p].lines /\ proc'[p].target = proc[p].target
         /\ \/ Backup(p) /\ proc[p].pc = "backup" /\ proc'[p].pc = "backupFill"
                /\ proc'[p].copy = env.lines /\ env' = env
            \/ FillBackup(p) /\ proc[p].pc = "backupFill" /\ proc'[p].pc = "write"
                /\ bak'.lines = proc[p].copy /\ env' = env
            \/ Write(p) /\ proc[p].pc = "write" /\ proc'[p].pc = "fill" /\ bak' = bak
            \/ Fill(p) /\ proc[p].pc = "fill" /\ proc'[p].pc = "adopt" /\ bak' = bak
         /\ \A q \in Procs \ {p} : proc'[q] = proc[q]
<1>1. proc \in [Procs -> Local]
  BY DEF StartupTypeOK
<1> USE DEF files, fixed, At, Goto, Written
<1>2. CASE Backup(p)
  BY <1>1, <1>2 DEF Backup, Local
<1>3. CASE FillBackup(p)
  BY <1>1, <1>3 DEF FillBackup, Local
<1>4. CASE Write(p)
  BY <1>1, <1>4 DEF Write, Local
<1>5. CASE Fill(p)
  BY <1>1, <1>5 DEF Fill, Local
<1> QED BY <1>2, <1>3, <1>4, <1>5

LEMMA LinesInit == StartupInit => LinesInv
BY DEF StartupInit, LinesInv, OneUpdates, LinesAreSafe, OtherLinesSurvive, HasAllLines, Updating,
       NoFile, Written, Off

LEMMA LinesStep ==
  StartupTypeOK /\ LinesInv /\ [StartupNext]_startupVars => LinesInv'
<1> SUFFICES ASSUME StartupTypeOK, LinesInv, [StartupNext]_startupVars
             PROVE  LinesInv'
  OBVIOUS
<1>a. proc \in [Procs -> Local] /\ env.lines \in Seq(Line) /\ env.there \in BOOLEAN
  BY DEF StartupTypeOK, File
<1>0. CASE UNCHANGED startupVars
  BY <1>0 DEF startupVars, LinesInv, OneUpdates, LinesAreSafe, OtherLinesSurvive, HasAllLines,
              Updating
<1>1. ASSUME NEW p \in Procs,
             \/ Start(p) \/ ReadVersions(p) \/ Begin(p) \/ Body(p) \/ Record(p) \/ Commit(p)
             \/ Migrated(p) \/ Adopt(p) \/ UpdateFails(p) \/ End(p)
      PROVE  LinesInv'
  <2>1. /\ UNCHANGED <<env, bak, shell, original, whole>>
        /\ proc'[p].pc \notin InUpdate
        /\ \A q \in Procs \ {p} : proc'[q] = proc[q]
    BY <1>1, NoUpdate
  <2>2. OneUpdates => OneUpdates'
    BY <2>1 DEF OneUpdates, Updating, InUpdate
  <2>3. LinesAreSafe => LinesAreSafe'
    BY <2>1 DEF LinesAreSafe, HasAllLines, Updating, InUpdate
  <2> QED BY <2>1, <2>2, <2>3 DEF LinesInv, OtherLinesSurvive, HasAllLines
<1>2. ASSUME NEW p \in Procs, Switch(p)
      PROVE  LinesInv'
  <2>1. PICK target \in [Keys -> Values] :
          proc' = [proc EXCEPT ![p].pc = IF env.there THEN "backup" ELSE "write",
                               ![p].lines = env.lines, ![p].target = target]
    BY <1>2 DEF Switch
  <2>2. /\ proc'[p].pc = IF env.there THEN "backup" ELSE "write"
        /\ proc'[p].lines = env.lines
        /\ \A q \in Procs \ {p} : proc'[q] = proc[q]
    BY <1>a, <2>1 DEF Local
  <2>3. UNCHANGED <<env, bak, original>>
    BY <1>2 DEF Switch, files, fixed
  <2>4. CASE ~(whole' /\ original # <<>>)
    BY <2>3, <2>4 DEF LinesInv, OtherLinesSurvive
  <2>5. CASE whole' /\ original # <<>>
    <3>1. (\A q \in Procs : ~Updating(q)) /\ HasAllLines(env.lines)
      BY <1>2, <2>5 DEF Switch
    \* An empty .env would not have them.
    <3>2. env.there
      <4>1. OtherLines(<<>>) = <<>>
        BY SelectionDef DEF OtherLines, Selected
      <4> QED BY <2>5, <3>1, <4>1 DEF LinesInv, HasAllLines
    <3>3. OneUpdates'
      BY <2>2, <3>1 DEF OneUpdates, Updating
    <3>4. LinesAreSafe'
      BY <2>2, <2>3, <3>1, <3>2 DEF LinesAreSafe, HasAllLines, Updating
    <3> QED BY <2>3, <3>1, <3>3, <3>4 DEF LinesInv, OtherLinesSurvive, HasAllLines
  <2> QED BY <2>4, <2>5
<1>3. ASSUME NEW p \in Procs, Backup(p) \/ FillBackup(p) \/ Write(p) \/ Fill(p)
      PROVE  LinesInv'
  <2>1. /\ UNCHANGED <<shell, original, whole, synced>>
        /\ proc'[p].lines = proc[p].lines /\ proc'[p].target = proc[p].target
        /\ \/ Backup(p) /\ proc[p].pc = "backup" /\ proc'[p].pc = "backupFill"
                /\ proc'[p].copy = env.lines /\ env' = env
           \/ FillBackup(p) /\ proc[p].pc = "backupFill" /\ proc'[p].pc = "write"
                /\ bak'.lines = proc[p].copy /\ env' = env
           \/ Write(p) /\ proc[p].pc = "write" /\ proc'[p].pc = "fill" /\ bak' = bak
           \/ Fill(p) /\ proc[p].pc = "fill" /\ proc'[p].pc = "adopt" /\ bak' = bak
        /\ \A q \in Procs \ {p} : proc'[q] = proc[q]
    BY <1>3, UpdateStep
  <2>2. env'.there \/ env'.lines = <<>>
    <3>1. CASE Fill(p)
      BY <3>1, FillWrites DEF Written
    <3> QED BY <1>3, <2>1, <3>1 DEF LinesInv, Write, Written
  <2>3. CASE ~(whole /\ original # <<>>)
    BY <2>1, <2>2, <2>3 DEF LinesInv, OtherLinesSurvive
  <2>4. CASE whole /\ original # <<>>
    <3>1. OneUpdates /\ LinesAreSafe
      BY <2>4 DEF LinesInv
    <3>2. \A q \in Procs \ {p} : ~Updating(q) /\ ~Updating(q)'
      BY <2>1, <3>1 DEF OneUpdates, Updating
    <3>3. OneUpdates'
      BY <3>2 DEF OneUpdates
    <3>4. HasAllLines(proc[p].lines) /\ HasAllLines(proc[p].lines)'
      BY <2>1, <3>1 DEF LinesAreSafe, Updating, HasAllLines
    \* The step of the file that is written.
    <3>5. /\ proc'[p].pc \in {"backup", "backupFill", "write", "adopt"} => HasAllLines(env.lines)'
          /\ proc'[p].pc = "backupFill" => HasAllLines(proc[p].copy)'
          /\ proc'[p].pc \in {"write", "fill"} => HasAllLines(bak.lines)'
      <4>1. CASE Fill(p) /\ proc[p].pc = "fill" /\ proc'[p].pc = "adopt" /\ bak' = bak
        <5>1. PICK added \in Seq(Keys) :
                env' = Written(Updated(proc[p].lines, proc[p].target, added))
          BY <4>1, FillWrites
        <5>2. proc[p].lines \in Seq(Line) /\ proc[p].target \in Settings
          BY <1>a DEF Local
        <5>3. OtherLines(env'.lines) = OtherLines(proc[p].lines)
          BY <5>1, <5>2, UpdatedKeepsOthers DEF Written
        <5> QED BY <2>1, <3>4, <4>1, <5>3 DEF HasAllLines
      <4>2. CASE /\ FillBackup(p) /\ proc[p].pc = "backupFill" /\ proc'[p].pc = "write"
                 /\ bak'.lines = proc[p].copy /\ env' = env
        BY <2>1, <3>1, <4>2 DEF LinesAreSafe, HasAllLines
      <4>3. CASE /\ Backup(p) /\ proc[p].pc = "backup" /\ proc'[p].pc = "backupFill"
                 /\ proc'[p].copy = env.lines /\ env' = env
        BY <2>1, <3>1, <4>3 DEF LinesAreSafe, HasAllLines
      <4>4. CASE Write(p) /\ proc[p].pc = "write" /\ proc'[p].pc = "fill" /\ bak' = bak
        BY <2>1, <3>1, <4>4 DEF LinesAreSafe, HasAllLines
      <4> QED BY <2>1, <4>1, <4>2, <4>3, <4>4
    <3>6. LinesAreSafe'
      <4>1. \A q \in Procs \ {p} : proc'[q].pc \notin InUpdate
        BY <3>2 DEF Updating, InUpdate
      <4> QED BY <3>4, <3>5, <4>1 DEF LinesAreSafe, Updating, InUpdate
    <3>7. HasAllLines(env.lines)' \/ HasAllLines(bak.lines)'
      BY <2>1, <3>5
    <3> QED BY <2>2, <3>3, <3>6, <3>7 DEF LinesInv, OtherLinesSurvive
  <2> QED BY <2>3, <2>4
<1> QED BY <1>0, <1>1, <1>2, <1>3 DEF StartupNext, Step

-----------------------------------------------------------------------------

LEMMA SyncInit == StartupInit => SyncInv
BY DEF StartupInit, SyncInv

LEMMA SyncStep ==
  StartupTypeOK /\ SyncInv /\ [StartupNext]_startupVars => SyncInv'
<1> SUFFICES ASSUME StartupTypeOK, SyncInv, [StartupNext]_startupVars
             PROVE  SyncInv'
  OBVIOUS
<1>a. /\ proc \in [Procs -> Local] /\ env.lines \in Seq(Line)
      /\ \A p \in Procs : proc[p].lines \in Seq(Line) /\ proc[p].target \in Settings
  BY DEF StartupTypeOK, File, Local
<1> USE DEF At, Goto
<1>0. CASE UNCHANGED startupVars
  BY <1>0 DEF startupVars, SyncInv, Matches, Updating
\* What is left of p alone when another process q takes a step outside an Update.
<1>b. ASSUME NEW p \in Procs, UNCHANGED <<env, shell>>, proc'[p].pc \notin InUpdate,
             \A q \in Procs \ {p} : proc'[q] = proc[q],
             synced' \subseteq synced \cup {p},
             p \in synced' => /\ \A q \in Procs \ {p} : ~Updating(q)
                              /\ proc'[p].pc # "off" => Matches(p)'
      PROVE  SyncInv'
  <2>1. \A q \in Procs : Updating(q)' => Updating(q) /\ q # p
    BY <1>b DEF Updating, InUpdate
  <2>2. ASSUME NEW q \in synced', q # p
        PROVE  /\ q \in Procs
               /\ \A o \in Procs : Updating(o)' => o = q
               /\ ~At(q, "off")' /\ ~Updating(q)' => Matches(q)'
               /\ At(q, "adopt")' => \A key \in Keys : FromFile(env.lines, key)' = proc'[q].target[key]
    <3>1. q \in synced /\ q \in Procs /\ proc'[q] = proc[q]
      BY <1>b, <2>2 DEF SyncInv
    <3>2. \A key : FromFile(env.lines, key)' = FromFile(env.lines, key)
      BY <1>b DEF FromFile, LinesOf
    <3> QED BY <1>b, <2>1, <3>1, <3>2 DEF SyncInv, Matches, Updating
  <2>3. p \in synced' =>
               /\ \A o \in Procs : ~Updating(o)'
               /\ ~At(p, "off")' /\ ~Updating(p)' => Matches(p)'
               /\ ~At(p, "adopt")'
    BY <1>b, <2>1 DEF InUpdate
  <2> QED BY <2>2, <2>3 DEF SyncInv
<1>1. ASSUME NEW p \in Procs, Start(p)
      PROVE  SyncInv'
  <2>1. PICK pc \in {"migrate", "up"} :
          proc' = [proc EXCEPT ![p] = [Off EXCEPT !.pc = pc,
                                                  !.settings = [key \in Keys |-> Loaded(key)]]]
    BY <1>1 DEF Start
  <2>2. proc'[p].settings = [key \in Keys |-> Loaded(key)]
    BY <1>a, <2>1 DEF Off
  <2>3. UNCHANGED <<env, shell>> /\ proc[p].pc = "off"
    BY <1>1 DEF Start, files, fixed
  <2>4. Matches(p)'
    BY <2>2, <2>3 DEF Matches, Loaded, FromFile, LinesOf
  <2>5. p \in synced' => \A q \in Procs \ {p} : ~Updating(q)
    BY <1>1 DEF Start, SyncInv
  <2>6. synced' \subseteq synced \cup {p}
    BY <1>1 DEF Start
  <2> QED BY <1>1, <1>b, <2>3, <2>4, <2>5, <2>6, NoUpdate
<1>2. ASSUME NEW p \in Procs,
             ReadVersions(p) \/ Begin(p) \/ Body(p) \/ Record(p) \/ Commit(p) \/ Migrated(p)
      PROVE  SyncInv'
  <2>1. /\ UNCHANGED <<env, shell, synced>>
        /\ proc[p].pc \notin InUpdate \cup {"off"}
        /\ proc'[p].pc # "off" => proc'[p].settings = proc[p].settings
    <3>1. CASE Migrated(p)
      BY <1>a, <3>1 DEF Migrated, files, fixed, InUpdate, Local, Off
    <3>2. CASE ReadVersions(p) \/ Begin(p) \/ Body(p) \/ Record(p) \/ Commit(p)
      BY <1>a, <3>2 DEF ReadVersions, Begin, Body, Record, Commit, files, fixed, InUpdate, Local
    <3> QED BY <1>2, <3>1, <3>2
  <2>2. p \in synced' => /\ \A q \in Procs \ {p} : ~Updating(q)
                         /\ proc'[p].pc # "off" => Matches(p)'
    <3>1. \A q \in Procs \ {p} : p \in synced => ~Updating(q)
      BY <2>1 DEF SyncInv, Updating, InUpdate
    <3>2. p \in synced => Matches(p)
      BY <2>1 DEF SyncInv, Updating, InUpdate
    <3>3. \A key : FromFile(env.lines, key)' = FromFile(env.lines, key)
      BY <2>1 DEF FromFile, LinesOf
    <3>4. Matches(p) /\ proc'[p].pc # "off" => Matches(p)'
      BY <2>1, <3>3 DEF Matches
    <3> QED BY <2>1, <3>1, <3>2, <3>4
  <2> QED BY <1>2, <1>b, <2>1, <2>2, NoUpdate
<1>3. ASSUME NEW p \in Procs, End(p) \/ UpdateFails(p)
      PROVE  SyncInv'
  <2>1. UNCHANGED <<env, shell>> /\ synced' = synced \ {p}
    BY <1>3 DEF End, UpdateFails, files, fixed
  <2> QED BY <1>3, <1>b, <2>1, NoUpdate
<1>4. ASSUME NEW p \in Procs, Adopt(p)
      PROVE  SyncInv'
  <2>1. UNCHANGED <<env, shell, synced>> /\ proc[p].pc = "adopt"
    BY <1>4 DEF Adopt, files, fixed
  <2>2. proc'[p].pc # "off" => proc'[p].settings = proc[p].target
    <3> DEFINE after == IF p = "cli" THEN Off ELSE [Off EXCEPT !.pc = "up", !.settings = proc[p].target]
    <3>1. after.pc # "off" => after.settings = proc[p].target
      BY DEF Off
    <3>2. proc' = [proc EXCEPT ![p] = after]
      BY <1>4 DEF Adopt
    <3> HIDE DEF after
    <3> QED BY <1>a, <3>1, <3>2
  <2>3. p \in synced' => /\ \A q \in Procs \ {p} : ~Updating(q)
                         /\ proc'[p].pc # "off" => Matches(p)'
    <3> SUFFICES ASSUME p \in synced
                 PROVE  /\ \A q \in Procs \ {p} : ~Updating(q)
                        /\ proc'[p].pc # "off" => Matches(p)'
      BY <2>1
    <3>1. \A q \in Procs \ {p} : ~Updating(q)
      BY DEF SyncInv
    <3>2. \A key \in Keys : FromFile(env.lines, key) = proc[p].target[key]
      BY <2>1 DEF SyncInv, At
    <3>3. \A key : FromFile(env.lines, key)' = FromFile(env.lines, key)
      BY <2>1 DEF FromFile, LinesOf
    <3>4. proc'[p].pc # "off" => \A key \in Keys : FromFile(env.lines, key)' = proc'[p].settings[key]
      BY <2>2, <3>2, <3>3
    <3> QED BY <3>1, <3>4 DEF Matches
  <2> QED BY <1>4, <1>b, <2>1, <2>3, NoUpdate
<1>5. ASSUME NEW p \in Procs, Switch(p)
      PROVE  SyncInv'
  <2>1. PICK target \in [Keys -> Values] :
          proc' = [proc EXCEPT ![p].pc = IF env.there THEN "backup" ELSE "write",
                               ![p].lines = env.lines, ![p].target = target]
    BY <1>5 DEF Switch
  <2>2. /\ proc'[p].pc \in {"backup", "write"}
        /\ \A q \in Procs \ {p} : proc'[q] = proc[q]
    BY <1>a, <2>1 DEF Local
  <2>3. synced' = IF \E q \in Procs : Updating(q) THEN {} ELSE {p}
    BY <1>5 DEF Switch
  <2> QED BY <2>2, <2>3 DEF SyncInv, Updating
\* Whoever updates is the only one in synced.
<1>6. ASSUME NEW p \in Procs, Backup(p) \/ FillBackup(p) \/ Write(p) \/ Fill(p)
      PROVE  SyncInv'
  <2>1. /\ UNCHANGED <<shell, synced>>
        /\ proc'[p].target = proc[p].target
        /\ proc[p].pc \in InUpdate /\ proc'[p].pc \in InUpdate
        /\ proc'[p].pc = "adopt" => Fill(p)
        /\ \A q \in Procs \ {p} : proc'[q] = proc[q]
    BY <1>6, UpdateStep DEF InUpdate
  <2>2. \A q \in synced' : q = p
    BY <2>1 DEF SyncInv, Updating, InUpdate
  <2>3. p \in synced' => \A q \in Procs \ {p} : ~Updating(q)'
    BY <2>1 DEF SyncInv, Updating
  <2>4. Updating(p)'
    BY <2>1 DEF Updating, InUpdate
  <2>5. At(p, "adopt")' => \A key \in Keys : FromFile(env.lines, key)' = proc'[p].target[key]
    <3>1. CASE Fill(p)
      <4>1. PICK added \in Seq(Keys) :
              /\ env' = Written(Updated(proc[p].lines, proc[p].target, added))
              /\ \A key \in Keys :
                   LinesOf(proc[p].lines, key) = {} => \E i \in 1 .. Len(added) : added[i] = key
        BY <3>1, FillWrites
      <4>2. \A key \in Keys :
              FromFile(Updated(proc[p].lines, proc[p].target, added), key) = proc[p].target[key]
        BY <1>a, <4>1, UpdatedMatches
      <4>3. env'.lines = Updated(proc[p].lines, proc[p].target, added)
        BY <4>1 DEF Written
      <4>4. \A key : FromFile(env.lines, key)' = FromFile(env'.lines, key)
        BY DEF FromFile, LinesOf
      <4> QED BY <2>1, <4>2, <4>3, <4>4
    <3> QED BY <2>1, <3>1
  <2> QED BY <2>2, <2>3, <2>4, <2>5 DEF SyncInv
<1> QED BY <1>0, <1>1, <1>2, <1>3, <1>4, <1>5, <1>6 DEF StartupNext, Step

-----------------------------------------------------------------------------

\* db.go, ApplyMigrations: wherever two processes die that migrate at once, the record
\* of migrations tells what is in the schema, and who serves has all of it.
THEOREM MigrationsFollowRecord == StartupSpec => []SchemaFollowsRecord
<1>1. StartupInit => StartupTypeOK /\ MigrationInv
  BY StartupTypeInit, MigrationInit
<1>2. StartupTypeOK /\ MigrationInv /\ [StartupNext]_startupVars
        => (StartupTypeOK /\ MigrationInv)'
  BY StartupTypeStep, MigrationStep
<1>3. MigrationInv => SchemaFollowsRecord
  BY DEF MigrationInv
<1> QED BY <1>1, <1>2, <1>3, PTL DEF StartupSpec

\* envfile.go, Update: lines that are not to change survive an Update that dies or
\* fails anywhere, in .env or in its backup.
THEOREM OtherLinesAreKept == StartupSpec => []OtherLinesSurvive
<1>1. StartupInit => StartupTypeOK /\ MigrationInv /\ LinesInv
  BY StartupTypeInit, MigrationInit, LinesInit
<1>2. StartupTypeOK /\ MigrationInv /\ LinesInv /\ [StartupNext]_startupVars
        => (StartupTypeOK /\ MigrationInv /\ LinesInv)'
  BY StartupTypeStep, MigrationStep, LinesStep
<1>3. LinesInv => OtherLinesSurvive
  BY DEF LinesInv
<1> QED BY <1>1, <1>2, <1>3, PTL DEF StartupSpec

\* switch.go with envfile.go and config.go: what a restarted process loads are the
\* settings that the last one to write .env had.
THEOREM RestartFindsSwitch == StartupSpec => []SwitchSurvivesRestart
<1>1. StartupInit => StartupTypeOK /\ MigrationInv /\ SyncInv
  BY StartupTypeInit, MigrationInit, SyncInit
<1>2. StartupTypeOK /\ MigrationInv /\ SyncInv /\ [StartupNext]_startupVars
        => (StartupTypeOK /\ MigrationInv /\ SyncInv)'
  BY StartupTypeStep, MigrationStep, SyncStep
<1>3. SyncInv => SwitchSurvivesRestart
  BY DEF SyncInv, SwitchSurvivesRestart, Matches, At, Updating
<1> QED BY <1>1, <1>2, <1>3, PTL DEF StartupSpec
=============================================================================

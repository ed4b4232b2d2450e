---------------------------- MODULE IngestProofs ----------------------------
(***************************************************************************)
(* The stages of the pipeline, for every listing, page size, limit, set of *)
(* records and answer of a service. Bronze stores what each scraper        *)
(* fetched last and reads every page of a listing; Silver keeps the last   *)
(* record of a key; Gold pairs every posting with its own vector. Each     *)
(* loop has its invariant: what is put together so far stands for a prefix *)
(* of the input.                                                           *)
(***************************************************************************)
EXTENDS Collect, SilverBuild, EmbedBatch, SelectionsProofs, TLAPS

-----------------------------------------------------------------------------
(* Collect.                                                                *)

PayloadTexts == Int \ {Absent}  \* what a record can hold
Sources == {"wanted", "work24"}
Record == [id : AllPostings, text : PayloadTexts]
RecordsFrom(s) == [id : Postings[s], text : PayloadTexts]

CollectTypeOK ==
  /\ listing \in Listings
  /\ revision \in [AllPostings -> Nat \ {0}]
  /\ bronze \in [AllPostings -> Int]
  /\ collect \in {"idle", "list", "detail", "upsert", "stored", "rolledBack"}
  /\ source \in Sources
  /\ offset \in Nat
  /\ ids \in Seq(Postings[source])
  /\ turn \in Nat \ {0}
  /\ found \in Seq(RecordsFrom(source))
  /\ batch \in Seq(Record)
  /\ shown \in [AllPostings -> Int]
  /\ failed \in SUBSET Sources
  /\ steady \in BOOLEAN

\* The last record of p in a sequence of records is what the collection has shown of p.
NoRecord(recs, p) == \A i \in DOMAIN recs : recs[i].id # p
LastShown(recs, p) ==
  \/ shown[p] = Absent /\ NoRecord(recs, p)
  \/ \E i \in DOMAIN recs :
       /\ recs[i].id = p /\ recs[i].text = shown[p]
       /\ \A j \in DOMAIN recs : recs[j].id = p => j <= i

Collecting == collect \in {"list", "detail"}
Running(s) == Collecting /\ source = s
Asked(s) ==
  collect \in {"upsert", "stored", "rolledBack"} \/ (Collecting /\ s = "wanted" /\ source = "work24")

\* Where the records of a scraper are before it runs, while it runs and after.
RecordsInPlace ==
  \A s \in Sources : \A p \in Postings[s] :
    /\ Collecting /\ ~Asked(s) => s \notin failed /\ NoRecord(batch, p)
    /\ Running(s) => LastShown(found, p)
    /\ Collecting /\ ~Asked(s) /\ ~Running(s) => shown[p] = Absent
    /\ Asked(s) => IF s \in failed THEN NoRecord(batch, p) ELSE LastShown(batch, p)

BronzeInv ==
  /\ RecordsInPlace
  /\ Collecting \/ collect = "upsert" => earlier = bronze
  /\ BronzeIsLastFetch

\* The ids of the pages read so far are those of the listing up to there.
ListingInv ==
  /\ source = "wanted" /\ steady /\ collect = "list" =>
       /\ offset <= Len(listing)
       /\ ids = WithId(SubSeq(listing, 1, offset))
  /\ ListingIsCovered

-----------------------------------------------------------------------------

LEMMA PostingsOfSources ==
  /\ DOMAIN Postings = Sources
  /\ Postings["wanted"] = Postings.wanted /\ Postings["work24"] = Postings.work24
  /\ \A s \in Sources : Postings[s] \subseteq AllPostings /\ NoId \notin Postings[s]
  /\ \A s, t \in Sources : \A p \in Postings[s] : p \in Postings[t] => s = t
  /\ \A p \in AllPostings : \E s \in Sources : p \in Postings[s]
<1>1. DOMAIN Postings = Sources
  BY DEF Postings, Sources
<1>2. Postings["wanted"] = Postings.wanted /\ Postings["work24"] = Postings.work24
  BY DEF Postings
<1>3. NoId \notin Postings.wanted /\ NoId \notin Postings.work24
  <2>1. Postings.wanted = PostingsOf(Listings) /\ Postings.work24 = PostingsOf(RowLists)
    BY DEF Postings
  <2>2. \A lists : NoId \notin PostingsOf(lists)
    BY DEF PostingsOf
  <2> QED BY <2>1, <2>2
<1>4. Postings.wanted \cap Postings.work24 = {}
  BY CollectConstants
<1> QED BY <1>1, <1>2, <1>3, <1>4 DEF Sources, AllPostings

\* Passing over NoId leaves postings.
LEMMA WithoutNoId ==
  ASSUME NEW Ids, NoId \notin Ids, NEW s \in Seq(Ids \cup {NoId})
  PROVE  Selected(s, {i \in DOMAIN s : s[i] # NoId}) \in Seq(Ids)
<1> DEFINE places == {i \in DOMAIN s : s[i] # NoId}
           sel == Selected(s, places)
<1>1. sel \in Seq(Ids \cup {NoId})
  BY SelectedType
<1>2. \A i \in 1 .. Len(sel) : sel[i] \in Ids
  <2>1. \A i \in places : s[i] \in Ids
    OBVIOUS
  <2> HIDE DEF places
  <2>2. PICK e \in [1 .. Len(sel) -> 1 .. Len(s)] :
          \A i \in 1 .. Len(sel) : e[i] \in places /\ sel[i] = s[e[i]]
    BY SelectedInOrder
  <2> HIDE DEF sel
  <2> QED BY <2>1, <2>2
<1> HIDE DEF sel
<1> QED BY <1>1, <1>2 DEF sel

LEMMA WithIdType ==
  ASSUME NEW s \in Seq(Postings["wanted"] \cup {NoId})
  PROVE  WithId(s) \in Seq(Postings["wanted"])
BY PostingsOfSources, WithoutNoId DEF WithId, Sources

LEMMA ReadableRowsType ==
  ASSUME NEW s \in Seq(Postings["work24"] \cup {NoId})
  PROVE  ReadableRows(s) \in Seq(Postings["work24"])
BY PostingsOfSources, WithoutNoId DEF ReadableRows, Sources

\* Ids of entries put together are the ids put together.
LEMMA WithIdJoins ==
  ASSUME NEW S, NEW a \in Seq(S), NEW b \in Seq(S), NEW c \in Seq(S), Joins(c, a, b)
  PROVE  Joins(WithId(c), WithId(a), WithId(b))
<1> DEFINE places(s) == {i \in DOMAIN s : s[i] # NoId}
<1>1. /\ \A i \in 1 .. Len(a) : i \in places(c) <=> i \in places(a)
      /\ \A i \in 1 .. Len(b) : Len(a) + i \in places(c) <=> i \in places(b)
  <2>1. /\ \A i \in 1 .. Len(a) : i \in 1 .. Len(c) /\ c[i] = a[i]
        /\ \A i \in 1 .. Len(b) : Len(a) + i \in 1 .. Len(c) /\ c[Len(a) + i] = b[i]
    BY DEF Joins
  <2> QED BY <2>1
<1> HIDE DEF places
<1>2. Joins(Selected(c, places(c)), Selected(a, places(a)), Selected(b, places(b)))
  BY <1>1, SelectedJoins
<1> QED BY <1>2 DEF WithId, places

LEMMA SliceType ==
  ASSUME NEW S, NEW s \in Seq(S), NEW m \in Nat \ {0}, NEW n \in Nat
  PROVE  /\ Slice(s, m, n) \in Seq(S)
         /\ SubSeq(s, m, IF n < Len(s) THEN n ELSE Len(s)) \in Seq(S)
BY SubSeqProperties DEF Slice

\* A sequence is what comes up to a place and what comes after it.
LEMMA PrefixJoins ==
  ASSUME NEW S, NEW s \in Seq(S), NEW m \in Nat, NEW n \in Nat, m <= n, n <= Len(s)
  PROVE  /\ SubSeq(s, 1, m) \in Seq(S) /\ SubSeq(s, m + 1, n) \in Seq(S) /\ SubSeq(s, 1, n) \in Seq(S)
         /\ Joins(SubSeq(s, 1, n), SubSeq(s, 1, m), SubSeq(s, m + 1, n))
BY DEF Joins

\* The first k elements are those of a beginning that has as many.
LEMMA SliceOfPrefix ==
  ASSUME NEW S, NEW a \in Seq(S), NEW b \in Seq(S), NEW c \in Seq(S), Joins(c, a, b),
         NEW k \in Nat, k <= Len(a)
  PROVE  Slice(c, 1, k) = Slice(a, 1, k)
<1>1. Slice(c, 1, k) = SubSeq(c, 1, k) /\ Slice(a, 1, k) = SubSeq(a, 1, k)
  BY DEF Slice, Joins
<1>2. SubSeq(c, 1, k) = SubSeq(a, 1, k)
  BY DEF Joins
<1> QED BY <1>1, <1>2

-----------------------------------------------------------------------------
(* The recs.                                                            *)

\* A scraper appends a record, which is now the last one of its posting.
LEMMA RecordTaken ==
  ASSUME NEW R, NEW recs \in Seq(R), NEW r \in R, NEW q,
         IF q = r.id THEN shown'[q] = r.text ELSE shown'[q] = shown[q] /\ LastShown(recs, q)
  PROVE  LastShown(Append(recs, r), q)'
<1> DEFINE more == Append(recs, r)
           n == Len(recs) + 1
<1>1. /\ DOMAIN more = 1 .. n /\ more[n] = r /\ n \in 1 .. n /\ DOMAIN recs = 1 .. n - 1
      /\ \A i \in 1 .. n - 1 : more[i] = recs[i] /\ i \in 1 .. n
      /\ \A i \in 1 .. n : i <= n /\ (i # n => i \in 1 .. n - 1)
  OBVIOUS
<1> HIDE DEF n, more
<1>2. LastShown(more, q)'
  BY <1>1 DEF LastShown, NoRecord
<1> QED BY <1>2 DEF more

\* Bronze puts the records of a scraper behind those of the scrapers before.
LEMMA RecordsJoined ==
  ASSUME NEW R, NEW a \in Seq(R), NEW b \in Seq(R), NEW c \in Seq(R), Joins(c, a, b), NEW q
  PROVE  /\ NoRecord(a, q) /\ NoRecord(b, q) => NoRecord(c, q)
         /\ NoRecord(a, q) /\ LastShown(b, q) => LastShown(c, q)
         /\ LastShown(a, q) /\ NoRecord(b, q) => LastShown(c, q)
<1>1. /\ DOMAIN a = 1 .. Len(a) /\ DOMAIN b = 1 .. Len(b) /\ DOMAIN c = 1 .. Len(c)
      /\ \A i \in 1 .. Len(a) : i \in 1 .. Len(c) /\ c[i] = a[i]
      /\ \A i \in 1 .. Len(b) : Len(a) + i \in 1 .. Len(c) /\ c[Len(a) + i] = b[i]
      /\ \A i \in 1 .. Len(c) :
           i \in 1 .. Len(a) \/ (i - Len(a) \in 1 .. Len(b) /\ c[i] = b[i - Len(a)])
  <2>1. Len(a) \in Nat /\ Len(b) \in Nat /\ Len(c) = Len(a) + Len(b)
    BY DEF Joins
  <2>2. ASSUME NEW i \in 1 .. Len(c), i \notin 1 .. Len(a)
        PROVE  i - Len(a) \in 1 .. Len(b) /\ c[i] = b[i - Len(a)]
    <3>1. i - Len(a) \in 1 .. Len(b) /\ Len(a) + (i - Len(a)) = i
      BY <2>1, <2>2
    <3> QED BY <3>1 DEF Joins
  <2>3. /\ \A i \in 1 .. Len(a) : i \in 1 .. Len(c) /\ c[i] = a[i]
        /\ \A i \in 1 .. Len(b) : Len(a) + i \in 1 .. Len(c) /\ c[Len(a) + i] = b[i]
    BY <2>1 DEF Joins
  <2>4. DOMAIN a = 1 .. Len(a) /\ DOMAIN b = 1 .. Len(b) /\ DOMAIN c = 1 .. Len(c)
    OBVIOUS
  <2>5. \A i \in 1 .. Len(c) :
          i \in 1 .. Len(a) \/ (i - Len(a) \in 1 .. Len(b) /\ c[i] = b[i - Len(a)])
    BY ONLY <2>2
  <2> QED BY <2>3, <2>4, <2>5
<1>2. ASSUME NoRecord(a, q), NoRecord(b, q) PROVE NoRecord(c, q)
  <2> SUFFICES ASSUME NEW i \in 1 .. Len(c) PROVE c[i].id # q
    BY <1>1 DEF NoRecord
  <2>1. CASE i \in 1 .. Len(a)
    BY <1>1, <1>2, <2>1 DEF NoRecord
  <2>2. CASE i \notin 1 .. Len(a)
    BY <1>1, <1>2, <2>2 DEF NoRecord
  <2> QED BY <2>1, <2>2
<1>3. ASSUME NoRecord(a, q), LastShown(b, q) PROVE LastShown(c, q)
  <2>1. CASE NoRecord(b, q)
    BY <1>2, <1>3, <2>1 DEF LastShown, NoRecord
  <2>2. CASE ~NoRecord(b, q)
    <3>1. PICK i \in DOMAIN b :
            /\ b[i].id = q /\ b[i].text = shown[q]
            /\ \A j \in DOMAIN b : b[j].id = q => j <= i
      BY <1>3, <2>2 DEF LastShown
    <3>2. \A j \in 1 .. Len(c) : c[j].id = q => j <= Len(a) + i
      <4> TAKE j \in 1 .. Len(c)
      <4>1. CASE j \in 1 .. Len(a)
        BY <1>1, <1>3, <4>1 DEF NoRecord
      <4>2. CASE j \notin 1 .. Len(a)
        <5>1. c[j].id = q => j - Len(a) <= i
          BY <1>1, <3>1, <4>2
        <5> QED BY <1>1, <3>1, <5>1
      <4> QED BY <4>1, <4>2
    <3> QED BY <1>1, <3>1, <3>2 DEF LastShown
  <2> QED BY <2>1, <2>2
<1>4. ASSUME LastShown(a, q), NoRecord(b, q) PROVE LastShown(c, q)
  <2>1. CASE NoRecord(a, q)
    BY <1>2, <1>4, <2>1 DEF LastShown, NoRecord
  <2>2. CASE ~NoRecord(a, q)
    <3>1. PICK i \in DOMAIN a :
            /\ a[i].id = q /\ a[i].text = shown[q]
            /\ \A j \in DOMAIN a : a[j].id = q => j <= i
      BY <1>4, <2>2 DEF LastShown
    <3>2. \A j \in 1 .. Len(c) : c[j].id = q => j <= i
      <4> TAKE j \in 1 .. Len(c)
      <4>1. CASE j \in 1 .. Len(a)
        BY <1>1, <3>1, <4>1
      <4>2. CASE j \notin 1 .. Len(a)
        BY <1>1, <1>4, <4>2 DEF NoRecord
      <4> QED BY <4>1, <4>2
    <3> QED BY <1>1, <3>1, <3>2 DEF LastShown
  <2> QED BY <2>1, <2>2
<1> QED BY <1>2, <1>3, <1>4

\* What Upsert stores of a posting is its last record's payload.
LEMMA ExcludedIsLastShown ==
  ASSUME NEW q, LastShown(batch, q), batch \in Seq(Record), q \in AllPostings
  PROVE  /\ RecordsOf(q) = {} => shown[q] = Absent
         /\ RecordsOf(q) # {} => shown[q] # Absent /\ Excluded(q) = shown[q]
<1>1. CASE NoRecord(batch, q)
  <2>1. RecordsOf(q) = {}
    BY <1>1 DEF RecordsOf, NoRecord
  <2> QED BY <1>1, <2>1 DEF LastShown, NoRecord
<1>2. CASE ~NoRecord(batch, q)
  <2>1. PICK i \in DOMAIN batch :
          /\ batch[i].id = q /\ batch[i].text = shown[q]
          /\ \A j \in DOMAIN batch : batch[j].id = q => j <= i
    BY <1>2 DEF LastShown
  <2>2. i \in RecordsOf(q) /\ RecordsOf(q) \subseteq Nat /\ \A j \in RecordsOf(q) : i >= j
    BY <2>1 DEF RecordsOf
  <2>3. Max(RecordsOf(q)) \in RecordsOf(q) /\ \A j \in RecordsOf(q) : Max(RecordsOf(q)) >= j
    BY <2>2 DEF Max
  <2>4. Max(RecordsOf(q)) = i
    BY <2>2, <2>3
  <2>5. shown[q] \in PayloadTexts
    <3>1. batch[i] \in Record
      BY <2>1
    <3> QED BY <2>1, <3>1 DEF Record
  <2> QED BY <2>1, <2>2, <2>4, <2>5 DEF Excluded, PayloadTexts
<1> QED BY <1>1, <1>2

-----------------------------------------------------------------------------
(* Types of the steps.                                                     *)

LEMMA ListingType ==
  ASSUME CollectTypeOK
  PROVE  /\ listing \in Seq(Postings["wanted"] \cup {NoId})
         /\ Page \in Seq(Postings["wanted"] \cup {NoId})
         /\ WithId(Page) \in Seq(Postings["wanted"])
<1>1. listing \in Seq(Postings["wanted"] \cup {NoId})
  BY CollectConstants, PostingsOfSources DEF CollectTypeOK
<1>2. offset + 1 \in Nat \ {0} /\ offset + PageSize \in Nat
  BY CollectConstants DEF CollectTypeOK
<1>3. Page \in Seq(Postings["wanted"] \cup {NoId})
  BY <1>1, <1>2, SliceType DEF Page
<1> QED BY <1>1, <1>3, WithIdType

LEMMA CollectTypeInit == CollectInit => CollectTypeOK
<1> SUFFICES ASSUME CollectInit PROVE CollectTypeOK
  OBVIOUS
<1>1. NothingShown \in [AllPostings -> Int]
  BY DEF NothingShown, Absent
<1> QED BY <1>1 DEF CollectInit, CollectTypeOK, Sources

LEMMA CollectTypeStep ==
  CollectTypeOK /\ [CollectNext]_collectVars => CollectTypeOK'
<1> SUFFICES ASSUME CollectTypeOK, [CollectNext]_collectVars
             PROVE  CollectTypeOK'
  OBVIOUS
<1> USE DEF site, progress, history
<1>a. NothingShown \in [AllPostings -> Int] /\ "wanted" \in Sources /\ "work24" \in Sources
  BY DEF NothingShown, Absent, Sources
<1>b. \A s \in Sources : RecordsFrom(s) \subseteq Record
  BY PostingsOfSources DEF RecordsFrom, Record
<1>0. CASE UNCHANGED collectVars
  BY <1>0 DEF collectVars, CollectTypeOK
<1>1. CASE Revise
  <2>1. PICK p \in AllPostings : revision' = [revision EXCEPT ![p] = @ + 1]
    BY <1>1 DEF Revise
  <2>2. revision' \in [AllPostings -> Nat \ {0}]
    BY <2>1 DEF CollectTypeOK
  <2> QED BY <1>1, <2>2 DEF Revise, CollectTypeOK
<1>2. CASE Relist
  BY <1>2 DEF Relist, CollectTypeOK
<1>3. CASE BronzeStart
  BY <1>3, <1>a DEF BronzeStart, CollectTypeOK
<1>4. ASSUME NEW recs \in Seq(Record), NextScraper(recs), failed' \in SUBSET Sources
      PROVE  CollectTypeOK'
  BY <1>4, <1>a DEF NextScraper, CollectTypeOK
<1>5. CASE ScraperFails
  BY <1>4, <1>5 DEF ScraperFails, CollectTypeOK
<1>6. CASE ScraperDone
  <2>1. batch \in Seq(Record) /\ found \in Seq(Record)
    BY <1>b DEF CollectTypeOK
  <2>2. batch \o found \in Seq(Record)
    BY <2>1
  <2>3. NextScraper(batch \o found) /\ failed' \in SUBSET Sources
    BY <1>6 DEF ScraperDone, CollectTypeOK
  <2> DEFINE recs == batch \o found
  <2> HIDE DEF recs
  <2>4. recs \in Seq(Record) /\ NextScraper(recs)
    BY <2>2, <2>3 DEF recs
  <2> QED BY <1>4, <2>3, <2>4
<1>7. ASSUME NEW all \in Seq(Postings["wanted"])
      PROVE  Slice(all, 1, MaxItems) \in Seq(Postings["wanted"])
  BY CollectConstants, SliceType
<1>8. CASE ReadPage
  <2> DEFINE all == ids \o WithId(Page)
  <2>1. source = "wanted" /\ source' = source
    BY <1>8 DEF ReadPage
  <2>2. all \in Seq(Postings["wanted"])
    BY <2>1, ListingType DEF CollectTypeOK
  <2>3. \/ ids' = Slice(all, 1, MaxItems) /\ collect' = "detail" /\ offset' = offset
        \/ ids' = all /\ offset' = offset + PageSize /\ collect' = collect
    BY <1>8 DEF ReadPage, Listed, NextOffset
  <2> HIDE DEF all
  <2>4. ids' \in Seq(Postings["wanted"])
    BY <1>7, <2>2, <2>3
  <2>5. offset' \in Nat /\ collect' \in {"idle", "list", "detail", "upsert", "stored", "rolledBack"}
    BY <2>3, CollectConstants DEF CollectTypeOK
  <2> QED BY <1>8, <2>1, <2>4, <2>5 DEF ReadPage, CollectTypeOK
<1>9. CASE EndListing
  <2>1. source = "wanted" /\ source' = source
    BY <1>9 DEF EndListing
  <2>2. ids' \in Seq(Postings["wanted"])
    BY <1>7, <1>9, <2>1 DEF EndListing, Listed, CollectTypeOK
  <2> QED BY <1>9, <2>1, <2>2 DEF EndListing, Listed, CollectTypeOK
<1>10. CASE ReadRows
  <2>1. PICK page \in RowLists : ids' = ReadableRows(page)
    BY <1>10 DEF ReadRows
  <2>2. page \in Seq(Postings["work24"] \cup {NoId})
    BY CollectConstants, PostingsOfSources
  <2>3. ids' \in Seq(Postings["work24"])
    BY <2>1, <2>2, ReadableRowsType
  <2> QED BY <1>10, <2>3 DEF ReadRows, CollectTypeOK
<1>11. ASSUME NEW text \in PayloadTexts, Take(text), turn <= Len(ids), source' = source
       PROVE  found' \in Seq(RecordsFrom(source)) /\ shown' \in [AllPostings -> Int]
  <2>1. ids[turn] \in Postings[source]
    BY <1>11 DEF CollectTypeOK
  <2>2. [id |-> ids[turn], text |-> text] \in RecordsFrom(source)
    BY <2>1 DEF RecordsFrom
  <2>3. ids[turn] \in AllPostings /\ text \in Int
    BY <2>1, PostingsOfSources DEF CollectTypeOK, PayloadTexts
  <2> QED BY <1>11, <2>2, <2>3 DEF Take, CollectTypeOK
<1>12. CASE FetchWanted \/ FetchWork24
  <2>1. turn <= Len(ids) /\ turn' = turn + 1 /\ source' = source
    BY <1>12 DEF FetchWanted, FetchWork24
  <2>2. found' \in Seq(RecordsFrom(source)) /\ shown' \in [AllPostings -> Int]
    <3>1. ids[turn] \in AllPostings
      BY <2>1, PostingsOfSources DEF CollectTypeOK
    <3>2. revision[ids[turn]] \in PayloadTexts /\ Placeholder \in PayloadTexts
      BY <3>1 DEF CollectTypeOK, PayloadTexts, Absent, Placeholder
    <3>3. \/ \E text \in {revision[ids[turn]], Placeholder} : Take(text)
          \/ UNCHANGED <<found, shown>>
      BY <1>12 DEF FetchWanted, FetchWork24, Work24Texts
    <3> QED BY <1>11, <2>1, <3>2, <3>3 DEF CollectTypeOK
  <2> QED BY <1>12, <2>1, <2>2 DEF FetchWanted, FetchWork24, CollectTypeOK
<1>13. CASE Upsert \/ UpsertFails
  <2>1. CASE Upsert
    <3>1. ASSUME NEW p \in AllPostings, RecordsOf(p) # {}
          PROVE  Excluded(p) \in Int
      <4>1. RecordsOf(p) \in SUBSET (0 .. Len(batch))
        BY DEF RecordsOf, CollectTypeOK
      <4>2. Len(batch) \in Nat
        BY DEF CollectTypeOK
      <4>3. \E i \in RecordsOf(p) : \A j \in RecordsOf(p) : i >= j
        BY <3>1, <4>1, <4>2, GreatestElement
      <4>4. Max(RecordsOf(p)) \in RecordsOf(p)
        BY <4>3 DEF Max
      <4>5. batch[Max(RecordsOf(p))] \in Record
        BY <4>4 DEF RecordsOf, CollectTypeOK
      <4> QED BY <4>5 DEF Excluded, Record, PayloadTexts
    <3>2. bronze' \in [AllPostings -> Int]
      BY <2>1, <3>1 DEF Upsert, CollectTypeOK
    <3> QED BY <2>1, <3>2 DEF Upsert, CollectTypeOK
  <2>2. CASE UpsertFails
    BY <2>2 DEF UpsertFails, CollectTypeOK
  <2> QED BY <1>13, <2>1, <2>2
<1> QED BY <1>0, <1>1, <1>2, <1>3, <1>5, <1>6, <1>8, <1>9, <1>10, <1>12, <1>13 DEF CollectNext

-----------------------------------------------------------------------------
(* The steps of the recs.                                               *)

LEMMA BronzeInit == CollectInit => BronzeInv
BY PostingsOfSources DEF CollectInit, BronzeInv, RecordsInPlace, BronzeIsLastFetch, Collecting, Asked, Running

\* Steps that move no record: the scraper stays the same, the phase of it may change.
LEMMA NoRecordMoves ==
  ASSUME BronzeInv, UNCHANGED <<source, batch, found, shown, failed, bronze, earlier>>,
         \/ collect' = collect
         \/ collect = "list" /\ collect' \in {"list", "detail"}
  PROVE  BronzeInv'
<1>1. /\ Collecting' <=> Collecting
      /\ collect' = "upsert" <=> collect = "upsert"
      /\ collect' = "stored" <=> collect = "stored"
      /\ \A s : Running(s)' <=> Running(s)
      /\ \A s : Asked(s)' <=> Asked(s)
  BY DEF Collecting, Running, Asked
<1>2. RecordsInPlace'
  BY <1>1 DEF BronzeInv, RecordsInPlace, LastShown
<1>3. BronzeIsLastFetch'
  BY <1>1 DEF BronzeInv, BronzeIsLastFetch
<1> QED BY <1>1, <1>2, <1>3 DEF BronzeInv

LEMMA BronzeStep ==
  CollectTypeOK /\ BronzeInv /\ [CollectNext]_collectVars => BronzeInv'
<1> SUFFICES ASSUME CollectTypeOK, BronzeInv, [CollectNext]_collectVars
             PROVE  BronzeInv'
  OBVIOUS
<1> USE DEF site, progress, history
<1>0. CASE UNCHANGED collectVars
  BY <1>0, NoRecordMoves DEF collectVars
<1>1. CASE Revise \/ Relist \/ ReadPage \/ EndListing \/ ReadRows
  <2>1. UNCHANGED <<source, batch, found, shown, failed, bronze, earlier>>
    BY <1>1 DEF Revise, Relist, ReadPage, EndListing, ReadRows
  <2>2. \/ collect' = collect
        \/ collect = "list" /\ collect' \in {"list", "detail"}
    BY <1>1 DEF Revise, Relist, ReadPage, EndListing, ReadRows, Listed
  <2> QED BY <2>1, <2>2, NoRecordMoves
<1>2. CASE BronzeStart
  <2>1. /\ collect' = "list" /\ source' = "wanted" /\ batch' = <<>> /\ found' = <<>>
        /\ shown' = NothingShown /\ failed' = {} /\ earlier' = bronze /\ bronze' = bronze
    BY <1>2 DEF BronzeStart
  <2>2. Collecting' /\ (\A s \in Sources : ~Asked(s)') /\ \A s \in Sources : Running(s)' <=> s = "wanted"
    BY <2>1 DEF Collecting, Asked, Running
  <2>3. ASSUME NEW s \in Sources, NEW p \in Postings[s]
        PROVE  shown'[p] = Absent /\ NoRecord(batch, p)' /\ LastShown(found, p)'
    <3>1. p \in AllPostings
      BY PostingsOfSources
    <3> QED BY <2>1, <3>1 DEF NothingShown, NoRecord, LastShown
  <2>4. RecordsInPlace'
    BY <2>1, <2>2, <2>3 DEF RecordsInPlace
  <2> QED BY <2>1, <2>2, <2>4 DEF BronzeInv, BronzeIsLastFetch
\* The records of the scraper are settled: it is one of those asked, and the next runs.
<1>3. ASSUME NEW recs, NextScraper(recs), Collecting,
             \A s \in Sources : \A p \in Postings[s] :
               /\ source = s => IF s \in failed' THEN NoRecord(recs, p) ELSE LastShown(recs, p)
               /\ s # source /\ ~Asked(s) => s \notin failed' /\ NoRecord(recs, p)
               /\ Asked(s) => IF s \in failed' THEN NoRecord(recs, p) ELSE LastShown(recs, p)
      PROVE  BronzeInv'
  <2>1. /\ batch' = recs /\ found' = <<>> /\ source' = "work24"
        /\ collect' = IF source = "wanted" THEN "list" ELSE "upsert"
        /\ shown' = shown /\ bronze' = bronze /\ earlier' = earlier
    BY <1>3 DEF NextScraper
  <2>2. source \in Sources
    BY DEF CollectTypeOK
  <2>3. \A s \in Sources :
          /\ Asked(s)' <=> (s = source \/ Asked(s))
          /\ Collecting' => (Running(s)' <=> ~Asked(s)')
    BY <1>3, <2>1, <2>2 DEF Sources, Asked, Running, Collecting
  <2>4. \A s \in Sources : \A p \in Postings[s] :
          s # source /\ ~Asked(s) => shown[p] = Absent
    BY <1>3, <2>2 DEF BronzeInv, RecordsInPlace, Running
  <2>5. \A p : NoRecord(recs, p) <=> NoRecord(batch, p)'
    BY <2>1 DEF NoRecord
  <2>6. \A p : LastShown(recs, p) <=> LastShown(batch, p)'
    BY <2>1, <2>5 DEF LastShown
  <2>7. \A p : shown[p] = Absent => LastShown(found, p)'
    BY <2>1 DEF LastShown, NoRecord
  <2>8. \A s \in Sources : ~Collecting' => Asked(s)'
    BY <2>1, <2>2 DEF Collecting, Asked, Sources
  <2>9. RecordsInPlace'
    <3> SUFFICES ASSUME NEW s \in Sources, NEW p \in Postings[s]
                 PROVE  /\ Collecting' /\ ~Asked(s)' => s \notin failed' /\ NoRecord(batch, p)'
                        /\ Running(s)' => LastShown(found, p)'
                        /\ Collecting' /\ ~Asked(s)' /\ ~Running(s)' => shown'[p] = Absent
                        /\ Asked(s)' => IF s \in failed' THEN NoRecord(batch, p)' ELSE LastShown(batch, p)'
      BY DEF RecordsInPlace
    <3>1. CASE Asked(s)'
      <4>1. ~Running(s)'
        BY <2>3, <3>1 DEF Running
      <4> QED BY <1>3, <2>3, <2>5, <2>6, <3>1, <4>1
    <3>2. CASE ~Asked(s)'
      BY <1>3, <2>1, <2>3, <2>4, <2>5, <2>7, <3>2
    <3> QED BY <3>1, <3>2
  <2>10. collect # "stored" /\ collect' # "stored" /\ earlier = bronze
    BY <1>3, <2>1 DEF Collecting, BronzeInv
  <2> QED BY <2>1, <2>9, <2>10 DEF BronzeInv, BronzeIsLastFetch
<1>4. CASE ScraperFails
  <2>1. Collecting /\ failed' = failed \cup {source} /\ NextScraper(batch)
    BY <1>4 DEF ScraperFails, Collecting
  <2>2. ~Asked(source)
    BY <2>1 DEF Asked, Collecting
  <2> QED BY <1>3, <2>1, <2>2 DEF BronzeInv, RecordsInPlace
<1>5. CASE ScraperDone
  <2>1. Collecting /\ failed' = failed /\ NextScraper(batch \o found)
    BY <1>5 DEF ScraperDone, Collecting
  <2>2. ~Asked(source) /\ source \in Sources
    BY <2>1 DEF Asked, Collecting, CollectTypeOK
  <2>3. batch \in Seq(Record) /\ found \in Seq(Record)
    <3>1. RecordsFrom(source) \subseteq Record
      BY <2>2, PostingsOfSources DEF RecordsFrom, Record
    <3> QED BY <3>1 DEF CollectTypeOK
  <2> DEFINE recs == batch \o found
  <2>4. recs \in Seq(Record) /\ Joins(recs, batch, found)
    BY <2>3, JoinsConcat
  <2> HIDE DEF recs
  <2>5. ASSUME NEW p
        PROVE  /\ NoRecord(batch, p) /\ NoRecord(found, p) => NoRecord(recs, p)
               /\ NoRecord(batch, p) /\ LastShown(found, p) => LastShown(recs, p)
               /\ LastShown(batch, p) /\ NoRecord(found, p) => LastShown(recs, p)
    BY <2>3, <2>4, RecordsJoined
  \* The scraper has found postings of its own source only.
  <2>6. ASSUME NEW s \in Sources, NEW p \in Postings[s], s # source
        PROVE  NoRecord(found, p)
    <3>1. \A i \in DOMAIN found : found[i].id \in Postings[source]
      <4>1. \A i \in DOMAIN found : found[i] \in RecordsFrom(source)
        BY DEF CollectTypeOK
      <4> QED BY <4>1 DEF RecordsFrom
    <3> QED BY <2>2, <2>6, <3>1, PostingsOfSources DEF NoRecord
  <2>7. ASSUME NEW s \in Sources, NEW p \in Postings[s]
        PROVE  /\ source = s => IF s \in failed' THEN NoRecord(recs, p) ELSE LastShown(recs, p)
               /\ s # source /\ ~Asked(s) => s \notin failed' /\ NoRecord(recs, p)
               /\ Asked(s) => IF s \in failed' THEN NoRecord(recs, p) ELSE LastShown(recs, p)
    <3>1. CASE source = s
      <4>1. s \notin failed /\ NoRecord(batch, p) /\ LastShown(found, p)
        BY <2>1, <2>2, <3>1 DEF BronzeInv, RecordsInPlace, Running
      <4> QED BY <2>1, <2>2, <2>5, <3>1, <4>1
    <3>2. CASE source # s
      BY <2>1, <2>5, <2>6, <3>2 DEF BronzeInv, RecordsInPlace
    <3> QED BY <3>1, <3>2
  <2> QED BY <1>3, <2>1, <2>7 DEF recs
<1>6. CASE FetchWanted \/ FetchWork24
  <2>1. /\ UNCHANGED <<collect, source, batch, failed, bronze, earlier>>
        /\ collect = "detail" /\ turn <= Len(ids)
    BY <1>6 DEF FetchWanted, FetchWork24
  <2>2. \/ UNCHANGED <<found, shown>>
        \/ \E text \in {revision[ids[turn]], Placeholder} : Take(text)
    BY <1>6 DEF FetchWanted, FetchWork24, Work24Texts
  <2>3. CASE UNCHANGED <<found, shown>>
    BY <2>1, <2>3, NoRecordMoves
  <2>4. ASSUME NEW text \in {revision[ids[turn]], Placeholder}, Take(text)
        PROVE  BronzeInv'
    <3>0. PICK q, r, R, recs :
            /\ q = ids[turn] /\ r = [id |-> q, text |-> text]
            /\ R = RecordsFrom(source) /\ recs = found
      OBVIOUS
    <3>1. q \in Postings[source] /\ source \in Sources /\ q \in AllPostings
      BY <2>1, <3>0, PostingsOfSources DEF CollectTypeOK
    <3>2. text \in PayloadTexts
      BY <2>4, <3>0, <3>1 DEF CollectTypeOK, PayloadTexts, Absent, Placeholder
    <3>3. r \in RecordsFrom(source) /\ r.id = q /\ r.text = text
      BY <3>0, <3>1, <3>2 DEF RecordsFrom
    <3>4. found' = Append(found, r) /\ shown' = [shown EXCEPT ![q] = text]
      BY <2>4, <3>0 DEF Take
    <3>5. shown \in [AllPostings -> Int] /\ found \in Seq(RecordsFrom(source))
      BY DEF CollectTypeOK
    <3>6. \A p \in AllPostings : shown'[p] = IF p = q THEN text ELSE shown[p]
      BY <3>4, <3>5
    <3>7. ASSUME NEW p \in Postings[source]
          PROVE  LastShown(found, p)'
      <4>1. p \in AllPostings
        BY <3>1, PostingsOfSources
      <4>2. p # q => LastShown(found, p)
        BY <2>1, <3>1 DEF BronzeInv, RecordsInPlace, Running, Collecting
      <4>3. IF p = r.id THEN shown'[p] = r.text ELSE shown'[p] = shown[p] /\ LastShown(found, p)
        BY <3>3, <3>6, <4>1, <4>2
      <4>4. recs \in Seq(R) /\ r \in R /\ found' = Append(recs, r)
        BY <3>3, <3>4, <3>5, <3>0
      <4>5. LastShown(Append(recs, r), p)'
        BY <3>0, <4>3, <4>4, RecordTaken
      <4> QED BY <4>4, <4>5 DEF LastShown, NoRecord
    <3>8. ASSUME NEW s \in Sources, NEW p \in Postings[s], s # source
          PROVE  shown'[p] = shown[p]
      BY <3>1, <3>6, <3>8, PostingsOfSources
    <3>9. \A s : /\ Running(s)' <=> Running(s)
                 /\ Asked(s)' <=> Asked(s)
      BY <2>1 DEF Running, Asked, Collecting
    <3>10. ~Asked(source) /\ Collecting /\ Collecting'
      BY <2>1 DEF Asked, Collecting
    <3>11. RecordsInPlace'
      <4> SUFFICES ASSUME NEW s \in Sources, NEW p \in Postings[s]
                   PROVE  /\ Collecting' /\ ~Asked(s)' => s \notin failed' /\ NoRecord(batch, p)'
                          /\ Running(s)' => LastShown(found, p)'
                          /\ Collecting' /\ ~Asked(s)' /\ ~Running(s)' => shown'[p] = Absent
                          /\ Asked(s)' => IF s \in failed' THEN NoRecord(batch, p)' ELSE LastShown(batch, p)'
        BY DEF RecordsInPlace
      <4>1. NoRecord(batch, p)' <=> NoRecord(batch, p)
        BY <2>1 DEF NoRecord
      <4>2. CASE s = source
        BY <2>1, <3>7, <3>9, <3>10, <4>1, <4>2 DEF BronzeInv, RecordsInPlace, Running
      <4>3. CASE s # source
        <5>1. LastShown(batch, p)' <=> LastShown(batch, p)
          BY <2>1, <3>8, <4>3 DEF LastShown, NoRecord
        <5> QED BY <2>1, <3>8, <3>9, <3>10, <4>1, <4>3, <5>1 DEF BronzeInv, RecordsInPlace, Running
      <4> QED BY <4>2, <4>3
    <3> QED BY <2>1, <3>11 DEF BronzeInv, BronzeIsLastFetch, Collecting
  <2> QED BY <2>2, <2>3, <2>4
<1>7. CASE Upsert \/ UpsertFails
  <2>1. /\ UNCHANGED <<source, batch, found, shown, failed, earlier>>
        /\ collect = "upsert" /\ collect' \in {"stored", "rolledBack"}
    BY <1>7 DEF Upsert, UpsertFails
  <2>2. \A s : Asked(s) /\ Asked(s)' /\ ~Running(s)'
    BY <2>1 DEF Asked, Running, Collecting
  <2>3. ~Collecting'
    BY <2>1 DEF Collecting
  <2>4. RecordsInPlace'
    BY <2>1, <2>2, <2>3 DEF BronzeInv, RecordsInPlace, LastShown, NoRecord
  <2>5. BronzeIsLastFetch'
    <3>1. CASE UpsertFails
      BY <3>1 DEF UpsertFails, BronzeIsLastFetch
    <3>2. CASE Upsert
      <4> SUFFICES ASSUME NEW s \in Sources, NEW p \in Postings[s]
                   PROVE  bronze'[p] = IF s \in failed \/ shown[p] = Absent THEN earlier[p] ELSE shown[p]
        BY <2>1, PostingsOfSources DEF BronzeIsLastFetch
      <4>1. p \in AllPostings /\ batch \in Seq(Record)
        BY PostingsOfSources DEF CollectTypeOK
      <4>2. bronze'[p] = IF RecordsOf(p) = {} THEN bronze[p] ELSE Excluded(p)
        BY <3>2, <4>1 DEF Upsert
      <4>3. bronze = earlier
        BY <2>1 DEF BronzeInv
      <4>4. CASE s \in failed
        <5>1. RecordsOf(p) = {}
          BY <2>2, <4>4 DEF BronzeInv, RecordsInPlace, NoRecord, RecordsOf
        <5> QED BY <4>2, <4>3, <4>4, <5>1
      <4>5. CASE s \notin failed
        <5>1. LastShown(batch, p)
          BY <2>2, <4>5 DEF BronzeInv, RecordsInPlace
        <5> QED BY <4>1, <4>2, <4>3, <4>5, <5>1, ExcludedIsLastShown
      <4> QED BY <4>4, <4>5
    <3> QED BY <1>7, <3>1, <3>2
  <2> QED BY <2>1, <2>3, <2>4, <2>5 DEF BronzeInv
<1> QED BY <1>0, <1>1, <1>2, <1>4, <1>5, <1>6, <1>7 DEF CollectNext

-----------------------------------------------------------------------------
(* The steps of the listing.                                               *)

LEMMA NothingListed ==
  ASSUME NEW S, NEW s \in Seq(S)
  PROVE  WithId(SubSeq(s, 1, 0)) = <<>> /\ Slice(s, 1, 0) = <<>>
<1>1. SubSeq(s, 1, 0) = <<>>
  OBVIOUS
<1>2. WithId(<<>>) = <<>>
  BY SelectionDef DEF WithId, Selected
<1>3. (IF 0 < Len(s) THEN 0 ELSE Len(s)) = 0
  OBVIOUS
<1>4. Slice(s, 1, 0) = SubSeq(s, 1, 0)
  BY ONLY <1>3 DEF Slice
<1> QED BY <1>1, <1>2, <1>4

LEMMA ListingInit == CollectInit => ListingInv
BY DEF CollectInit, ListingInv, ListingIsCovered

\* With the next page, the ids are those of the listing up to the end of that page.
LEMMA PageFollows ==
  ASSUME NEW S, listing \in Seq(S), NEW m \in Nat, m <= Len(listing), m = offset,
         ids = WithId(SubSeq(listing, 1, m)), WithId(Page) \in Seq(S), ids \in Seq(S),
         NEW n, n = IF m + PageSize < Len(listing) THEN m + PageSize ELSE Len(listing)
  PROVE  /\ ids \o WithId(Page) = WithId(SubSeq(listing, 1, n))
         /\ n \in Nat /\ m <= n /\ n <= Len(listing)
<1>1. PageSize \in Nat \ {0} /\ Len(listing) \in Nat
  BY CollectConstants
<1>2. n \in Nat /\ m <= n /\ n <= Len(listing)
  BY <1>1
<1>3. PICK l : l = listing
  OBVIOUS
<1>4. Page = SubSeq(l, m + 1, n)
  BY <1>3 DEF Page, Slice
<1>5. /\ SubSeq(l, 1, m) \in Seq(S) /\ SubSeq(l, m + 1, n) \in Seq(S) /\ SubSeq(l, 1, n) \in Seq(S)
      /\ Joins(SubSeq(l, 1, n), SubSeq(l, 1, m), SubSeq(l, m + 1, n))
  BY <1>2, <1>3, PrefixJoins
<1>6. Joins(WithId(SubSeq(l, 1, n)), ids, WithId(Page))
  BY <1>3, <1>4, <1>5, WithIdJoins
<1>7. PICK a, b : a = ids /\ b = WithId(Page)
  OBVIOUS
<1>8. a \o b \in Seq(S) /\ Joins(a \o b, a, b)
  BY <1>7, JoinsConcat
<1>9. WithId(SubSeq(l, 1, n)) \in Seq(S)
  BY <1>5, SelectedType DEF WithId
<1>10. a \o b = WithId(SubSeq(l, 1, n))
  BY <1>6, <1>7, <1>8, <1>9, JoinsUnique
<1> QED BY <1>2, <1>3, <1>7, <1>10

\* As soon as there are k ids, the first k of them are the first k of the listing.
LEMMA EnoughIds ==
  ASSUME NEW S, NEW l \in Seq(S), NEW n \in Nat, n <= Len(l), NEW k \in Nat,
         \/ n = Len(l)
         \/ Len(WithId(SubSeq(l, 1, n))) >= k
  PROVE  Slice(WithId(SubSeq(l, 1, n)), 1, k) = Slice(WithId(l), 1, k)
<1>1. SubSeq(l, 1, Len(l)) = l
  OBVIOUS
<1>2. CASE n = Len(l)
  BY <1>1, <1>2
<1>3. CASE Len(WithId(SubSeq(l, 1, n))) >= k
  <2>1. Len(l) \in Nat /\ Len(l) <= Len(l)
    OBVIOUS
  <2>2. /\ SubSeq(l, 1, n) \in Seq(S) /\ SubSeq(l, n + 1, Len(l)) \in Seq(S)
        /\ Joins(l, SubSeq(l, 1, n), SubSeq(l, n + 1, Len(l)))
    BY <1>1, <2>1, PrefixJoins
  <2>3. Joins(WithId(l), WithId(SubSeq(l, 1, n)), WithId(SubSeq(l, n + 1, Len(l))))
    BY <2>2, WithIdJoins
  <2>4. /\ WithId(l) \in Seq(S) /\ WithId(SubSeq(l, 1, n)) \in Seq(S)
        /\ WithId(SubSeq(l, n + 1, Len(l))) \in Seq(S)
    BY <2>2, SelectedType DEF WithId
  <2>5. k <= Len(WithId(SubSeq(l, 1, n)))
    BY <1>3, <2>4
  <2> QED BY <2>3, <2>4, <2>5, SliceOfPrefix
<1> QED BY <1>2, <1>3

LEMMA ListingStep ==
  CollectTypeOK /\ ListingInv /\ [CollectNext]_collectVars => ListingInv'
<1> SUFFICES ASSUME CollectTypeOK, ListingInv, [CollectNext]_collectVars
             PROVE  ListingInv'
  OBVIOUS
<1> USE DEF site, progress, history
<1>a. PICK S, l : S = Postings["wanted"] \cup {NoId} /\ l = listing /\ l \in Seq(S)
  BY ListingType
<1>b. MaxItems \in Nat /\ PageSize \in Nat \ {0}
  BY CollectConstants
<1>0. CASE UNCHANGED collectVars
  BY <1>0 DEF collectVars, ListingInv, ListingIsCovered
<1>1. CASE Revise \/ FetchWanted \/ FetchWork24 \/ Upsert \/ UpsertFails
  <2>1. /\ UNCHANGED <<listing, source, steady, offset, ids>>
        /\ collect' = collect \/ collect' \in {"stored", "rolledBack"}
    BY <1>1 DEF Revise, FetchWanted, FetchWork24, Upsert, UpsertFails
  <2> QED BY <2>1 DEF ListingInv, ListingIsCovered
<1>2. CASE Relist
  BY <1>2 DEF Relist, ListingInv, ListingIsCovered
<1>3. CASE BronzeStart
  <2>1. collect' = "list" /\ offset' = 0 /\ ids' = <<>> /\ listing' = listing
    BY <1>3 DEF BronzeStart
  <2>2. WithId(SubSeq(l, 1, 0)) = <<>> /\ 0 <= Len(l)
    BY <1>a, NothingListed
  <2> QED BY <1>a, <2>1, <2>2 DEF ListingInv, ListingIsCovered
<1>4. CASE ScraperFails \/ ScraperDone
  <2>1. source' = "work24"
    BY <1>4 DEF ScraperFails, ScraperDone, NextScraper
  <2> QED BY <2>1 DEF ListingInv, ListingIsCovered
<1>5. CASE ReadRows
  BY <1>5 DEF ReadRows, ListingInv, ListingIsCovered
<1>6. CASE EndListing
  <2>1. /\ collect' = "detail" /\ listing' = listing
        /\ steady' => MaxItems = 0
        /\ ids' = Slice(ids, 1, MaxItems) /\ ids \in Seq(Postings["wanted"])
    BY <1>6 DEF EndListing, Listed, CollectTypeOK
  <2>2. WithId(listing) \in Seq(Postings["wanted"])
    BY ListingType, WithIdType
  <2>3. Slice(ids, 1, 0) = <<>> /\ Slice(WithId(listing), 1, 0) = <<>>
    BY <2>1, <2>2, NothingListed
  <2> QED BY <2>1, <2>3 DEF ListingInv, ListingIsCovered
<1>7. CASE ReadPage
  <2>1. /\ UNCHANGED <<listing, source, steady>>
        /\ source = "wanted" /\ collect = "list"
    BY <1>7 DEF ReadPage
  <2>2. CASE ~steady
    BY <2>1, <2>2 DEF ListingInv, ListingIsCovered
  <2>3. CASE steady
    <3>1. PICK m, n :
            /\ m = offset
            /\ n = IF m + PageSize < Len(listing) THEN m + PageSize ELSE Len(listing)
      OBVIOUS
    <3>2. m \in Nat /\ m <= Len(listing) /\ ids = WithId(SubSeq(listing, 1, m))
      BY <2>1, <2>3, <3>1 DEF ListingInv, CollectTypeOK
    <3>3. WithId(Page) \in Seq(S) /\ ids \in Seq(S)
      BY <1>a, <2>1, ListingType DEF CollectTypeOK
    <3>4. /\ ids \o WithId(Page) = WithId(SubSeq(l, 1, n))
          /\ n \in Nat /\ m <= n /\ n <= Len(l)
      BY <1>a, <3>1, <3>2, <3>3, PageFollows
    <3> DEFINE all == WithId(SubSeq(l, 1, n))
    <3>5. IF m + PageSize >= Len(l) \/ Len(all) >= MaxItems
          THEN ids' = Slice(all, 1, MaxItems) /\ collect' = "detail"
          ELSE ids' = all /\ offset' = m + PageSize /\ collect' = "list"
      BY <1>7, <1>a, <2>1, <3>1, <3>4 DEF ReadPage, Listed, NextOffset
    <3>6. Len(l) \in Nat
      BY <1>a
    <3>7. CASE m + PageSize >= Len(l) \/ Len(all) >= MaxItems
      <4>1. n = Len(l) \/ Len(all) >= MaxItems
        BY <1>a, <1>b, <3>1, <3>2, <3>6, <3>7
      <4>2. Slice(all, 1, MaxItems) = Slice(WithId(l), 1, MaxItems)
        BY <1>a, <1>b, <3>4, <4>1, EnoughIds
      <4> QED BY <1>a, <2>1, <3>5, <3>7, <4>2 DEF ListingInv, ListingIsCovered
    <3>8. CASE ~(m + PageSize >= Len(l) \/ Len(all) >= MaxItems)
      <4>1. n = m + PageSize
        BY <1>a, <1>b, <3>1, <3>2, <3>6, <3>8
      <4>2. ids' = all /\ offset' = n /\ collect' = "list"
        BY <3>5, <3>8, <4>1
      <4> QED BY <1>a, <2>1, <3>4, <4>2 DEF ListingInv, ListingIsCovered
    <3> QED BY <3>7, <3>8
  <2> QED BY <2>2, <2>3
<1> QED BY <1>0, <1>1, <1>2, <1>3, <1>4, <1>5, <1>6, <1>7 DEF CollectNext

-----------------------------------------------------------------------------

\* pipeline.go, Bronze, with raw.go, UpsertMany: a posting has the payload that the
\* collection fetched last, and a scraper that failed costs its own update only.
THEOREM BronzeKeepsLastFetch == CollectSpec => []BronzeIsLastFetch
<1>1. CollectInit => CollectTypeOK /\ BronzeInv
  BY CollectTypeInit, BronzeInit
<1>2. CollectTypeOK /\ BronzeInv /\ [CollectNext]_collectVars => (CollectTypeOK /\ BronzeInv)'
  BY CollectTypeStep, BronzeStep
<1>3. BronzeInv => BronzeIsLastFetch
  BY DEF BronzeInv
<1> QED BY <1>1, <1>2, <1>3, PTL DEF CollectSpec

\* wanted.go, fetchJobIDs: the pages of one listing leave no gap and no overlap, for
\* every page size, every limit and every listing.
THEOREM PagesCoverListing == CollectSpec => []ListingIsCovered
<1>1. CollectInit => CollectTypeOK /\ ListingInv
  BY CollectTypeInit, ListingInit
<1>2. CollectTypeOK /\ ListingInv /\ [CollectNext]_collectVars => (CollectTypeOK /\ ListingInv)'
  BY CollectTypeStep, ListingStep
<1>3. ListingInv => ListingIsCovered
  BY DEF ListingInv
<1> QED BY <1>1, <1>2, <1>3, PTL DEF CollectSpec

-----------------------------------------------------------------------------
(* Silver.                                                                 *)

Rows == {SilverRow(i) : i \in DOMAIN records}

UsefulOnes == {i \in DOMAIN records : Useful(records[i])}

\* The last records of their key.
LastOnes ==
  {i \in UsefulOnes : \A j \in UsefulOnes :
     records[i].source = records[j].source /\ SourceID(records[i]) = SourceID(records[j]) => j <= i}

Ascending(slice) == \A m, n \in DOMAIN slice : m < n => slice[m].from < slice[n].from
Descending(slice) == \A m, n \in DOMAIN slice : m < n => slice[m].from > slice[n].from

\* The rows normalized are those of the useful records before `to`, in their order.
AreUseful(slice, to) ==
  /\ \A m \in DOMAIN slice : slice[m].from \in UsefulOnes /\ slice[m].from < to
  /\ \A i \in UsefulOnes : i < to => \E m \in DOMAIN slice : slice[m].from = i
  /\ Ascending(slice)

\* The rows kept are those of LastOnes, among the rows normalized from the place `from` on.
AreLastFrom(slice, from) ==
  /\ \A n \in DOMAIN slice :
       slice[n].from \in LastOnes /\ \E m \in from .. Len(normalized) : slice[n] = normalized[m]
  /\ \A m \in from .. Len(normalized) :
       normalized[m].from \in LastOnes => \E n \in DOMAIN slice : slice[n] = normalized[m]

AreLast(slice) ==
  /\ \A n \in DOMAIN slice : slice[n].from \in LastOnes
  /\ \A i \in LastOnes : \E n \in DOMAIN slice : slice[n].from = i

\* Before the swap at `place`, the rows from there to its counterpart still descend.
TurnedUpTo(slice, place) ==
  \A m, n \in DOMAIN slice :
    m < n => IF place <= m /\ n <= Len(slice) + 1 - place THEN slice[m].from > slice[n].from
                                                       ELSE slice[m].from < slice[n].from

SilverInv ==
  /\ Len(records) \in Nat /\ DOMAIN records = 1 .. Len(records)
  /\ step \in {"normalize", "dedup", "reverse", "built"}
  /\ at \in Nat
  /\ normalized \in Seq(Rows) /\ out \in Seq(Rows)
  /\ step = "normalize" =>
       /\ AreUseful(normalized, at) /\ at \in 1 .. Len(records) + 1
       /\ out = <<>> /\ seen = {}
  /\ step # "normalize" => AreUseful(normalized, Len(records) + 1)
  /\ step = "dedup" =>
       /\ at <= Len(normalized)
       /\ seen = {Key(normalized[m]) : m \in at + 1 .. Len(normalized)}
       /\ AreLastFrom(out, at + 1) /\ Descending(out)
  /\ step \in {"reverse", "built"} => AreLast(out)
  /\ step = "reverse" => at >= 1 /\ TurnedUpTo(out, at)
  /\ step = "built" => Ascending(out)

-----------------------------------------------------------------------------

LEMMA RowsOfRecords ==
  /\ \A i \in DOMAIN records :
       /\ SilverRow(i) \in Rows /\ SilverRow(i).from = i
       /\ Key(SilverRow(i)) = <<records[i].source, SourceID(records[i])>>
  /\ \A row \in Rows : row.from \in DOMAIN records /\ row = SilverRow(row.from)
BY DEF Rows, SilverRow, Key

\* The records stay what they are, so the sets made of them do.
LEMMA RecordsStay ==
  ASSUME records' = records
  PROVE  /\ Rows' = Rows /\ UsefulOnes' = UsefulOnes /\ LastOnes' = LastOnes
         /\ \A i : SilverRow(i)' = SilverRow(i)
         /\ \A slice, to : AreUseful(slice, to)' <=> AreUseful(slice, to)
         /\ \A slice : AreLast(slice)' <=> AreLast(slice)
BY DEF Rows, UsefulOnes, LastOnes, SilverRow, SourceID, FullText, Useful, AreUseful, AreLast

\* One more record.
LEMMA NormalizeOne ==
  ASSUME NEW slice \in Seq(Rows), NEW i \in DOMAIN records, DOMAIN records \subseteq Nat,
         AreUseful(slice, i)
  PROVE  /\ Useful(records[i]) => AreUseful(Append(slice, SilverRow(i)), i + 1)
         /\ ~Useful(records[i]) => AreUseful(slice, i + 1)
<1>1. i \in Nat /\ (i \in UsefulOnes <=> Useful(records[i]))
  BY DEF UsefulOnes
<1>2. \A j \in UsefulOnes : j \in Nat /\ (j < i + 1 => j < i \/ j = i)
  BY DEF UsefulOnes
<1>3. CASE ~Useful(records[i])
  BY <1>1, <1>2, <1>3 DEF AreUseful
<1>4. CASE Useful(records[i])
  <2> DEFINE more == Append(slice, SilverRow(i))
             n == Len(slice) + 1
  <2>1. SilverRow(i) \in Rows /\ SilverRow(i).from = i
    BY RowsOfRecords
  <2>2. /\ DOMAIN more = 1 .. n /\ DOMAIN slice = 1 .. n - 1 /\ n \in Nat /\ n \in 1 .. n
        /\ more[n] = SilverRow(i) /\ \A m \in 1 .. n - 1 : more[m] = slice[m] /\ m \in 1 .. n
    BY <2>1
  <2> HIDE DEF more, n
  <2>3. \A m \in 1 .. n : m \in 1 .. n - 1 \/ m = n
    BY <2>2
  <2>4. \A m \in 1 .. n : more[m].from \in UsefulOnes /\ more[m].from < i + 1
    <3> TAKE m \in 1 .. n
    <3>1. CASE m = n
      BY <1>1, <1>4, <2>1, <2>2, <3>1
    <3>2. CASE m \in 1 .. n - 1
      <4>1. slice[m].from \in UsefulOnes /\ slice[m].from < i
        BY <2>2, <3>2 DEF AreUseful
      <4> QED BY <1>1, <1>2, <2>2, <3>2, <4>1
    <3> QED BY <2>3, <3>1, <3>2
  <2>5. \A j \in UsefulOnes : j < i + 1 => \E m \in 1 .. n : more[m].from = j
    BY <1>2, <2>1, <2>2 DEF AreUseful
  <2>6. ASSUME NEW l \in 1 .. n, NEW m \in 1 .. n, l < m
        PROVE  more[l].from < more[m].from
    <3>1. l \in 1 .. n - 1
      BY <2>2, <2>6
    <3>2. CASE m = n
      BY <2>1, <2>2, <3>1, <3>2 DEF AreUseful
    <3>3. CASE m \in 1 .. n - 1
      BY <2>2, <2>6, <3>1, <3>3 DEF AreUseful, Ascending
    <3> QED BY <2>3, <3>2, <3>3
  <2>7. AreUseful(more, i + 1)
    BY <2>2, <2>4, <2>5, <2>6 DEF AreUseful, Ascending
  <2> QED BY <1>4, <2>7 DEF more
<1> QED BY <1>3, <1>4

\* A row's key has been met from the end exactly when the row's record is not the last
\* of its key.
LEMMA SeenFromTheEnd ==
  ASSUME SilverInv, step = "dedup", at >= 1
  PROVE  /\ at \in DOMAIN normalized
         /\ normalized[at].from \in LastOnes <=> Key(normalized[at]) \notin seen
<1> DEFINE L == Len(normalized)
<1>1. /\ L \in Nat /\ DOMAIN normalized = 1 .. L /\ at \in 1 .. L
      /\ \A m \in 1 .. L : normalized[m] \in Rows
      /\ seen = {Key(normalized[m]) : m \in at + 1 .. L}
      /\ AreUseful(normalized, Len(records) + 1)
      /\ DOMAIN records = 1 .. Len(records) /\ Len(records) \in Nat
  BY DEF SilverInv
<1> HIDE DEF L
<1>2. \A m \in 1 .. L :
        /\ normalized[m].from \in UsefulOnes /\ normalized[m].from \in Nat
        /\ Key(normalized[m]) =
             <<records[normalized[m].from].source, SourceID(records[normalized[m].from])>>
  BY <1>1, RowsOfRecords DEF AreUseful
<1>3. \A l, m \in 1 .. L : l < m <=> normalized[l].from < normalized[m].from
  <2> TAKE l, m \in 1 .. L
  <2>1. CASE l < m
    BY <1>1, <2>1 DEF AreUseful, Ascending
  <2>2. CASE m < l
    <3>1. normalized[m].from < normalized[l].from
      BY <1>1, <2>2 DEF AreUseful, Ascending
    <3> QED BY <1>1, <1>2, <2>2, <3>1
  <2>3. CASE l = m
    BY <1>1, <1>2, <2>3
  <2> QED BY <1>1, <2>1, <2>2, <2>3
<1>4. \A j \in UsefulOnes : \E m \in 1 .. L : normalized[m].from = j
  <2> TAKE j \in UsefulOnes
  <2>1. j < Len(records) + 1
    BY <1>1 DEF UsefulOnes
  <2> QED BY <1>1, <2>1 DEF AreUseful
<1>5. ASSUME normalized[at].from \in LastOnes PROVE Key(normalized[at]) \notin seen
  <2> SUFFICES ASSUME NEW m \in at + 1 .. L, Key(normalized[m]) = Key(normalized[at])
               PROVE  FALSE
    BY <1>1
  <2>1. m \in 1 .. L /\ at < m
    BY <1>1
  <2>2. normalized[at].from < normalized[m].from
    BY <1>1, <1>3, <2>1
  <2>3. /\ records[normalized[at].from].source = records[normalized[m].from].source
        /\ SourceID(records[normalized[at].from]) = SourceID(records[normalized[m].from])
    BY <1>1, <1>2, <2>1
  <2>4. normalized[m].from <= normalized[at].from
    BY <1>2, <1>5, <2>1, <2>3 DEF LastOnes
  <2> QED BY <1>1, <1>2, <2>1, <2>2, <2>4
<1>6. ASSUME Key(normalized[at]) \notin seen PROVE normalized[at].from \in LastOnes
  <2> SUFFICES ASSUME NEW j \in UsefulOnes,
                      records[normalized[at].from].source = records[j].source,
                      SourceID(records[normalized[at].from]) = SourceID(records[j])
               PROVE  j <= normalized[at].from
    BY <1>1, <1>2 DEF LastOnes
  <2>1. PICK m \in 1 .. L : normalized[m].from = j
    BY <1>4
  <2>2. Key(normalized[m]) = Key(normalized[at])
    BY <1>1, <1>2, <2>1
  <2>3. m \notin at + 1 .. L
    BY <1>1, <1>6, <2>2
  <2>4. ~(at < m)
    BY <1>1, <2>3
  <2>5. ~(normalized[at].from < normalized[m].from)
    BY <1>1, <1>3, <2>4
  <2> QED BY <1>1, <1>2, <2>1, <2>5
<1> QED BY <1>1, <1>5, <1>6

-----------------------------------------------------------------------------

\* A row goes to the result when its record is the last of its key.
LEMMA DedupOne ==
  ASSUME SilverInv, Dedup
  PROVE  AreLastFrom(out, at + 1)' /\ Descending(out)' /\ out' \in Seq(Rows)
<1> DEFINE L == Len(normalized)
<1>1. /\ L \in Nat /\ DOMAIN normalized = 1 .. L /\ at \in 1 .. L /\ at' = at - 1
      /\ normalized' = normalized /\ records' = records
      /\ \A m \in 1 .. L : normalized[m] \in Rows
      /\ AreLastFrom(out, at + 1) /\ Descending(out) /\ out \in Seq(Rows)
      /\ AreUseful(normalized, Len(records) + 1) /\ step = "dedup" /\ at >= 1
  BY DEF SilverInv, Dedup
<1>2. at' + 1 = at /\ \A m \in at .. L : m = at \/ m \in at + 1 .. L
  BY <1>1
<1>3. LastOnes' = LastOnes
  BY <1>1, RecordsStay
<1>4. normalized[at].from \in LastOnes <=> Key(normalized[at]) \notin seen
  BY <1>1, SeenFromTheEnd
<1> HIDE DEF L
<1>5. ASSUME AreLastFrom(out', at)  PROVE AreLastFrom(out, at + 1)'
  BY <1>1, <1>2, <1>3, <1>5 DEF AreLastFrom
<1>6. CASE normalized[at].from \notin LastOnes
  <2>1. out' = out
    BY <1>4, <1>6 DEF Dedup
  <2>2. AreLastFrom(out, at)
    BY <1>1, <1>2, <1>6 DEF AreLastFrom, L
  <2> QED BY <1>1, <1>5, <2>1, <2>2 DEF Descending
<1>7. CASE normalized[at].from \in LastOnes
  <2>1. out' = Append(out, normalized[at])
    BY <1>4, <1>7 DEF Dedup
  <2> DEFINE n == Len(out) + 1
  <2>2. /\ DOMAIN out' = 1 .. n /\ DOMAIN out = 1 .. n - 1 /\ n \in Nat /\ n \in 1 .. n
        /\ out'[n] = normalized[at] /\ \A k \in 1 .. n - 1 : out'[k] = out[k] /\ k \in 1 .. n
        /\ out' \in Seq(Rows)
    BY <1>1, <2>1
  <2> HIDE DEF n
  <2>3. \A k \in 1 .. n : k \in 1 .. n - 1 \/ k = n
    BY <2>2
  <2>4. at \in at .. L /\ \A m \in at + 1 .. L : m \in at .. L
    BY <1>1
  <2>5. ASSUME NEW k \in 1 .. n
        PROVE  out'[k].from \in LastOnes /\ \E m \in at .. L : out'[k] = normalized[m]
    <3>1. CASE k = n
      BY <1>7, <2>2, <2>4, <3>1
    <3>2. CASE k \in 1 .. n - 1
      <4>1. out[k].from \in LastOnes /\ \E m \in at + 1 .. L : out[k] = normalized[m]
        BY <1>1, <2>2, <3>2 DEF AreLastFrom, L
      <4> QED BY <2>2, <2>4, <3>2, <4>1
    <3> QED BY <2>3, <3>1, <3>2
  <2>6. ASSUME NEW m \in at .. L, normalized[m].from \in LastOnes
        PROVE  \E k \in 1 .. n : out'[k] = normalized[m]
    <3>1. CASE m = at
      BY <2>2, <3>1
    <3>2. CASE m \in at + 1 .. L
      <4>1. \E k \in 1 .. n - 1 : out[k] = normalized[m]
        BY <1>1, <2>2, <2>6, <3>2 DEF AreLastFrom, L
      <4> QED BY <2>2, <4>1
    <3> QED BY <1>2, <3>1, <3>2
  <2>7. AreLastFrom(out', at)
    BY <2>2, <2>5, <2>6 DEF AreLastFrom, L
  <2>8. ASSUME NEW k \in 1 .. n, NEW l \in 1 .. n, k < l
        PROVE  out'[k].from > out'[l].from
    <3>1. k \in 1 .. n - 1
      BY <2>2, <2>8
    <3>2. CASE l = n
      <4>1. PICK m \in at + 1 .. L : out[k] = normalized[m]
        BY <1>1, <2>2, <3>1 DEF AreLastFrom, L
      <4>2. m \in 1 .. L /\ at < m
        BY <1>1
      <4>3. normalized[at].from < normalized[m].from
        BY <1>1, <4>2 DEF AreUseful, Ascending
      <4>4. normalized[at].from \in Nat /\ normalized[m].from \in Nat
        <5>1. normalized[at] \in Rows /\ normalized[m] \in Rows
          BY <1>1, <4>2
        <5> QED BY <5>1, RowsOfRecords DEF SilverInv
      <4> QED BY <2>2, <3>1, <3>2, <4>1, <4>3, <4>4
    <3>3. CASE l \in 1 .. n - 1
      BY <1>1, <2>2, <2>8, <3>1, <3>3 DEF Descending
    <3> QED BY <2>3, <3>2, <3>3
  <2> QED BY <1>1, <1>3, <1>5, <2>2, <2>7, <2>8, RecordsStay DEF Descending
<1> QED BY <1>1, <1>6, <1>7, RecordsStay

\* A swap keeps the rows, and the row at each of its places is in its final order.
LEMMA SwapOne ==
  ASSUME NEW R, NEW slice \in Seq(R), NEW a \in Nat \ {0}, NEW b \in Nat, b = Len(slice) + 1 - a, a < b,
         TurnedUpTo(slice, a), \A r \in R : r.from \in Nat,
         NEW turned, turned = [slice EXCEPT ![a] = slice[b], ![b] = slice[a]]
  PROVE  /\ turned \in Seq(R) /\ Len(turned) = Len(slice)
         /\ \A n \in DOMAIN turned : \E k \in DOMAIN slice : turned[n] = slice[k]
         /\ \A k \in DOMAIN slice : \E n \in DOMAIN turned : turned[n] = slice[k]
         /\ TurnedUpTo(turned, a + 1)
<1> DEFINE L == Len(slice)
<1>1. /\ L \in Nat /\ DOMAIN slice = 1 .. L /\ a \in 1 .. L /\ b \in 1 .. L /\ a # b
      /\ \A k \in 1 .. L : slice[k] \in R /\ slice[k].from \in Nat
  OBVIOUS
<1>2. /\ turned \in Seq(R) /\ Len(turned) = L /\ DOMAIN turned = 1 .. L
      /\ turned[a] = slice[b] /\ turned[b] = slice[a]
      /\ \A k \in 1 .. L : k # a /\ k # b => turned[k] = slice[k]
  BY <1>1
<1>3. \A n \in DOMAIN turned : \E k \in DOMAIN slice : turned[n] = slice[k]
  BY <1>1, <1>2
<1>4. \A k \in DOMAIN slice : \E n \in DOMAIN turned : turned[n] = slice[k]
  BY <1>1, <1>2
<1> DEFINE old(k) == slice[k].from
           new(k) == turned[k].from
<1>5. \A m, n \in 1 .. L : m < n => IF a <= m /\ n <= b THEN old(m) > old(n) ELSE old(m) < old(n)
  BY <1>1 DEF TurnedUpTo
<1>6. /\ new(a) = old(b) /\ new(b) = old(a) /\ \A k \in 1 .. L : k # a /\ k # b => new(k) = old(k)
      /\ \A k \in 1 .. L : old(k) \in Nat
  BY <1>1, <1>2
<1>7. Len(turned) + 1 - (a + 1) = b - 1
  BY <1>1, <1>2
<1> HIDE DEF old, new, L
<1>8. ASSUME NEW m \in 1 .. L, NEW n \in 1 .. L, m < n
      PROVE  IF a + 1 <= m /\ n <= b - 1 THEN new(m) > new(n) ELSE new(m) < new(n)
  <2>1. L \in Nat /\ a \in 1 .. L /\ b \in 1 .. L /\ a < b
    BY <1>1
  <2>2. CASE m = a
    <3>1. CASE n < b
      <4>0. a <= n /\ n # a /\ n # b /\ b <= b
        BY <1>8, <2>1, <2>2, <3>1
      <4>1. old(n) > old(b) /\ new(n) = old(n)
        BY <1>5, <1>6, <2>1, <3>1, <4>0
      <4> QED BY <1>6, <2>1, <2>2, <4>1
    <3>2. CASE n = b
      <4>1. old(a) > old(b)
        BY <1>5, <2>1
      <4> QED BY <1>6, <2>1, <2>2, <3>2, <4>1
    <3>3. CASE n > b
      <4>1. old(b) < old(n) /\ new(n) = old(n)
        BY <1>5, <1>6, <2>1, <2>2, <3>3
      <4> QED BY <1>6, <2>1, <2>2, <4>1
    <3> QED BY <2>1, <3>1, <3>2, <3>3
  <2>3. CASE m = b
    <3>1. old(a) < old(n) /\ new(n) = old(n)
      BY <1>5, <1>6, <1>8, <2>1, <2>3
    <3> QED BY <1>6, <1>8, <2>1, <2>3, <3>1
  <2>4. CASE m # a /\ m # b
    <3>1. CASE n = a
      BY <1>5, <1>6, <1>8, <2>1, <2>4, <3>1
    <3>2. CASE n = b
      <4>1. new(m) = old(m) /\ new(n) = old(a) /\ ~(n <= b - 1)
        BY <1>6, <2>1, <2>4, <3>2
      <4>2. CASE m < a
        BY <1>5, <2>1, <4>1, <4>2
      <4>3. CASE a < m
        <5>1. old(a) > old(m)
          BY <1>5, <1>8, <2>1, <3>2, <4>3
        <5> QED BY <1>6, <2>1, <4>1, <5>1
      <4> QED BY <2>1, <2>4, <4>2, <4>3
    <3>3. CASE n # a /\ n # b
      <4>1. a + 1 <= m /\ n <= b - 1 <=> a <= m /\ n <= b
        BY <2>1, <2>4, <3>3
      <4>2. IF a <= m /\ n <= b THEN old(m) > old(n) ELSE old(m) < old(n)
        BY <1>5, <1>8
      <4> QED BY <1>6, <2>4, <3>3, <4>1, <4>2
    <3> QED BY <3>1, <3>2, <3>3
  <2> QED BY <2>2, <2>3, <2>4
<1>9. TurnedUpTo(turned, a + 1)
  <2>1. \A m, n \in 1 .. L :
          m < n => IF a + 1 <= m /\ n <= b - 1 THEN turned[m].from > turned[n].from
                                               ELSE turned[m].from < turned[n].from
    BY <1>8 DEF new
  <2>2. DOMAIN turned = 1 .. L
    BY <1>2
  <2> QED BY ONLY <1>7, <2>1, <2>2 DEF TurnedUpTo
<1> QED BY <1>2, <1>3, <1>4, <1>9 DEF L

-----------------------------------------------------------------------------

LEMMA SilverInit_Inv == SilverInit => SilverInv
<1> SUFFICES ASSUME SilverInit PROVE SilverInv
  OBVIOUS
<1>1. PICK n \in 0 .. MaxRecords : records \in [1 .. n -> {r \in Records : Readable(r)}]
  BY DEF SilverInit
<1>2. n \in Nat /\ records \in Seq(Records) /\ DOMAIN records = 1 .. n
  BY <1>1, SilverConstants
<1>3. Len(records) \in Nat /\ DOMAIN records = 1 .. Len(records)
  BY <1>2
<1>4. AreUseful(<<>>, 1)
  <2>1. \A i \in UsefulOnes : ~(i < 1)
    BY <1>3 DEF UsefulOnes
  <2> QED BY <2>1 DEF AreUseful, Ascending
<1>5. 1 \in 1 .. Len(records) + 1
  BY <1>3
<1> QED BY <1>3, <1>4, <1>5 DEF SilverInit, SilverInv

LEMMA SilverStep == SilverInv /\ [SilverNext]_silverVars => SilverInv'
<1> SUFFICES ASSUME SilverInv, [SilverNext]_silverVars PROVE SilverInv'
  OBVIOUS
<1>1. /\ Len(records) \in Nat /\ DOMAIN records = 1 .. Len(records) /\ at \in Nat
      /\ normalized \in Seq(Rows) /\ out \in Seq(Rows)
      /\ Len(normalized) \in Nat /\ Len(out) \in Nat
  BY DEF SilverInv
<1>2. records' = records
  BY DEF SilverNext, silverVars, Normalize, Normalized, Dedup, Deduped, TurnAround
<1>3. /\ Rows' = Rows /\ UsefulOnes' = UsefulOnes /\ LastOnes' = LastOnes
      /\ \A slice, to : AreUseful(slice, to)' <=> AreUseful(slice, to)
      /\ \A slice : AreLast(slice)' <=> AreLast(slice)
  BY <1>2, RecordsStay
<1>0. CASE UNCHANGED silverVars
  <2>1. \A slice, from : AreLastFrom(slice, from)' <=> AreLastFrom(slice, from)
    BY <1>0, <1>3 DEF silverVars, AreLastFrom
  <2> QED BY <1>0, <1>3, <2>1 DEF silverVars, SilverInv, AreUseful, AreLast, AreLastFrom,
             Ascending, Descending, TurnedUpTo
<1>4. CASE Normalize
  <2>1. /\ step = "normalize" /\ step' = step /\ at' = at + 1 /\ at \in 1 .. Len(records)
        /\ AreUseful(normalized, at) /\ out' = <<>> /\ seen' = {}
        /\ normalized' = IF Useful(records[at]) THEN Append(normalized, SilverRow(at)) ELSE normalized
    BY <1>1, <1>4 DEF SilverInv, Normalize
  <2>2. AreUseful(normalized', at + 1)
    <3>1. at \in DOMAIN records /\ DOMAIN records \subseteq Nat
      BY <1>1, <2>1
    <3> QED BY <1>1, <2>1, <3>1, NormalizeOne
  <2>3. AreUseful(normalized, at)'
    BY <1>3, <2>1, <2>2 DEF AreUseful, Ascending
  <2>4. normalized' \in Seq(Rows)
    BY <1>1, <2>1, RowsOfRecords
  <2>5. at' \in 1 .. Len(records) + 1 /\ at' \in Nat
    BY <1>1, <2>1
  <2> QED BY <1>1, <1>2, <1>3, <2>1, <2>3, <2>4, <2>5 DEF SilverInv
<1>5. CASE Normalized
  <2>1. /\ step = "normalize" /\ step' = "dedup" /\ at' = Len(normalized) /\ at > Len(records)
        /\ UNCHANGED <<normalized, seen, out>>
        /\ AreUseful(normalized, at) /\ at \in 1 .. Len(records) + 1 /\ out = <<>> /\ seen = {}
    BY <1>5 DEF SilverInv, Normalized
  <2>2. at = Len(records) + 1
    BY <1>1, <2>1
  <2>3. AreUseful(normalized, Len(records) + 1)'
    BY <1>2, <1>3, <2>1, <2>2 DEF AreUseful, Ascending
  <2>4. at' + 1 .. Len(normalized') = {}
    BY <1>1, <2>1
  <2>5. /\ seen' = {Key(normalized'[m]) : m \in at' + 1 .. Len(normalized')}
        /\ AreLastFrom(out, at + 1)' /\ Descending(out)'
    BY <2>1, <2>4 DEF AreLastFrom, Descending
  <2> QED BY <1>1, <1>2, <1>3, <2>1, <2>3, <2>5 DEF SilverInv, Key
<1>6. CASE Dedup
  <2>1. /\ step = "dedup" /\ step' = step /\ at' = at - 1 /\ at >= 1 /\ normalized' = normalized
        /\ AreUseful(normalized, Len(records) + 1) /\ at <= Len(normalized)
        /\ seen = {Key(normalized[m]) : m \in at + 1 .. Len(normalized)}
        /\ seen' = seen \cup {Key(normalized[at])}
    BY <1>6 DEF SilverInv, Dedup
  <2>2. AreLastFrom(out, at + 1)' /\ Descending(out)' /\ out' \in Seq(Rows)
    BY <1>6, DedupOne
  <2>3. at' + 1 .. Len(normalized) = (at + 1 .. Len(normalized)) \cup {at}
    BY <1>1, <2>1
  <2>4. seen' = {Key(normalized[m]) : m \in at' + 1 .. Len(normalized)}
    BY <2>1, <2>3
  <2>5. at' \in Nat /\ at' <= Len(normalized)
    BY <1>1, <2>1
  <2>6. AreUseful(normalized, Len(records) + 1)'
    BY <1>2, <1>3, <2>1 DEF AreUseful, Ascending
  <2>7. seen' = {Key(normalized[m]) : m \in at + 1 .. Len(normalized)}'
    BY <2>1, <2>4 DEF Key
  <2> QED BY <1>1, <1>2, <1>3, <2>1, <2>2, <2>5, <2>6, <2>7 DEF SilverInv
<1>7. CASE Deduped
  <2>1. /\ step = "dedup" /\ step' = "reverse" /\ at = 0 /\ at' = 1
        /\ UNCHANGED <<normalized, seen, out>>
        /\ AreUseful(normalized, Len(records) + 1) /\ AreLastFrom(out, 1) /\ Descending(out)
    BY <1>1, <1>7 DEF SilverInv, Deduped
  <2>2. AreLast(out)
    <3>1. ASSUME NEW i \in LastOnes PROVE \E n \in DOMAIN out : out[n].from = i
      <4>1. i \in UsefulOnes /\ i < Len(records) + 1
        BY <1>1, <3>1 DEF LastOnes, UsefulOnes
      <4>2. PICK m \in DOMAIN normalized : normalized[m].from = i
        BY <2>1, <4>1 DEF AreUseful
      <4>3. m \in 1 .. Len(normalized)
        BY <1>1
      <4> QED BY <2>1, <3>1, <4>2, <4>3 DEF AreLastFrom
    <3> QED BY <2>1, <3>1 DEF AreLast, AreLastFrom
  <2>3. TurnedUpTo(out, 1)
    <3>1. \A n \in DOMAIN out : n \in Nat /\ 1 <= n /\ n <= Len(out) + 1 - 1
      BY <1>1
    <3> QED BY <2>1, <3>1 DEF TurnedUpTo, Descending
  <2>4. AreLast(out)' /\ TurnedUpTo(out, at)'
    BY <1>3, <2>1, <2>2, <2>3 DEF AreLast, TurnedUpTo
  <2>5. AreUseful(normalized, Len(records) + 1)'
    BY <1>2, <1>3, <2>1 DEF AreUseful, Ascending
  <2> QED BY <1>1, <1>2, <1>3, <2>1, <2>4, <2>5 DEF SilverInv
<1>8. CASE TurnAround
  <2>1. /\ step = "reverse" /\ at \in Nat \ {0} /\ UNCHANGED <<normalized, seen>>
        /\ AreUseful(normalized, Len(records) + 1) /\ AreLast(out) /\ TurnedUpTo(out, at)
    BY <1>8 DEF SilverInv, TurnAround
  <2>2. AreUseful(normalized, Len(records) + 1)'
    BY <1>2, <1>3, <2>1 DEF AreUseful, Ascending
  <2> DEFINE j == Len(out) + 1 - at
  <2>3. CASE at < j
    <3>1. out' = [out EXCEPT ![at] = out[j], ![j] = out[at]] /\ at' = at + 1 /\ step' = step
      BY <1>8, <2>3 DEF TurnAround
    <3>2. \A r \in Rows : r.from \in Nat
      BY <1>1, RowsOfRecords
    <3>3. j \in Nat
      BY <1>1, <2>1, <2>3
    <3>4. /\ out' \in Seq(Rows) /\ Len(out') = Len(out)
          /\ \A n \in DOMAIN out' : \E k \in DOMAIN out : out'[n] = out[k]
          /\ \A k \in DOMAIN out : \E n \in DOMAIN out' : out'[n] = out[k]
          /\ TurnedUpTo(out', at + 1)
      <4>1. PICK Q, q, i0, j0, u :
              Q = Rows /\ q = out /\ i0 = at /\ j0 = j /\ u = [q EXCEPT ![i0] = q[j0], ![j0] = q[i0]]
        OBVIOUS
      <4>2. /\ q \in Seq(Q) /\ i0 \in Nat \ {0} /\ j0 \in Nat /\ j0 = Len(q) + 1 - i0 /\ i0 < j0
            /\ TurnedUpTo(q, i0) /\ \A r \in Q : r.from \in Nat
        BY <1>1, <2>1, <2>3, <3>2, <3>3, <4>1
      <4>3. out' = u
        BY <3>1, <4>1
      <4>4. u = [q EXCEPT ![i0] = q[j0], ![j0] = q[i0]]
        BY <4>1
      <4> HIDE DEF j
      <4>5. /\ u \in Seq(Q) /\ Len(u) = Len(q)
            /\ \A n \in DOMAIN u : \E k \in DOMAIN q : u[n] = q[k]
            /\ \A k \in DOMAIN q : \E n \in DOMAIN u : u[n] = q[k]
            /\ TurnedUpTo(u, i0 + 1)
        <5>1. /\ u \in Seq(Q) /\ Len(u) = Len(q)
          BY ONLY <4>2, <4>4, SwapOne
        <5>2. \A n \in DOMAIN u : \E k \in DOMAIN q : u[n] = q[k]
          BY ONLY <4>2, <4>4, SwapOne
        <5>3. \A k \in DOMAIN q : \E n \in DOMAIN u : u[n] = q[k]
          BY ONLY <4>2, <4>4, SwapOne
        <5>4. TurnedUpTo(u, i0 + 1)
          BY ONLY <4>2, <4>4, SwapOne
        <5> QED BY <5>1, <5>2, <5>3, <5>4
      <4>6. TurnedUpTo(out', at + 1)
        BY ONLY <4>1, <4>3, <4>5
      <4>7. out' \in Seq(Rows) /\ Len(out') = Len(out)
        BY ONLY <4>1, <4>3, <4>5
      <4>8. \A n \in DOMAIN out' : \E k \in DOMAIN out : out'[n] = out[k]
        BY ONLY <4>1, <4>3, <4>5
      <4>9. \A k \in DOMAIN out : \E n \in DOMAIN out' : out'[n] = out[k]
        BY ONLY <4>1, <4>3, <4>5
      <4> QED BY <4>6, <4>7, <4>8, <4>9
    <3>5. AreLast(out')
      BY <2>1, <3>4 DEF AreLast
    <3>6. AreLast(out)'
      BY <1>3, <3>5 DEF AreLast
    <3>7. TurnedUpTo(out, at)'
      <4>1. TurnedUpTo(out', at')
        BY <3>1, <3>4
      <4> QED BY <4>1 DEF TurnedUpTo
    <3>8. at' \in Nat \ {0}
      BY <2>1, <3>1
    <3> QED BY <1>1, <1>2, <1>3, <2>1, <2>2, <3>1, <3>4, <3>6, <3>7, <3>8 DEF SilverInv
  <2>4. CASE ~(at < j)
    <3>1. UNCHANGED <<at, out>> /\ step' = "built"
      BY <1>8, <2>4 DEF TurnAround
    <3>2. ASSUME NEW m \in DOMAIN out, NEW n \in DOMAIN out, m < n
          PROVE  out[m].from < out[n].from
      <4>1. m \in Nat /\ n \in Nat
        BY <1>1
      <4>2. ~(at <= m /\ n <= Len(out) + 1 - at)
        BY <1>1, <2>4, <3>2, <4>1
      <4> QED BY <2>1, <3>2, <4>2 DEF TurnedUpTo
    <3>3. Ascending(out)' /\ AreLast(out)'
      BY <1>3, <2>1, <3>1, <3>2 DEF Ascending, AreLast
    <3> QED BY <1>1, <1>2, <1>3, <2>1, <2>2, <3>1, <3>3 DEF SilverInv
  <2> QED BY <2>3, <2>4
<1> QED BY <1>0, <1>4, <1>5, <1>6, <1>7, <1>8 DEF SilverNext

\* silver.go, Build: however many records there are and in whichever order, each key
\* of a useful record has one row, that of its last record, in the order of the records.
THEOREM BuildKeepsLast == SilverSpec => []KeepsLast
<1>1. SilverInv => KeepsLast
  <2> SUFFICES ASSUME SilverInv, step = "built"
               PROVE  /\ {out[n].from : n \in DOMAIN out} = LastOnes
                      /\ \A n \in DOMAIN out : out[n] = SilverRow(out[n].from)
                      /\ \A m, n \in DOMAIN out : m < n => out[m].from < out[n].from
    BY DEF KeepsLast, LastOnes, UsefulOnes
  <2>1. AreLast(out) /\ Ascending(out) /\ \A n \in DOMAIN out : out[n] \in Rows
    BY DEF SilverInv
  <2>2. \A n \in DOMAIN out : out[n] = SilverRow(out[n].from)
    BY <2>1, RowsOfRecords
  <2> QED BY <2>1, <2>2 DEF AreLast, Ascending
<1> QED BY <1>1, SilverInit_Inv, SilverStep, PTL DEF SilverSpec

-----------------------------------------------------------------------------
(* Gold.                                                                   *)

\* The vectors are those of the first postings, up to the next request.
PrefixEmbedded ==
  /\ Len(vectors) = IF start < Len(pending) THEN start ELSE Len(pending)
  /\ \A i \in 1 .. Len(vectors) : vectors[i].of = pending[i]

EmbedInv ==
  /\ pending \in Seq(Jobs)
  /\ start \in Nat
  /\ vectors \in Seq(Vector)
  /\ PrefixEmbedded
  /\ embed \in {"answered", "saved"} => start >= Len(pending)
  /\ EachItsOwnVector

LEMMA EmbedInit_Inv == EmbedInit => EmbedInv
<1> SUFFICES ASSUME EmbedInit PROVE EmbedInv
  OBVIOUS
<1>1. PICK n \in 1 .. MaxPending : pending \in [1 .. n -> Jobs]
  BY DEF EmbedInit
<1>2. n \in Nat /\ pending \in Seq(Jobs) /\ Len(pending) = n
  BY <1>1, EmbedBatchConstants
<1>3. start = 0 /\ vectors = <<>> /\ rows = <<>> /\ embed = "request"
  BY DEF EmbedInit
<1> QED BY <1>2, <1>3 DEF EmbedInv, PrefixEmbedded, EachItsOwnVector

\* One complete answer makes the prefix longer by the texts of its request.
LEMMA ChunkExtendsPrefix ==
  ASSUME EmbedInv, EmbedChunk
  PROVE  vectors' \in Seq(Vector) /\ start' \in Nat /\ PrefixEmbedded'
<1>1. /\ pending \in Seq(Jobs) /\ pending' = pending /\ Len(pending) \in Nat
      /\ start \in Nat /\ BatchSize \in Nat \ {0} /\ start < Len(pending)
      /\ start' = start + BatchSize
  BY EmbedBatchConstants DEF EmbedInv, EmbedChunk
<1>2. /\ vectors \in Seq(Vector) /\ Len(vectors) = start
      /\ \A i \in 1 .. start : vectors[i].of = pending[i]
  BY <1>1 DEF EmbedInv, PrefixEmbedded
<1>3. PICK n \in 0 .. ChunkSize + 1 : Complete(n) /\ \E a \in Answers(n) : vectors' = vectors \o a
  BY DEF EmbedChunk
<1>4. PICK a \in Answers(n) : vectors' = vectors \o a
  BY <1>3
<1>5. /\ n \in Nat /\ n = ChunkSize /\ start + n <= Len(pending)
      /\ n = IF Len(pending) - start < BatchSize THEN Len(pending) - start ELSE BatchSize
  BY <1>1, <1>3 DEF Complete, ChunkSize, Left
<1>6. a \in [1 .. n -> Vector] /\ \A i \in 1 .. n : a[i].of = pending[start + i]
  BY <1>5 DEF Answers
<1>7. a \in Seq(Vector) /\ Len(a) = n
  BY <1>5, <1>6
<1>8. /\ vectors' \in Seq(Vector) /\ Len(vectors') = start + n
      /\ \A i \in 1 .. start + n :
           vectors'[i] = IF i <= start THEN vectors[i] ELSE a[i - start]
  <2>1. /\ vectors \o a \in Seq(Vector) /\ Len(vectors \o a) = Len(vectors) + Len(a)
        /\ \A i \in 1 .. Len(vectors) + Len(a) :
             (vectors \o a)[i] = IF i <= Len(vectors) THEN vectors[i] ELSE a[i - Len(vectors)]
    BY <1>2, <1>7, ConcatProperties
  <2> QED BY <1>2, <1>4, <1>7, <2>1
<1>9. ASSUME NEW i \in 1 .. start + n
      PROVE  vectors'[i].of = pending[i]
  <2>1. CASE i <= start
    BY <1>1, <1>2, <1>8, <2>1
  <2>2. CASE i > start
    <3>1. i - start \in 1 .. n /\ start + (i - start) = i
      BY <1>1, <1>5, <2>2
    <3>2. a[i - start].of = pending[start + (i - start)]
      BY <1>6, <3>1
    <3> QED BY <1>1, <1>5, <1>8, <2>2, <3>1, <3>2
  <2> QED BY <1>1, <1>5, <2>1, <2>2
<1>10. Len(vectors') = IF start' < Len(pending') THEN start' ELSE Len(pending')
  BY <1>1, <1>5, <1>8
<1> QED BY <1>1, <1>8, <1>9, <1>10 DEF PrefixEmbedded

LEMMA EmbedStep_Inv == EmbedInv /\ [EmbedNext]_embedVars => EmbedInv'
<1> SUFFICES ASSUME EmbedInv, [EmbedNext]_embedVars
             PROVE  EmbedInv'
  OBVIOUS
<1>0. Len(pending) \in Nat /\ start \in Nat
  BY DEF EmbedInv
<1>1. CASE EmbedChunk
  <2>1. embed = "request" /\ UNCHANGED <<pending, embed, rows>>
    BY <1>1 DEF EmbedChunk
  <2> QED BY <1>1, <2>1, ChunkExtendsPrefix DEF EmbedInv, EachItsOwnVector
<1>2. CASE EmbedFails \/ SaveFails
  <2>1. embed \in {"request", "answered"} /\ embed' = "failed"
        /\ UNCHANGED <<pending, start, vectors, rows>>
    BY <1>2 DEF EmbedFails, SaveFails
  <2> QED BY <2>1 DEF EmbedInv, PrefixEmbedded, EachItsOwnVector
<1>3. CASE Embedded
  <2>1. /\ start >= Len(pending) /\ embed' \in {"answered", "failed"} /\ embed = "request"
        /\ UNCHANGED <<pending, start, vectors, rows>>
    BY <1>3 DEF Embedded
  <2>2. Len(vectors) = Len(pending)
    BY <1>0, <2>1 DEF EmbedInv, PrefixEmbedded
  <2> QED BY <2>1, <2>2 DEF EmbedInv, PrefixEmbedded, EachItsOwnVector
<1>4. CASE Save
  <2>1. /\ embed = "answered" /\ embed' = "saved" /\ UNCHANGED <<pending, start, vectors>>
        /\ rows' = [i \in 1 .. Len(pending) |-> [job |-> pending[i], vector |-> vectors[i]]]
    BY <1>4 DEF Save
  <2>2. /\ Len(vectors) = Len(pending) /\ start >= Len(pending)
        /\ \A i \in 1 .. Len(pending) : vectors[i].of = pending[i]
    BY <2>1 DEF EmbedInv, PrefixEmbedded, EachItsOwnVector
  <2>3. Len(rows') = Len(pending)
    BY <1>0, <2>1
  <2>4. \A i \in 1 .. Len(pending) : rows'[i].job = pending[i] /\ rows'[i].vector.of = pending[i]
    BY <2>1, <2>2
  <2>5. EachItsOwnVector'
    BY <2>1, <2>2, <2>3, <2>4 DEF EachItsOwnVector
  <2> QED BY <2>1, <2>2, <2>5 DEF EmbedInv, PrefixEmbedded
<1>5. CASE UNCHANGED embedVars
  BY <1>5 DEF embedVars, EmbedInv, PrefixEmbedded, EachItsOwnVector
<1> QED BY <1>1, <1>2, <1>3, <1>4, <1>5 DEF EmbedNext

\* Every posting that Gold saves has the vector of its own text, whatever the number of
\* postings, the size of a request and the answers (embedder.go, embedBatch).
THEOREM SavesOwnVectors == EmbedSpec => []EachItsOwnVector
<1>1. EmbedInv => EachItsOwnVector
  BY DEF EmbedInv
<1> QED BY EmbedInit_Inv, EmbedStep_Inv, <1>1, PTL DEF EmbedSpec
=============================================================================

------------------------------ MODULE Collect ------------------------------
(***************************************************************************)
(* One collection after another: the Wanted scraper walks the pages of a   *)
(* listing and fetches each posting, the Work24 scraper reads one listing  *)
(* page and fetches each row's posting, and Bronze upserts what the        *)
(* scrapers that did not fail have found, in one transaction.              *)
(*                                                                         *)
(* The sites go on changing between any two requests. A payload is the     *)
(* revision of the posting that it shows. The calls' contexts are never    *)
(* cancelled (every caller passes context.Background), so the ctx.Done     *)
(* branches are not taken.                                                 *)
(***************************************************************************)
EXTENDS Integers, Sequences, SequencesExt, Selections

CONSTANTS
  Listings,        \* what Wanted may list: sequences of Wanted postings and NoId
  RowLists,        \* what Work24 may list: sequences of Work24 postings and NoId
  NoId,            \* an entry without an id, a row without a readable one
  PageSize,        \* entries of a page of the Wanted listing (20 in the code)
  MaxItems,        \* SCRAPE_MAX_ITEMS
  MaxSiteChanges,  \* bound: changes of a posting or of the Wanted listing
  MaxCollections   \* bound: calls of Bronze

PostingsOf(lists) == (UNION {ToSet(l) : l \in lists}) \ {NoId}
Postings == [wanted |-> PostingsOf(Listings), work24 |-> PostingsOf(RowLists)]
AllPostings == Postings.wanted \cup Postings.work24

Absent == 0        \* no row in bronze_raw_postings, no fetch
Placeholder == -1  \* the texts of a Work24 posting whose page could not be read

VARIABLES
  listing,    \* the site: what Wanted lists now
  revision,   \* the site: revision[p] of a posting
  bronze,     \* bronze_raw_postings: the payload of each posting
  collect,    \* "idle", "list", "detail", "upsert", "stored" or "rolledBack"
  source,     \* the scraper that runs
  offset,     \* fetchJobIDs
  ids,        \* ids of the listing, rows of the page
  turn,       \* the place in ids the loop looks at next
  found,      \* records of the scraper that runs
  batch,      \* records of the scrapers before
  changes,    \* changes of the site (only for MaxSiteChanges)
  collected,  \* collections begun (only for MaxCollections)
  shown,      \* history: the last payload the collection fetched of each posting
  failed,     \* history: the scrapers of this collection that returned an error
  steady,     \* history: the listing has not changed in this collection, no page was refused
  earlier     \* history: bronze when the collection began

site == <<listing, revision, changes>>
progress == <<source, offset, ids, turn, found, batch>>
history == <<shown, failed, steady, earlier>>
collectVars == <<site, bronze, collect, progress, collected, history>>

\* A posting is known by its source and its id there, so no two sources share one.
ASSUME CollectConstants ==
  /\ \A l \in Listings : l \in Seq(Postings.wanted \cup {NoId})
  /\ \A rows \in RowLists : rows \in Seq(Postings.work24 \cup {NoId})
  /\ Postings.wanted \cap Postings.work24 = {}
  /\ PageSize \in Nat \ {0}
  /\ MaxItems \in Nat  \* fetchJobIDs panics on less (ids[:maxItems])

NothingShown == [p \in AllPostings |-> Absent]

CollectInit ==
  /\ listing \in Listings
  /\ revision = [p \in AllPostings |-> 1]
  /\ bronze = NothingShown
  /\ collect = "idle"
  /\ source = "wanted" /\ offset = 0 /\ ids = <<>> /\ turn = 1
  /\ found = <<>> /\ batch = <<>>
  /\ changes = 0 /\ collected = 0
  /\ shown = NothingShown /\ failed = {} /\ steady = TRUE /\ earlier = NothingShown

-----------------------------------------------------------------------------
(* The sites.                                                              *)

Revise ==
  /\ changes < MaxSiteChanges
  /\ \E p \in AllPostings : revision' = [revision EXCEPT ![p] = @ + 1]
  /\ changes' = changes + 1
  /\ UNCHANGED <<listing, bronze, collect, progress, collected, history>>

\* Popularity changes the order, postings come and go.
Relist ==
  /\ changes < MaxSiteChanges
  /\ \E l \in Listings \ {listing} : listing' = l
  /\ changes' = changes + 1
  /\ steady' = FALSE
  /\ UNCHANGED <<revision, bronze, collect, progress, collected, shown, failed, earlier>>

-----------------------------------------------------------------------------
(* Bronze and the scrapers.                                                *)

BronzeStart ==
  /\ collect \in {"idle", "stored", "rolledBack"}
  /\ collected < MaxCollections
  /\ collected' = collected + 1
  /\ collect' = "list"
  /\ source' = "wanted" /\ offset' = 0 /\ ids' = <<>> /\ turn' = 1
  /\ found' = <<>> /\ batch' = <<>>
  /\ shown' = NothingShown /\ failed' = {} /\ steady' = TRUE /\ earlier' = bronze
  /\ UNCHANGED <<site, bronze>>

\* The next scraper runs, or Bronze has asked them all.
NextScraper(records) ==
  /\ batch' = records
  /\ found' = <<>> /\ ids' = <<>> /\ turn' = 1 /\ offset' = 0
  /\ source' = "work24"
  /\ collect' = IF source = "wanted" THEN "list" ELSE "upsert"
  /\ UNCHANGED <<site, bronze, collected, shown, steady, earlier>>

\* An error of Scrape: a request of Wanted fails, or the listing of Work24 cannot be
\* had. What it found until then is gone, and the others go on.
ScraperFails ==
  /\ \/ collect = "list" /\ (source = "wanted" => MaxItems > 0)
     \/ collect = "detail" /\ source = "wanted" /\ turn <= Len(ids)
  /\ failed' = failed \cup {source}
  /\ NextScraper(batch)

ScraperDone ==
  /\ collect = "detail"
  /\ turn > Len(ids)
  /\ NextScraper(batch \o found)
  /\ UNCHANGED failed

Slice(s, m, n) == SubSeq(s, m, IF n < Len(s) THEN n ELSE Len(s))

\* fetchJobIDs ends with at most MaxItems ids.
Listed(all) ==
  /\ ids' = Slice(all, 1, MaxItems)
  /\ collect' = "detail"

\* Entries without an id are passed over.
WithId(entries) == Selected(entries, {i \in DOMAIN entries : entries[i] # NoId})

Page == Slice(listing, offset + 1, offset + PageSize)

\* Mutation: the next page begins after the ids there are.
NextOffset_ByIds(all) == Len(all)

NextOffset(all) == offset + PageSize

\* A page of the listing. The code stops at a null links.next or an empty page; the
\* site is assumed to send links.next on every page but the one that ends the listing.
ReadPage ==
  /\ collect = "list" /\ source = "wanted"
  /\ Len(ids) < MaxItems
  /\ LET all == ids \o WithId(Page)
         last == offset + PageSize >= Len(listing)
     IN  IF last \/ Len(all) >= MaxItems
         THEN Listed(all) /\ UNCHANGED offset
         ELSE ids' = all /\ offset' = NextOffset(all) /\ UNCHANGED collect
  /\ UNCHANGED <<site, bronze, source, turn, found, batch, collected, history>>

\* No more pages are asked for: none is wanted, or the site answered with a status.
EndListing ==
  /\ collect = "list" /\ source = "wanted"
  /\ Listed(ids)
  /\ steady' = (steady /\ MaxItems = 0)
  /\ UNCHANGED <<site, bronze, source, offset, turn, found, batch, collected,
                 shown, failed, earlier>>

\* parseListRow: rows whose number or columns cannot be read are passed over.
ReadableRows(rows) == Selected(rows, {i \in DOMAIN rows : rows[i] # NoId})

\* Work24 has one page.
ReadRows ==
  /\ collect = "list" /\ source = "work24"
  /\ \E rows \in RowLists : ids' = ReadableRows(rows)
  /\ collect' = "detail"
  /\ UNCHANGED <<site, bronze, source, offset, turn, found, batch, collected, history>>

Take(text) ==
  LET p == ids[turn]
  IN  /\ found' = Append(found, [id |-> p, text |-> text])
      /\ shown' = [shown EXCEPT ![p] = text]

\* Wanted: the posting's payload, or nothing when the site answers without one (gone,
\* another status, no job in the answer).
FetchWanted ==
  /\ collect = "detail" /\ source = "wanted"
  /\ turn <= Len(ids)
  /\ Take(revision[ids[turn]]) \/ UNCHANGED <<found, shown>>
  /\ turn' = turn + 1
  /\ UNCHANGED <<site, bronze, collect, source, offset, ids, batch, collected,
                 failed, steady, earlier>>

\* fetchDetail of Work24: the texts of the page, or the default texts for any failure
\* and any page that has another structure.
Work24Texts(p) == {revision[p], Placeholder}

FetchWork24 ==
  /\ collect = "detail" /\ source = "work24"
  /\ turn <= Len(ids)
  /\ \E text \in Work24Texts(ids[turn]) : Take(text)
  /\ turn' = turn + 1
  /\ UNCHANGED <<site, bronze, collect, source, offset, ids, batch, collected,
                 failed, steady, earlier>>

-----------------------------------------------------------------------------
(* The upsert.                                                             *)

RecordsOf(p) == {i \in DOMAIN batch : batch[i].id = p}

\* Mutation: a record that repeats a key of the batch is ignored.
Excluded_First(p) == batch[Min(RecordsOf(p))].text

\* DO UPDATE SET payload = excluded.payload, one record after the other.
Excluded(p) == batch[Max(RecordsOf(p))].text

\* An empty batch is not written at all.
Upsert ==
  /\ collect = "upsert"
  /\ bronze' = [p \in AllPostings |-> IF RecordsOf(p) = {} THEN bronze[p] ELSE Excluded(p)]
  /\ collect' = "stored"
  /\ UNCHANGED <<site, progress, collected, history>>

UpsertFails ==
  /\ collect = "upsert"
  /\ batch # <<>>
  /\ collect' = "rolledBack"
  /\ UNCHANGED <<site, bronze, progress, collected, history>>

CollectNext ==
  \/ Revise \/ Relist
  \/ BronzeStart \/ ScraperFails \/ ScraperDone
  \/ ReadPage \/ EndListing \/ ReadRows \/ FetchWanted \/ FetchWork24
  \/ Upsert \/ UpsertFails

CollectSpec == CollectInit /\ [][CollectNext]_collectVars

-----------------------------------------------------------------------------
(* Properties.                                                             *)

\* A failed scraper costs its own postings' update and nothing else: after Bronze a
\* posting has the payload that the collection fetched last, even when a page shift
\* listed it twice, and without one the payload it had (pipeline.go, Bronze; raw.go,
\* UpsertMany).
BronzeIsLastFetch ==
  collect = "stored" =>
    \A s \in DOMAIN Postings : \A p \in Postings[s] :
      bronze[p] = IF s \in failed \/ shown[p] = Absent THEN earlier[p] ELSE shown[p]

\* Pages that come from one listing are put together without gap or overlap: the ids
\* are the first MaxItems of the listing (wanted.go, fetchJobIDs).
ListingIsCovered ==
  collect = "detail" /\ source = "wanted" /\ steady =>
    ids = Slice(WithId(listing), 1, MaxItems)
=============================================================================

---------------------------- MODULE SilverBuild ----------------------------
(***************************************************************************)
(* silver.Build: Bronze records become rows of the common schema, records  *)
(* that cannot be used are dropped, and of the rows with one key the last  *)
(* stays, in its place. The loops are steps: normalize a record, walk the  *)
(* rows from the end, turn the result around.                              *)
(*                                                                         *)
(* A text column is there or not (CleanText yields no empty text), and     *)
(* everything else of a record is its place in the table, which Raw.All    *)
(* reads in no particular order.                                           *)
(***************************************************************************)
EXTENDS Integers, Sequences

CONSTANTS
  SourceIds,  \* identifiers that postings have at their source
  MaxRecords  \* bound: rows of bronze_raw_postings

ASSUME SilverConstants == MaxRecords \in Nat

KnownSources == {"wanted", "work24"}

\* The JSON of a posting: an id or none, and the two of its columns that make it worth
\* keeping; the others travel along.
Payloads == [id : SourceIds \cup {""}, company : BOOLEAN, position : BOOLEAN]

\* bad: the payload does not decode.
Records ==
  [source : KnownSources \cup {"other"}, sourceId : SourceIds, bad : BOOLEAN, payload : Payloads]

VARIABLES
  records,     \* what Raw.All returned
  step,        \* "normalize", "dedup", "reverse" or "built"
  at,          \* the record or row the loop looks at next
  normalized,  \* rows in the order of the records
  seen,        \* keys met from the end
  out          \* the result

silverVars == <<records, step, at, normalized, seen, out>>

\* (source, source_id) is the primary key of bronze_raw_postings. A record that is
\* dropped unread has one form.
Readable(r) ==
  r.bad \/ r.source = "other" => r.payload = [id |-> "", company |-> FALSE, position |-> FALSE]

SilverInit ==
  /\ \E n \in 0 .. MaxRecords : records \in [1 .. n -> {r \in Records : Readable(r)}]
  /\ \A i, j \in DOMAIN records :
       i # j => <<records[i].source, records[i].sourceId>> # <<records[j].source, records[j].sourceId>>
  /\ step = "normalize"
  /\ at = 1
  /\ normalized = <<>>
  /\ seen = {}
  /\ out = <<>>

-----------------------------------------------------------------------------
(* Normalization.                                                          *)

\* NormalizeWanted, NormalizeWork24: the id of the payload, else that of the record.
SourceID(r) == IF r.payload.id # "" THEN r.payload.id ELSE r.sourceId

\* A posting with neither company nor position is of no use.
Useful(r) ==
  /\ r.source \in KnownSources
  /\ ~r.bad
  /\ r.payload.company \/ r.payload.position

\* BuildFullText: the columns that are there.
FullText(r) ==
  {c \in {"company", "position"} : r.payload[c]}

\* from: the record the row was made of.
SilverRow(i) ==
  [source |-> records[i].source, sourceId |-> SourceID(records[i]),
   text |-> FullText(records[i]), from |-> i]

Normalize ==
  /\ step = "normalize"
  /\ at <= Len(records)
  /\ normalized' = IF Useful(records[at]) THEN Append(normalized, SilverRow(at)) ELSE normalized
  /\ at' = at + 1
  /\ UNCHANGED <<records, step, seen, out>>

Normalized ==
  /\ step = "normalize"
  /\ at > Len(records)
  /\ step' = "dedup"
  /\ at' = Len(normalized)
  /\ UNCHANGED <<records, normalized, seen, out>>

-----------------------------------------------------------------------------
(* Keep-last.                                                              *)

\* Mutation: the key is the source id alone.
Key_IdOnly(row) == <<row.sourceId>>

Key(row) == <<row.source, row.sourceId>>

Dedup ==
  /\ step = "dedup"
  /\ at >= 1
  /\ LET row == normalized[at]
     IN  /\ out' = IF Key(row) \in seen THEN out ELSE Append(out, row)
         /\ seen' = seen \cup {Key(row)}
  /\ at' = at - 1
  /\ UNCHANGED <<records, step, normalized>>

Deduped ==
  /\ step = "dedup"
  /\ at < 1
  /\ step' = "reverse"
  /\ at' = 1
  /\ UNCHANGED <<records, normalized, seen, out>>

\* One swap of the loop that turns the slice around.
TurnAround ==
  /\ step = "reverse"
  /\ LET j == Len(out) + 1 - at
     IN  IF at < j
         THEN /\ out' = [out EXCEPT ![at] = out[j], ![j] = out[at]]
              /\ at' = at + 1
              /\ UNCHANGED step
         ELSE step' = "built" /\ UNCHANGED <<at, out>>
  /\ UNCHANGED <<records, normalized, seen>>

SilverNext == Normalize \/ Normalized \/ Dedup \/ Deduped \/ TurnAround

SilverSpec == SilverInit /\ [][SilverNext]_silverVars

-----------------------------------------------------------------------------
(* Properties.                                                             *)

\* Build drops what it cannot use and nothing else: each key of a useful record has
\* one row, with the text of the last record of that key, and the rows are in the
\* order of these records (the upsert that follows relies on one row per key).
KeepsLast ==
  step = "built" =>
    LET useful == {i \in DOMAIN records : Useful(records[i])}
        same(i, j) == /\ records[i].source = records[j].source
                      /\ SourceID(records[i]) = SourceID(records[j])
        last == {i \in useful : \A j \in useful : same(i, j) => j <= i}
    IN  /\ {out[n].from : n \in DOMAIN out} = last
        /\ \A n \in DOMAIN out : out[n] = SilverRow(out[n].from)
        /\ \A m, n \in DOMAIN out : m < n => out[m].from < out[n].from
=============================================================================

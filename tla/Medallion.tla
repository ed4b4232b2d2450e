----------------------------- MODULE Medallion -----------------------------
(***************************************************************************)
(* The Bronze -> Silver -> Gold refresh of job postings, with everything   *)
(* that can be in flight beside it: the admin's guarded background tasks   *)
(* (pipeline, embedding rebuild, embedding switch), the cron entry, which  *)
(* the guard does not know, DELETE /admin/jobs/{id}, and a CLI process     *)
(* that opens the same SQLite file with an embedder of its own.            *)
(*                                                                         *)
(* Each SQLite statement or transaction is one step (txlock=immediate, so  *)
(* a write transaction holds the write lock from BEGIN), and so is each    *)
(* time.Now() whose order against another operation's commit matters.      *)
(* Network calls only touch locals: scraping is merged with the commit of  *)
(* its result, embedding with the reading of the clock that follows it.    *)
(* A posting's columns are one payload; a vector is recorded by what it    *)
(* was computed from: the posting, its text and the embedder.              *)
(***************************************************************************)
EXTENDS Integers, FiniteSets

CONSTANTS
  Keys,          \* (source, source_id) pairs: the identity of a posting
  Payloads,      \* contents a scraper may return for a posting
  Usable,        \* payloads the normalizer keeps (company or position set)
  NoPayload,     \* marks the absence of a row
  FullText,      \* FullText[p]: the embedding input built from payload p
  Embedders,     \* (provider, model, dimension) choices
  ModelKey,      \* ModelKey[e]: the label "provider:model" stored with a vector
  Dim,           \* Dim[e]: dimension of the vectors e returns
  DefaultDim,    \* the dimension a switch through HTTP always selects
  Initial,       \* the embedder the deployment starts with
  Slots,         \* the operations this instance lets run
  MaxActive,     \* bound: operations in flight at once
  MaxStarts,     \* bound: operations started over a behaviour
  MaxCrashes     \* bound: server crashes over a behaviour

Procs == {"server", "cli"}

ProcOf(o) == IF o = "cli" THEN "cli" ELSE "server"

\* What each slot may start. A guard name is its own slot: busy means 409.
Commands(o) ==
  CASE o \in {"pipeline", "cron"} -> {"pipeline"}
    [] o = "embedding_rebuild"    -> {"rebuild"}
    [] o = "embedding_switch"     -> {"switch"}
    [] o = "delete_job"           -> {"delete"}
    [] OTHER                      -> {"pipeline", "embed", "rebuild", "switch", "delete"}

ASSUME KeysAssumption == IsFiniteSet(Keys)

ASSUME PayloadAssumption ==
  /\ Usable \subseteq Payloads
  /\ NoPayload \notin Payloads
  /\ DOMAIN FullText = Payloads

ASSUME EmbedderAssumption ==
  /\ DOMAIN ModelKey = Embedders
  /\ Dim \in [Embedders -> Nat]
  /\ Initial \in Embedders

VARIABLES
  bronze,   \* bronze_raw_postings: payload per key, or NoPayload
  jobs,     \* silver_jobs: row per key, or NoJob
  nextId,   \* the AUTOINCREMENT counter of silver_jobs
  emb,      \* silver_job_embeddings
  clock,    \* the last value time.Now() returned to anyone
  env,      \* the embedder named by the .env file
  cfg,      \* per process: the embedder its settings name
  active,   \* per process: the embedder AtomicEmbedder holds
  op,       \* per slot: the operation in flight and its locals
  starts,   \* operations started so far (only for MaxStarts)
  crashes,  \* crashes so far (only for MaxCrashes)
  deleted   \* history: keys deleted, not overtaken then, not found by a scrape since

dbVars == <<bronze, jobs, nextId, emb>>
cfgVars == <<env, cfg, active>>
boundVars == <<starts, crashes>>
vars == <<dbVars, clock, cfgVars, op, boundVars, deleted>>

-----------------------------------------------------------------------------
(* Rows.                                                                   *)

Texts == {FullText[p] : p \in Payloads}
Labels == {ModelKey[e] : e \in Embedders}

NoJob == [id |-> 0, payload |-> NoPayload, updated |-> 0]
JobRows == [id : Nat, payload : Payloads \cup {NoPayload}, updated : Nat]

\* A row an operation read and works on: its id, and the posting and the text
\* behind that id when it was read.
WorkRows == [job : Nat, key : Keys, text : Texts]

EmbeddingRows ==
  [job : Nat, key : Keys, text : Texts, by : Embedders, model : Labels, at : Nat]

PCs == {"idle", "bronze", "silverRead", "silverStamp", "silverCommit",
        "current", "pending", "embed", "commit", "deleteAll",
        "config", "swap", "delRow", "delRaw"}

OpStates ==
  [pc : PCs,
   dim : Nat,                                   \* expectedDim, read at the call
   embedder : Embedders,                        \* captured by Current(), or the switch target
   seen : [Keys -> Payloads \cup {NoPayload}],  \* Raw.All's result
   rows : SUBSET WorkRows,                      \* Pending's result, or the posting to delete
   at : Nat]                                    \* the caller's time.Now()

Idle == [pc |-> "idle", dim |-> 0, embedder |-> Initial,
         seen |-> [k \in Keys |-> NoPayload], rows |-> {}, at |-> 0]

WorkRow(k) == [job |-> jobs[k].id, key |-> k, text |-> FullText[jobs[k].payload]]

\* Pending's WHERE clause: no vector, an older vector, or another model's.
Outdated(e, k, label) == e.at < jobs[k].updated \/ e.model # label

IsPending(k, label) ==
  /\ jobs[k] # NoJob
  /\ \A e \in emb : e.job = jobs[k].id => Outdated(e, k, label)

\* The foreign key job_id REFERENCES silver_jobs(id).
JobExists(id) == \E k \in Keys : jobs[k] # NoJob /\ jobs[k].id = id

InFlight == {o \in Slots : op[o].pc # "idle"}

-----------------------------------------------------------------------------
(* Init and starting an operation.                                         *)

Init ==
  /\ bronze = [k \in Keys |-> NoPayload]
  /\ jobs = [k \in Keys |-> NoJob]
  /\ nextId = 1
  /\ emb = {}
  /\ clock = 0
  /\ env = Initial
  /\ cfg = [p \in Procs |-> Initial]
  /\ active = [p \in Procs |-> Initial]
  /\ op = [o \in Slots |-> Idle]
  /\ starts = 0
  /\ crashes = 0
  /\ deleted = {}

\* A switch through HTTP passes no dimension, so the provider's default is taken.
Targets(o) == {e \in Embedders : o = "cli" \/ Dim[e] = DefaultDim}

\* A CLI process loads .env and builds its embedder as it starts.
SettingsOf(o) == IF o = "cli" THEN env ELSE cfg[ProcOf(o)]

LoadSettings(o) ==
  /\ cfg' = [cfg EXCEPT ![ProcOf(o)] = SettingsOf(o)]
  /\ active' = IF o = "cli" THEN [active EXCEPT !["cli"] = env] ELSE active

\* Operation c enters slot o in the given first state.
Begin(o, c, state) ==
  /\ op[o].pc = "idle"
  /\ c \in Commands(o)
  /\ Cardinality(InFlight) < MaxActive
  /\ starts < MaxStarts
  /\ starts' = starts + 1
  /\ LoadSettings(o)
  /\ op' = [op EXCEPT ![o] = state]
  /\ UNCHANGED <<dbVars, clock, env, crashes, deleted>>

\* RunPipeline and the plain embed read the expected dimension at the call.
StartPipeline(o) ==
  Begin(o, "pipeline", [Idle EXCEPT !.pc = "bronze", !.dim = Dim[SettingsOf(o)]])

StartEmbed(o) ==
  Begin(o, "embed", [Idle EXCEPT !.pc = "current", !.dim = Dim[SettingsOf(o)]])

StartRebuild(o) == Begin(o, "rebuild", [Idle EXCEPT !.pc = "deleteAll"])

StartSwitch(o) ==
  \E target \in Targets(o) :
    Begin(o, "switch", [Idle EXCEPT !.pc = "config", !.embedder = target])

\* GetKey found the posting; an unknown id is a 404 that changes nothing.
StartDelete(o) ==
  \E k \in Keys :
    /\ jobs[k] # NoJob
    /\ Begin(o, "delete", [Idle EXCEPT !.pc = "delRow", !.rows = {WorkRow(k)}])

\* Move on to step pc; end the operation; an error return of the step in progress.
Goto(o, pc) == op' = [op EXCEPT ![o].pc = pc]
Finish(o) == op' = [op EXCEPT ![o] = Idle]

\* A statement fails (SQLITE_BUSY after the busy timeout, a rolled back
\* transaction), the embedding API fails, or the CLI process dies: the
\* operation returns and whatever it committed earlier stays.
Fail(o) ==
  /\ op[o].pc # "idle"
  /\ Finish(o)
  /\ UNCHANGED <<dbVars, clock, cfgVars, boundVars, deleted>>

-----------------------------------------------------------------------------
(* Bronze.                                                                 *)

\* A scraper that fails contributes nothing; no record at all is still a
\* successful stage that writes nothing. Otherwise one transaction upserts.
Bronze(o) ==
  /\ op[o].pc = "bronze"
  /\ \E found \in SUBSET Keys : \E record \in [found -> Payloads] :
       /\ bronze' = [k \in Keys |-> IF k \in found THEN record[k] ELSE bronze[k]]
       /\ deleted' = deleted \ found
  /\ Goto(o, "silverRead")
  /\ UNCHANGED <<jobs, nextId, emb, clock, cfgVars, boundVars>>

-----------------------------------------------------------------------------
(* Silver.                                                                 *)

Kept(seen) == {k \in Keys : seen[k] \in Usable}

\* Raw.All; nothing to write when no record survives the normalizers.
SilverRead(o) ==
  /\ op[o].pc = "silverRead"
  /\ op' = [op EXCEPT ![o].seen = bronze,
                      ![o].pc = IF Kept(bronze) = {} THEN "current" ELSE "silverStamp"]
  /\ UNCHANGED <<dbVars, clock, cfgVars, boundVars, deleted>>

\* The time.Now() passed to UpsertJobs, taken before its transaction begins.
SilverStamp(o) ==
  /\ op[o].pc = "silverStamp"
  /\ clock' = clock + 1
  /\ op' = [op EXCEPT ![o].at = clock + 1, ![o].pc = "silverCommit"]
  /\ UNCHANGED <<dbVars, cfgVars, boundVars, deleted>>

\* Mutation: the upsert never moves updated_at of an existing row.
UpdatedAt_OnInsertOnly(k, payload, at) == IF jobs[k] # NoJob THEN jobs[k].updated ELSE at

\* updated_at moves to the caller's stamp only when full_text changed.
UpdatedAt(k, payload, at) ==
  IF jobs[k] # NoJob /\ FullText[jobs[k].payload] = FullText[payload]
  THEN jobs[k].updated
  ELSE at

\* Mutations: ids counted from one too low; a plain rowid, which SQLite picks
\* as the largest id still in the table plus one.
NewIds_OneTooLow(new) ==
  {ids \in [new -> nextId - 1 .. nextId + Cardinality(new) - 2] :
     \A j, k \in new : ids[j] = ids[k] => j = k}

NewIds_PlainRowid(new) ==
  LET used == {jobs[k].id : k \in Keys}
      top == CHOOSE m \in used : \A n \in used : n <= m
  IN  {ids \in [new -> top + 1 .. top + Cardinality(new)] :
         \A j, k \in new : ids[j] = ids[k] => j = k}

\* AUTOINCREMENT ids for the new rows, in whatever order Raw.All returned them.
NewIds(new) ==
  {ids \in [new -> nextId .. nextId + Cardinality(new) - 1] :
     \A j, k \in new : ids[j] = ids[k] => j = k}

SilverCommit(o) ==
  LET t == op[o]
      kept == Kept(t.seen)
      new == {k \in kept : jobs[k] = NoJob}
  IN  /\ t.pc = "silverCommit"
      /\ \E ids \in NewIds(new) :
           jobs' = [k \in Keys |->
                     IF k \notin kept THEN jobs[k]
                     ELSE [id |-> IF k \in new THEN ids[k] ELSE jobs[k].id,
                           payload |-> t.seen[k],
                           updated |-> UpdatedAt(k, t.seen[k], t.at)]]
      /\ nextId' = nextId + Cardinality(new)
      /\ op' = [op EXCEPT ![o] = [Idle EXCEPT !.pc = "current", !.dim = t.dim]]
      /\ UNCHANGED <<bronze, emb, clock, cfgVars, boundVars, deleted>>

-----------------------------------------------------------------------------
(* Gold.                                                                   *)

\* Embedder.Current(): this embedder serves the whole stage.
GoldCurrent(o) ==
  /\ op[o].pc = "current"
  /\ op' = [op EXCEPT ![o].embedder = active[ProcOf(o)], ![o].pc = "pending"]
  /\ UNCHANGED <<dbVars, clock, cfgVars, boundVars, deleted>>

GoldPending(o) ==
  LET label == ModelKey[op[o].embedder]
      todo == {k \in Keys : IsPending(k, label)}
  IN  /\ op[o].pc = "pending"
      /\ \/ todo = {} /\ Finish(o)
         \/ /\ todo # {}
            /\ op' = [op EXCEPT ![o].rows = {WorkRow(k) : k \in todo}, ![o].pc = "embed"]
      /\ UNCHANGED <<dbVars, clock, cfgVars, boundVars, deleted>>

\* EmbedDocuments, the dimension check, and the time.Now() passed to UpsertMany.
\* A mismatch is an error return, and so is a failed chunk of the batch (Fail).
GoldEmbed(o) ==
  /\ op[o].pc = "embed"
  /\ Dim[op[o].embedder] = op[o].dim
  /\ clock' = clock + 1
  /\ op' = [op EXCEPT ![o].at = clock + 1, ![o].pc = "commit"]
  /\ UNCHANGED <<dbVars, cfgVars, boundVars, deleted>>

\* Mutation: the label is asked of the embedder active at the commit.
NewEmbeddings_CurrentLabel(o) ==
  {[job |-> r.job, key |-> r.key, text |-> r.text, by |-> op[o].embedder,
    model |-> ModelKey[active[ProcOf(o)]], at |-> op[o].at] : r \in op[o].rows}

NewEmbeddings(o) ==
  {[job |-> r.job, key |-> r.key, text |-> r.text, by |-> op[o].embedder,
    model |-> ModelKey[op[o].embedder], at |-> op[o].at] : r \in op[o].rows}

\* One transaction for the batch: a row whose posting is gone breaks the
\* foreign key and takes the whole batch with it (Fail).
GoldCommit(o) ==
  LET ids == {r.job : r \in op[o].rows}
  IN  /\ op[o].pc = "commit"
      /\ \A id \in ids : JobExists(id)
      /\ emb' = {e \in emb : e.job \notin ids} \cup NewEmbeddings(o)
      /\ Finish(o)
      /\ UNCHANGED <<bronze, jobs, nextId, clock, cfgVars, boundVars, deleted>>

-----------------------------------------------------------------------------
(* Rebuild and switch.                                                     *)

\* Embeddings.DeleteAll; EmbedAll then reads the expected dimension and runs Gold.
DeleteAll(o) ==
  /\ op[o].pc = "deleteAll"
  /\ emb' = {}
  /\ op' = [op EXCEPT ![o] = [Idle EXCEPT !.pc = "current", !.dim = Dim[cfg[ProcOf(o)]]]]
  /\ UNCHANGED <<bronze, jobs, nextId, clock, cfgVars, boundVars, deleted>>

\* envfile.Update, then the in-memory settings. The CLI reads the file and the
\* server the settings, so no one observes the point between the two.
SwitchConfig(o) ==
  /\ op[o].pc = "config"
  /\ env' = op[o].embedder
  /\ cfg' = [cfg EXCEPT ![ProcOf(o)] = op[o].embedder]
  /\ Goto(o, "swap")
  /\ UNCHANGED <<dbVars, clock, active, boundVars, deleted>>

SwitchSwap(o) ==
  /\ op[o].pc = "swap"
  /\ active' = [active EXCEPT ![ProcOf(o)] = op[o].embedder]
  /\ op' = [op EXCEPT ![o] = [Idle EXCEPT !.pc = "deleteAll"]]
  /\ UNCHANGED <<dbVars, clock, env, cfg, boundVars, deleted>>

-----------------------------------------------------------------------------
(* Deleting a posting.                                                     *)

\* jobs.Delete by id; ON DELETE CASCADE takes the vector along.
DeleteRow(o) ==
  /\ op[o].pc = "delRow"
  /\ \E r \in op[o].rows :
       /\ jobs' = [k \in Keys |-> IF jobs[k].id = r.job THEN NoJob ELSE jobs[k]]
       /\ emb' = {e \in emb : e.job # r.job}
  /\ Goto(o, "delRaw")
  /\ UNCHANGED <<bronze, nextId, clock, cfgVars, boundVars, deleted>>

\* When the deletion ends, the posting is back already or a Silver that read it in
\* Bronze is about to put it back.
Overtaken(k) ==
  \/ jobs[k] # NoJob
  \/ \E s \in Slots : op[s].pc \in {"silverStamp", "silverCommit"} /\ k \in Kept(op[s].seen)

\* Only history: the promise begins for a deletion that nothing has overtaken.
RecordDeletion(k) == deleted' = IF Overtaken(k) THEN deleted ELSE deleted \cup {k}

\* Mutation: the bronze original survives.
DeleteRaw_KeepsBronze(o) ==
  /\ op[o].pc = "delRaw"
  /\ \E r \in op[o].rows : RecordDeletion(r.key)
  /\ Finish(o)
  /\ UNCHANGED <<dbVars, clock, cfgVars, boundVars>>

\* raw.DeleteByKey with the key read before the row was deleted.
DeleteRaw(o) ==
  /\ op[o].pc = "delRaw"
  /\ \E r \in op[o].rows :
       /\ bronze' = [bronze EXCEPT ![r.key] = NoPayload]
       /\ RecordDeletion(r.key)
  /\ Finish(o)
  /\ UNCHANGED <<jobs, nextId, emb, clock, cfgVars, boundVars>>

-----------------------------------------------------------------------------
(* The server stops (crash, kill or the five second shutdown) and starts   *)
(* again: background goroutines are gone, settings come from .env.         *)

Crash ==
  /\ crashes < MaxCrashes
  /\ crashes' = crashes + 1
  /\ op' = [o \in Slots |-> IF ProcOf(o) = "server" THEN Idle ELSE op[o]]
  /\ cfg' = [cfg EXCEPT !["server"] = env]
  /\ active' = [active EXCEPT !["server"] = env]
  /\ UNCHANGED <<dbVars, clock, env, starts, deleted>>

Step(o) ==
  \/ StartPipeline(o) \/ StartEmbed(o) \/ StartRebuild(o) \/ StartSwitch(o) \/ StartDelete(o)
  \/ Bronze(o)
  \/ SilverRead(o) \/ SilverStamp(o) \/ SilverCommit(o)
  \/ GoldCurrent(o) \/ GoldPending(o) \/ GoldEmbed(o) \/ GoldCommit(o)
  \/ DeleteAll(o)
  \/ SwitchConfig(o) \/ SwitchSwap(o)
  \/ DeleteRow(o) \/ DeleteRaw(o)
  \/ Fail(o)

Next == Crash \/ \E o \in Slots : Step(o)

Spec == Init /\ [][Next]_vars

-----------------------------------------------------------------------------
(* Properties.                                                             *)

TypeOK ==
  /\ bronze \in [Keys -> Payloads \cup {NoPayload}]
  /\ jobs \in [Keys -> JobRows]
  /\ \A k \in Keys : jobs[k] = NoJob \/ (jobs[k].id > 0 /\ jobs[k].payload \in Payloads)
  /\ nextId \in Nat \ {0}
  /\ emb \in SUBSET EmbeddingRows
  /\ clock \in Nat
  /\ env \in Embedders
  /\ cfg \in [Procs -> Embedders]
  /\ active \in [Procs -> Embedders]
  /\ op \in [Slots -> OpStates]
  /\ starts \in Nat
  /\ crashes \in Nat
  /\ deleted \in SUBSET Keys

\* What makes VectorOfItsOwnPosting inductive. Ids are handed out once: every id
\* in use, in the table or in an operation's snapshot, lies below the counter,
\* no two postings share one, and an id read in a snapshot still means the
\* posting it meant then, if it means anything.
IdsBelowCounter == \A k \in Keys : jobs[k].id < nextId

IdsUnique ==
  \A j, k \in Keys : jobs[j] # NoJob /\ jobs[k] # NoJob /\ jobs[j].id = jobs[k].id => j = k

SnapshotIdsKeepMeaning ==
  \A o \in Slots : \A r \in op[o].rows :
    /\ r.job < nextId
    /\ \A k \in Keys : jobs[k] # NoJob /\ jobs[k].id = r.job => r.key = k

\* What ForeignVectorsArePending rests on: the label tells the model that made
\* the vector, and job_id is the primary key.
LabelsTruthful == \A e \in emb : e.model = ModelKey[e.by]

SnapshotRowsUnique ==
  \A o \in Slots : \A r, s \in op[o].rows : r.job = s.job => r = s

OneVectorPerPosting == \A e, f \in emb : e.job = f.job => e = f

\* Whatever overlaps, every stored vector hangs on a living posting and was
\* computed from that very posting: a batch that was read before a deletion and
\* written after it never lands on the posting that took its place.
VectorOfItsOwnPosting ==
  \A e \in emb : \E k \in Keys : jobs[k] # NoJob /\ jobs[k].id = e.job /\ e.key = k

\* Search never compares vectors of two embedders for long: a vector that the
\* process's embedder did not make is pending for that process, so its next Gold
\* replaces it (docs/ARCHITECTURE.md 5.5: Pending guarantees the re-embedding).
ForeignVectorsArePending ==
  \A p \in Procs, k \in Keys, e \in emb :
    jobs[k] # NoJob /\ e.job = jobs[k].id /\ e.by # active[p]
      => IsPending(k, ModelKey[active[p]])

\* A posting that no Gold would pick up is embedded from its current text, under
\* every label (docs/ARCHITECTURE.md 5.3: a changed posting is re-embedded).
FreshUnlessPending ==
  \A k \in Keys, l \in Labels :
    jobs[k] # NoJob /\ ~IsPending(k, l)
      => \E e \in emb : e.job = jobs[k].id /\ e.text = FullText[jobs[k].payload]

\* The same two promises, asked only once everything in flight has ended.
SettledVectorsAreFresh == InFlight = {} => FreshUnlessPending

SettledForeignVectorsArePending == InFlight = {} => ForeignVectorsArePending

\* DeleteJob removes the posting down to its bronze original, so that nothing brings
\* it back until a scraper finds it again: no Silver or Gold, whatever it overlaps,
\* but a Silver that had read Bronze and not yet committed when the deletion ended.
DeletedStaysDeleted ==
  \A k \in deleted : jobs[k] = NoJob /\ bronze[k] = NoPayload

=============================================================================

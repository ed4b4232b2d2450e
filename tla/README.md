# Verification of MentoAI

MentoAI collects job postings, embeds them, recommends postings to users and
writes LLM analyses for them. It is one Go binary that runs as HTTP server,
scheduler and CLI over one SQLite file (WAL, `txlock=immediate`,
`foreign_keys(1)`, a pool of four connections per process). This directory holds
TLA+ models of the parts of it where order, failure and concurrency decide what
is true, the TLC runs that check them, and proofs for the core.

`PROJECT.json` maps each definition to the source lines it stands for and lists
components, runs, mutants, findings, hazards and theorems.

## Inventory

| Component | State | Operations | What is hard | What must hold |
|---|---|---|---|---|
| Medallion pipeline (`internal/pipeline`, `storage/sqlite/{raw,jobs,embeddings}.go`) | `bronze_raw_postings`, `silver_jobs`, `silver_job_embeddings` | Bronze, Silver, Gold | stages read, work for minutes, then write; the same tables are written by deletions, rebuilds, switches, cron and CLI | a vector belongs to the posting it hangs on; stale or foreign vectors are found again |
| Rebuild and model switch (`internal/ops`, `internal/embedding`) | `.env`, settings holder, `AtomicEmbedder` | RebuildEmbeddings, SwitchEmbeddingModel | several stores change one after another; a failure leaves a prefix | after any prefix the next Gold repairs |
| Posting deletion (`ops.DeleteJob`) | the tables above, the search index | delete posting, delete original, invalidate | three steps without a transaction, against a running Silver or Gold | deleted stays deleted |
| Guard, triggers, run history (`internal/ops`, `runs.go`) | `Guard.running` in memory, `pipeline_runs` | TriggerPipeline, StartBackground, Runs.Start/Finish | check-then-act; memory is lost at a restart, rows are not | one task per name; rows tell the truth |
| Scheduler (`internal/scheduler`) | robfig/cron's token | tick | bypasses the guard; panics | skips while its own job runs |
| Vector index (`embeddings.go`) | cached rows, mutex | SearchTopK, Invalidate, UpsertMany, DeleteAll | loading overlaps commits; another process writes | searches never go back |
| Recommendation (`internal/recommend`, `internal/scoring`) | none | Recommend | index and tables read at different moments | postings that are gone are skipped |
| Analysis (`internal/analysis`, `cache.go`) | `analysis_cache` | Analyze, Clear, Delete | reads, a slow paid call, a late save | answers match current inputs |
| Accounts (`internal/auth`, `users.go`, `identities.go`, `ops`) | `users`, `user_specs`, `auth_identities`, tokens in browsers | Login, UpdateMe, CreateUser, UpdateUser, DeleteUser, seed | chains of single statements; tokens outlive users | a session opens its own account |
| API authorization (`internal/api/server.go`, `v1.go`) | none | guard, adminGuard, canAccessUser | the session is read twice, the user once, the handler runs later; sessions expire, users are deleted in between | only owners and admins see or change an account |
| OAuth login (`internal/api/auth.go`, `auth/google`, `auth/toss`) | two cookies per browser | authLogin, authCallback, logout | tabs share one state cookie; callbacks are reloaded, late, or another browser's | a session is of somebody who consented here |
| Migrations (`storage.go`) | `schema_migrations` | ApplyMigrations | two processes, crash between files | each applied once |
| `.env` editor (`internal/envfile`) | `.env`, `.env.bak` | Load, Update | rewritten in place | other lines survive |
| Silver normalization, scoring, vector codec | none | pure functions | boundaries, order | agree with simple definitions |
| Scrapers (`internal/scrapers`) | none | Scrape of Wanted and Work24 | the listing moves while it is paged; requests fail one by one | what was fetched last is stored; a failed source touches nothing |
| Gemini embedding client (`internal/embedding/gemini`) | none | EmbedDocuments | requests of a hundred texts, short answers, failures in the middle | every text gets its own vector, or none does |
| Gemini text client (`internal/llm/gemini`) | none | GenerateAnalysis | one slow request, no second try | an analysis of the prompt, or an error |
| Sentry, web UI, deploy scripts | external or browser | | | |

**How they interact.** HTTP handlers call services directly; admin background
work runs in goroutines started by `Guard.Start` under the names `pipeline`,
`embedding_rebuild` and `embedding_switch`; cron calls `RunPipeline` without the
guard; each CLI command wires a second copy of everything in its own process and
shares only the database file and `.env`. All cross-component communication is
through SQLite rows, `.env`, the settings holder, the atomic embedder, and the
index's cache. There is no transaction that spans two repository calls.

## Modules

| Module | Models |
|---|---|
| `Medallion` | the pipeline and everything that can be in flight beside it |
| `MCMedallion` | its small instances |
| `MedallionProofs` | its theorems |
| `OpsGuard` | guard, triggers, cron, CLI pipelines, run rows, panics, exits |
| `NamedLock` | what the guard promises, abstractly: a lock per name |
| `MCOpsGuard` | the instances |
| `OpsGuardProofs` | theorems of `OpsGuard`, and that it implements `NamedLock` |
| `VectorIndex`, `MCVectorIndex` | the index cache, its mutex, the pool and the writers |
| `SearchPromise` | what a client of the index may rely on, abstractly |
| `VectorIndexProofs` | theorems of `VectorIndex`, and that it implements `SearchPromise` |
| `AnalysisCache`, `MCAnalysisCache` | Analyze and what changes under it |
| `AnalysisCacheProofs` | its theorems |
| `Accounts` | login, sign-up, user commands, sessions |
| `Access` | API requests over `Accounts`: the guards, the admin list, the handlers |
| `MCAccounts` | instances of `Access`, and so of `Accounts` |
| `LoginFlow` | the cookies, consent screens and callbacks of one browser |
| `AccessProofs` | theorems of these three |
| `Selections` | what a loop keeps that passes over some elements of a slice |
| `SelectionsProofs` | lemmas about it, and the two forms of induction they use |
| `Ranking` | the scan of SearchTopK and the list Recommend makes of it |
| `SilverBuild` | silver.Build: normalization and keep-last |
| `Startup` | Load, ApplyMigrations, and what a switch does to `.env` |
| `Collect` | both scrapers and Bronze's upsert, while the sites change |
| `EmbedBatch` | the client's requests and Gold's pairing of vectors and postings |
| `ServeProofs` | theorems of `Ranking` and `Startup` |
| `IngestProofs` | theorems of `Collect`, `SilverBuild` and `EmbedBatch` |
| `MCParts` | instances of `Ranking`, `SilverBuild`, `Startup`, `Collect`, `EmbedBatch` and `LoginFlow`, in one run |
| `CommandLine`, `MCCommandLine` | how `users set` takes its arguments apart |

Every action is one SQL statement or transaction, one critical section, or one
external call with its answer. What lies between two actions is where other
processes, requests and failures come in. A failed statement is an action of its
own (`Fail`, `RunWriteFails`, `WriteFails`, ...) that returns from the operation
and leaves what was committed before.

### Medallion

`bronze`, `jobs` and `emb` are the three tables, `nextId` the AUTOINCREMENT
counter, `env`, `cfg` and `active` the three places that name the embedder, per
process where they are in memory. `op` has one slot per operation that may be in
flight: a guard name is a slot, because a second request under that name is a
409; cron, DELETE and the CLI have their own. A slot's record is the local
variables of the Go call: `seen` is what `Raw.All` returned, `rows` what
`Pending` returned, `embedder` what `Current()` returned, `at` the argument of
`UpsertJobs` or `UpsertMany`, `dim` the expected dimension read at the call.

A posting's columns are one payload; `FullText` maps it to its embedding input,
`Usable` says whether the normalizers keep it. A vector is recorded by what it
was made from (`key`, `text`, `by`) next to what the table stores (`job`,
`model`, `at`): the former are history, no guard reads them.

The CLI's `scrape` and `transform` are not commands of their own: what they do to
the tables is what a pipeline does that ends after Bronze (`Fail`), and one whose
Bronze found nothing and that ends after Silver. The run history, where they would
differ, is in `OpsGuard`.

Assumptions: `time.Now()` is strictly increasing across all readings (a clock
that steps back can break any timestamp comparison); `.env` decides the embedder
at start (no overriding environment variable); a scraped record normalizes to
the key it was stored under. One CLI process runs at a time.

### OpsGuard and NamedLock

`guard` is `Guard.running`, `runs` the rows of `pipeline_runs`, `ex[e]` one
execution from its arrival. `TriggerCheck` and `TriggerStart` are the two halves
of `TriggerPipeline`. Panics go through the deferred function; whether
robfig/cron's token survives a panic is the library's business and both
outcomes are allowed. `ServerExit` covers a kill and a shutdown, which does not
wait for background goroutines. The refinement mapping reads `holders` off the
goroutines that exist, not off the `guard` variable, so `GuardIsLock` says what
the map is for.

### VectorIndex and SearchPromise

A table state is a version and its set of posting ids. `mu` is held from
`LockSnapshot` to `Fill`, as in `snapshot`; `conns` is the pool. `known` is
history: the newest version that a returned call acknowledged or showed. CLI
writes are never acknowledged to a client of the server.

`SearchPromise` knows no index: a request looks at one table state, at least as
new as what anybody had been told when it arrived, and ends. The mapping reads
`asked` and `seen` off the calls under way (`floor`, and `got` once the search
has its table state), not off the cache.

### AnalysisCache

A request records what it read; history sets record what was current while it
ran. Contents are from small sets so that a value may return to an earlier one.
The cache may start with rows of the old format. SHA-256 is taken as injective.
The model's name is that of the process: a new one comes with a restart. The call
of the language model is one step that yields `Analysis` or an error; the client
asks once.

### Accounts, Access and LoginFlow

Tables by key, calls as chains of statements. A person is a
`(provider, provider_user_id)` pair; `owner` is history. `TryLimit` stands for
the 99 names `createUser` tries.

`Access` adds the API. A request carries a token that was valid when it arrived;
`Authenticate` and `Permit` are the two readings of it, `GuardLookup` the query
between them, and `Expire` may fall before either. Routes differ in their checks
and not in what the checks protect, so one kind stands for each chain of checks;
the deletion of a user stands for the routes behind `adminGuard`. Every step of
`Accounts` goes on between the steps of a request. AUTH_REQUIRED is true: with
false the code checks nothing and promises nothing.

`LoginFlow` is the browser's side: `stateJar` and `sessionJar` are its two
cookies, `visit[v]` a callback with the cookie, the state and the code it carries.
Whoever consents on a screen gets a code for that screen's state; a callback
address may be opened again, come too late, or come from another browser. What
the provider and the database do with a code is one step here and statements in
`Accounts`. A login inside the Toss app has no consent screen (`inApp`).

### Ranking, SilverBuild, Startup, Collect, EmbedBatch and CommandLine

The loops of the code are steps here, one iteration each. In `Ranking` a row of
the index is its place in the scan (standing for its `job_id`), with a cosine in
hundredths, or zero, or too short to compare; `sort.Search` is its contract, the
place where the descending slice falls below the new similarity. `VectorIndex`
says which table the scan reads, `Ranking` what it makes of it. `SilverBuild` is
what `Kept` stands for in `Medallion`, down to the two loops of the
de-duplication; the columns of a payload are the two that decide whether it is
kept. `Startup` refines the step in which `Medallion` changes `.env` and the
settings: files are truncated, then filled, and the process may die or fail in
between; its migrations run in a transaction whose effects appear at `Commit`.
`whole` and `synced` are history: they say for which behaviours the properties
speak. `Selections` has the loop that three of them share, a slice walked once of
which some elements are kept: hits whose posting is gone, entries without an id,
lines of `.env` that nobody changes. `Collect` is what Bronze of `Medallion` takes as any set of records: each request
is a step, and between two of them the sites may edit a posting or list others in
another order. The last page is the one that the listing's length says: the site is
assumed to leave out `links.next` there and nowhere else. A payload is the revision
it shows, or the default texts of Work24; the parsing of a page is one value.
`EmbedBatch` is what `GoldEmbed` does
in one step. `CommandLine` keeps the caller's names for the two results of
`splitPositional`.

## Runs

| Run | Instance | Shows |
|---|---|---|
| `medallion_overlap` | 2 postings, 1 payload, 2 models of different dimensions, all slots, 3 operations, 3 at once, 1 crash | `VectorOfItsOwnPosting`, `ForeignVectorsArePending`, `DeletedStaysDeleted` under every overlap |
| `medallion_serial` | 1 posting, 4 payloads (one differs only in columns that are not embedded, one is rejected), 5 operations one at a time, 1 crash | `FreshUnlessPending` without overlap |
| `medallion_stale` | 1 posting, pipeline and rebuild at once | counterexample: a stale vector that is never pending |
| `medallion_dim_switch` | 1 posting, one model at two dimensions | counterexample: vectors of the old dimension that stay |
| `ops_guard` | 3 executions of four kinds, 1 fault | `GuardIsExact`, `GuardIsLock`, `RowTellsItsOwnRun`, `RunsEndOrFault` |
| `ops_stuck` | 2 triggers, 1 fault | counterexample: 409 with nothing running |
| `vector_index` | 2 threads, 1 connection, 2 posting ids, 2 writes, 1 failure, CLI writes | `SearchSeesWhatWasKnown`, `SearchesTheTable` (`VectorIndex` implements `SearchPromise`), `CallsEnd`, no deadlock |
| `index_cli` | 1 thread and a CLI | counterexample: the index stays behind the table |
| `analysis` | 2 users, 1 posting, 2 values each of profile, content and model, 3 requests (2 at once), 2 edits | `AnswersAreCurrent`, `RowsHaveOwners` |
| `accounts` | 2 persons with one username, 3 ids, the first of them an admin's, 5 calls and requests, 2 calls and 1 request at once | `SessionOpensOwnAccount`, `LinkedUsersAreComplete`, `ReloginIsSameUser`, `OwnersAndAdminsOnly`, `DeletedUsersAreOut` |
| `parts` | indexes of up to 3 rows with k of -1, 1 and 2; up to 3 records of 2 source ids; 3 process starts, 2 migrations, 2 switches of 2 settings; 2 collections of listings of up to 4 entries with pages of 2, 3 items at most, 2 changes of the sites; up to 3 postings in requests of 2; 2 people, 2 consent screens, 3 callbacks, 2 at once | `HitsAreBest`, `AnswerIsRanked`; `KeepsLast`; `SchemaFollowsRecord`, `OtherLinesSurvive`, `SwitchSurvivesRestart`; `BronzeIsLastFetch`, `ListingIsCovered`; `EachItsOwnVector`; `SessionIsFromOwnConsent` |
| `users_set` | lines that follow the usage text | counterexample: the command refuses them |

**Bounds.** They only cap counters (`MaxStarts`, `MaxFaults`, `MaxWrites`, ...).
Three concurrent operations are the least that put a deletion between a Gold's
read and its write while another pipeline inserts a posting; two postings the
least that let an id be confused. Two executions contend for a name and the
third is the cron or CLI pipeline beside them. The rebuild stands for the switch
as well, which starts through the same call under a name of its own; the theorems
about `OpsGuard` are for every set of kinds. A pool of one connection is the
hardest case for `CallsEnd` with two threads. The late save needs two requests
and one edit, the request that must not be served the third, a value that
changes back the second edit. Three logins and a deletion suffice for every
mutant of `Accounts`; two logins, a deletion and a request of each leave the
request a session that outlived its account, and an id that was another's. Two
consent screens are two tabs that share the state cookie, two callbacks at once
overtake one another, and the third reloads an old address. Three rows and k = 2 fill the slice, insert at each place
of it and drop its last hit; 3 records are one pair with the same key and a row
that keeps its place beside them; two pages with an entry without id let a
posting cross the page border, and the second collection meets what the first one
stored; 3 texts in requests of 2 are a full request and a short one; 3 starts are a crash, a restart and the other
process.

`CHECK_DEADLOCK FALSE` stands in the runs whose systems stop when the bound on
operations is used up. `vector_index` checks deadlock.

**Fairness.** `Medallion`, `AnalysisCache`, `Accounts`, `Access` and the specifications
of `MCParts` state safety only.
`OpsGuard` assumes weak fairness of each goroutine's next step (its HTTP calls
have timeouts, its statements a busy timeout) and of the server start (the
service unit restarts automatically). `VectorIndex` assumes that the mutex and
the pool's queue starve nobody (`sync.Mutex` hands over to long waiters), which
is strong fairness of the acquiring steps, and that running goroutines run.

**Each property breaks.** Beside most actions stands a mutated form, marked
`Mutation:`. Put in the place of the original it violates the property that
`PROJECT.json` names for it.

## What the violations mean

The first four counterexamples are schedules the code allows and a document or
comment rules out. Stale vectors and vectors of an old dimension stay until the text
changes again or someone rebuilds. A stuck run row refuses the admin's trigger until the row is
edited by hand; cron and CLI pipelines still run. An index left behind by the CLI
is corrected by the server's next write of vectors or its restart. The fifth,
`users_set`, needs no schedule: the caller of `splitPositional` takes its two
results in the wrong order, and the command has never accepted a line.

Three behaviours are in the models and outside what the properties promise. A
Silver that had read Bronze, and not yet committed, when a deletion ended writes
the posting back, and so does the failure of the deletion's second statement
(`Medallion`, where `deleted` counts only deletions that ended and that nothing
had overtaken by then: `Overtaken`). A second
Update after one that died while it wrote `.env` copies the damaged file over the
backup (`Startup`, where `OtherLinesSurvive` ends with that second Update). A Work24 page that cannot be
read replaces the texts of an earlier collection by the default texts (`Collect`,
where `BronzeIsLastFetch` counts them as fetched).

## Proofs

Each proof module holds for every value of the constants that satisfies the
named `ASSUME`s of its model: any number of threads, requests, persons, postings,
failures and restarts.

**`MedallionProofs`** (assumptions: finitely many postings, payloads with texts,
embedders with dimensions)

- `TypeCorrect`: `Spec => []TypeOK`.
- `VectorsBelong`: `Spec => []VectorOfItsOwnPosting`. The property is not
  inductive: a Gold that holds ids from before a deletion could attach its
  vectors to whatever those ids mean when it commits. The strengthening says
  ids are handed out once: every id in the table lies below the counter
  (`IdsBelowCounter`), no two postings share one (`IdsUnique`), and an id in an
  operation's snapshot, if it still means a posting, means the one it meant when
  it was read (`SnapshotIdsKeepMeaning`). Most steps change neither table nor
  snapshots in a way that matters (`QuietStep`, `LocalStep`); the work is in
  `SilverCommit`, `GoldPending`, `GoldCommit` and `DeleteRow`.
- `ForeignVectorsHeal`: if `ModelKey` is injective,
  `Spec => []ForeignVectorsArePending`. It rests on `LabelsTruthful` (the stored
  label is the key of the embedder that made the vector) and
  `OneVectorPerPosting` (`job_id` is the primary key). The hypothesis is needed:
  `medallion_dim_switch` shows what happens to two embedders with one key.
- `DeletedStayAway`: `Spec => []DeletedStaysDeleted`, under every overlap. The
  invariant adds that no Silver between its read and its commit holds a copy of a
  posting that stays deleted (`CopiesWithout`): what is read later is without it,
  and a deletion that such a copy overtakes is not recorded.
- `FreshWithoutOverlap`: if at most one operation is in flight (`MaxActive = 1`,
  finitely many slots), `FreshUnlessPending` holds, however many operations,
  failures and crashes follow one another. The hypothesis is needed: `medallion_stale` is the
  counterexample of two. The invariant is `SerialInv`: the one operation in
  flight holds what the tables still say (`HoldsCurrent`), no stamp lies in the
  future, and a vector of another text than its posting's is older than the
  posting's last change (`FreshOrOld`).

**`OpsGuardProofs`**

- `OpsTypeCorrect`; `GuardExact`: `Spec => []GuardIsExact`. The guard and the
  goroutines are tied in both directions: every name in the guard has a goroutine
  that will remove it (`GuardHasHolders`), and no name has two (`OneHolder`).
- `RowsTellOwnRun`: `Spec => []RowTellsItsOwnRun`, from `RowsAreOwn`: a row id
  belongs to one execution.
- `GuardImplementsLock`: the initial states are `NamedLock`'s, and each step is a
  step of `NamedLock` or changes no holder. This is `GuardIsLock` without its
  fairness.

**`VectorIndexProofs`**

- `IndexTypeCorrect`; `SearchNeverGoesBack`: `Spec => []SearchSeesWhatWasKnown`.
  The property says nothing of the index, so the invariant adds: whoever is inside
  `snapshot` is alone (`MutexIsHeld`), nothing is ahead of the table
  (`BehindTable`), and a loaded index, or a result on its way into it, holds what
  is known and what the searches under way have seen (`IndexCovers`). The last
  holds because a writer is acknowledged only after its Invalidate, which waits
  for the mutex.
- `IndexKeepsPromise`: each step is a step of `SearchPromise` or none, which is
  `SearchesTheTable` without its fairness. It uses the invariant before and after
  the step, and that a call's kind fits the place where it is (`KindFits`).

**`AnalysisCacheProofs`**

- `AnalysisTypeCorrect`; `AnswersStayCurrent`: `Spec => []AnswersAreCurrent`. What a
  request has read is in its history (`ReadsAreHistory`), what is current joins
  the history of every request in flight (`HistoryIsCurrent`), and a row is a hit
  only for the prompt it was generated from (`RowsAreOwn`).
- `RowsKeepOwners`: `Spec => []RowsHaveOwners`, the foreign keys' work.

**`AccessProofs`**

- `AccountsTypeCorrect`, `SessionsAreOwn`, `LinkedAreComplete`, `ReloginsAreSame`,
  `GuardsProtect` and `DeletedStayOut`: the six invariants of the run `accounts`.
  They share one argument: ids are handed out once, so an id in a token, in a call
  or in a request, if it names a user now, names the person it was given for. A
  relation between old and new tables (`Onward`) says what every action keeps.
- `SessionFromOwnConsent`: `LoginSpec => []SessionIsFromOwnConsent`. A state is a
  screen of this browser and is consented to by one person, so a callback whose
  state matches the cookie carries the code of somebody who consented here.

**`SelectionsProofs`** has no theorem of a component. Its lemmas say what `Selected`
yields for every sequence and every set of places: its elements are elements at
these places, in their order (`SelectedInOrder`), a longer sequence only adds to it
(`SelectedJoins`), and two sequences that agree at the places have one result
(`SelectedAgrees`). These are inductions over the length. The library's induction
theorems take a predicate as a parameter; here the predicate is a set, the set of
lengths for which the fact holds, and the principle is a lemma about sets
(`LeastElement` from the well-foundedness of `<`, then `UpToInduction`). `Joins(c,
a, b)` says that `c` is `a` followed by `b`, place by place.

**`ServeProofs`** (assumptions: integer similarities; finitely many keys, lines that
are lines)

- `SearchFindsBest`: `RankingSpec => []HitsAreBest`, for every index, every k and
  every set of integer similarities. The argument is the loop invariant of the
  scan: after n rows the slice is what a full sort of these rows would put in front
  (`BestOf(topk, n)`). `PassOverKeepsBest` and `InsertKeepsBest` carry it over one
  row; the latter's case of interest is a full slice, whose last hit falls off and
  must come after all that stay, the new one included.
- `RecommendsInOrder`: `RankingSpec => []AnswerIsRanked`. The list is the slice
  without the hits whose posting is gone; it keeps their order, and rounding and
  clamping are monotonic (`ScoreIsMonotonic`).
- `MigrationsFollowRecord`: `StartupSpec => []SchemaFollowsRecord`. The property is
  not inductive: nothing in it keeps a process from running a file that another has
  recorded since. `LockIsHeld` says who is inside a transaction is alone,
  `NothingSkipped` that every file not on record is still ahead of each process
  that migrates, and `TransactionHolds` what the open transaction holds at each
  statement, and that a file about to be committed is not on record: `Record` fails
  on the primary key otherwise.
- `OtherLinesAreKept`: `StartupSpec => []OtherLinesSurvive`. `LinesAreSafe` says at
  each step of an Update which of `.env`, the backup and the process's own copy
  have all the other lines; `OneUpdates` that only one process is at it, which is
  what `whole` records.
- `RestartFindsSwitch`: `StartupSpec => []SwitchSurvivesRestart`. `SyncInv` follows
  the settings from Update's argument through the file to memory; `UpdatedMatches`
  says that Load reads from an updated file what Update was given, though it reads
  the first of several lines of a key and Update replaces all of them.

**`IngestProofs`** (assumptions: listings are sequences of their source's postings,
no posting belongs to two sources, pages and requests are not empty, `MaxItems` is
not negative)

- `BronzeKeepsLastFetch`: `CollectSpec => []BronzeIsLastFetch`. `RecordsInPlace` says
  of each posting of each scraper, before it runs, while it runs and after, that the
  last record of it is what the collection has fetched last (`LastShown`), or that
  there is none, which is the case for every scraper that failed. The upsert writes
  the records in their order, so the last one of a posting stays.
- `PagesCoverListing`: `CollectSpec => []ListingIsCovered`. While a listing stays the
  same, the ids are those of its entries up to the offset (`ListingInv`); one more
  page extends that by `SelectedJoins`.
- `BuildKeepsLast`: `SilverSpec => []KeepsLast`. Each loop has its invariant: the
  rows stand for the useful records so far (`AreUseful`), the result for the rows
  from the end whose key had not been met (`AreLastFrom`, descending), and the part
  of it that is not yet turned still descends while the rest ascends, across the
  middle too (`TurnedUpTo`).
- `SavesOwnVectors`: `EmbedSpec => []EachItsOwnVector`, for every number of postings,
  every size of a request and every set of dimensions. The vectors put together so
  far belong to a prefix of the postings which ends where the next request starts
  (`PrefixEmbedded`); `ChunkExtendsPrefix` carries it over one answer, and needs
  the comparison of the two counts.

TLC has checked each of these invariants on a small instance as well.

**Only model-checked.** Every invariant of the passing runs has a theorem. The
liveness properties (`RunsEndOrFault`, `CallsEnd`) and the liveness part of the
refinements `GuardIsLock` and `SearchesTheTable` are out of the prover's reach; so is
anything about ENABLED, and with it the absence of deadlock in `vector_index`. The
counterexamples are TLC's, and `CommandLine` has nothing else.

## Plan

1. Done: `Medallion`, `OpsGuard` with `NamedLock`, `VectorIndex` with
   `SearchPromise`, `AnalysisCache`, `Accounts` with `Access`, and their proofs.
2. Done: `Ranking`, `EmbedBatch`, `LoginFlow`, `SilverBuild`, `Startup` (migrations
   and `.env`), `Collect` and their proofs; `CommandLine`.
3. Left: the normalizers' columns in `SilverBuild`; two collections at once in
   `Collect`, for which the code states no order; `Startup` as a refinement of
   `SwitchConfig` of `Medallion`.

## Not modelled

The job sites, Gemini, the OAuth providers and Sentry are external: the models
take every result they may return. The decoding of a token and its HMAC are
assumed to be right, and so is the decoding of a model's answer. HTTP decoding,
status wording, labels and reasons of a recommendation, HTML, CSS and the
deployment scripts keep no state these properties speak about. The pages' scripts
overlap requests, but nothing documents what they promise. Floating point
arithmetic and the byte order of vectors are out of TLC's reach. `PROJECT.json` gives the reason
per component.

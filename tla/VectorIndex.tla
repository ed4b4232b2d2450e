---------------------------- MODULE VectorIndex ----------------------------
(***************************************************************************)
(* The in-memory search index over silver_job_embeddings: loaded lazily    *)
(* under a mutex, dropped after each committed write of this process, and  *)
(* shared by every recommendation request. A write of the CLI, a process   *)
(* with an index of its own, reaches the table only.                       *)
(*                                                                         *)
(* A table state is its set of posting ids together with the number of     *)
(* writes that led to it; the vectors are abstracted by that number. A     *)
(* request holds one of the pool's connections while its statement runs.   *)
(***************************************************************************)
EXTENDS Integers, FiniteSets

CONSTANTS
  Ids,          \* bound: posting ids AUTOINCREMENT hands out
  Threads,      \* goroutines of the server: requests and background tasks
  Pool,         \* SetMaxOpenConns
  CliWrites,    \* whether a CLI process writes beside the server
  MaxWrites,    \* bound: committed writes of a behaviour
  MaxFailures   \* bound: failed statements and server restarts

ASSUME IndexConstants ==
  Pool \in Nat \ {0} /\ MaxWrites \in Nat /\ MaxFailures \in Nat /\ CliWrites \in BOOLEAN

VARIABLES
  jobs,       \* silver_jobs: ids of the postings
  table,      \* silver_job_embeddings
  cache,      \* Embeddings.cache: NotLoaded or the table state it was filled from
  mu,         \* Embeddings.mu: the set of threads inside, at most one
  conns,      \* threads holding a database connection
  th,         \* th[t]: the call thread t serves and its locals
  failures,   \* failures so far (only for MaxFailures)
  known       \* history: the newest write a returned call has acknowledged or shown

vars == <<jobs, table, cache, mu, conns, th, failures, known>>

NotLoaded == [ver |-> -1, rows |-> {}]
Tables == [ver : 0 .. MaxWrites, rows : SUBSET Ids]

Writes == {"upsertMany", "deleteAll", "deleteJob"}

PCs == {"idle", "conn", "statement", "rawConn", "raw", "lock",
        "cached", "loadConn", "load", "fill", "hydrate"}

\* rows: the posting ids written or deleted; wrote: the version the call's write
\* made; got: the table state read into the index or taken from it; floor: known
\* when the call arrived.
Idle == [kind |-> "none", pc |-> "idle", rows |-> {}, wrote |-> 0, got |-> NotLoaded, floor |-> 0]

Init ==
  /\ jobs = {}
  /\ table = [ver |-> 0, rows |-> {}]
  /\ cache = NotLoaded
  /\ mu = {}
  /\ conns = {}
  /\ th = [t \in Threads |-> Idle]
  /\ failures = 0
  /\ known = 0

At(t, pc) == th[t].pc = pc
Goto(t, pc) == th' = [th EXCEPT ![t].pc = pc]

\* The call returns; what it acknowledged or showed is known from then on.
Return(t, ver) ==
  /\ th' = [th EXCEPT ![t] = Idle]
  /\ known' = IF ver > known THEN ver ELSE known

-----------------------------------------------------------------------------
(* Calls arrive.                                                           *)

CallSearch(t) ==
  /\ At(t, "idle")
  /\ th' = [th EXCEPT ![t] = [Idle EXCEPT !.kind = "search", !.pc = "lock", !.floor = known]]
  /\ UNCHANGED <<jobs, table, cache, mu, conns, failures, known>>

\* Gold's batch, the rebuild's DELETE, the admin's deletion of one posting.
CallWrite(t) ==
  /\ At(t, "idle")
  /\ \E kind \in Writes, rows \in SUBSET jobs :
       /\ kind = "deleteAll" <=> rows = {}
       /\ kind = "deleteJob" => Cardinality(rows) = 1
       /\ th' = [th EXCEPT ![t] = [Idle EXCEPT !.kind = kind, !.pc = "conn", !.rows = rows]]
  /\ UNCHANGED <<jobs, table, cache, mu, conns, failures, known>>

-----------------------------------------------------------------------------
(* The connection pool and the mutex.                                      *)

\* Mutation: no SetMaxOpenConns.
TakeConn_Unlimited(t) ==
  /\ th[t].pc \in {"conn", "rawConn", "loadConn"}
  /\ conns' = conns \cup {t}
  /\ Goto(t, CASE At(t, "conn") -> "statement" [] At(t, "rawConn") -> "raw" [] OTHER -> "load")
  /\ UNCHANGED <<jobs, table, cache, mu, failures, known>>

\* A statement waits until the pool has a connection.
TakeConn(t) ==
  /\ th[t].pc \in {"conn", "rawConn", "loadConn"}
  /\ Cardinality(conns) < Pool
  /\ conns' = conns \cup {t}
  /\ Goto(t, CASE At(t, "conn") -> "statement" [] At(t, "rawConn") -> "raw" [] OTHER -> "load")
  /\ UNCHANGED <<jobs, table, cache, mu, failures, known>>

\* Mutation: a write leaves the index as it is.
Invalidate_KeepsCache(t) ==
  /\ At(t, "lock") /\ th[t].kind \in Writes
  /\ mu = {}
  /\ Return(t, th[t].wrote)
  /\ UNCHANGED <<jobs, table, cache, mu, conns, failures>>

\* Invalidate and snapshot both lock mu; snapshot keeps it until the cache is full.
\* Invalidate drops the cache and its caller returns.
Invalidate(t) ==
  /\ At(t, "lock") /\ th[t].kind \in Writes
  /\ mu = {}
  /\ cache' = NotLoaded
  /\ Return(t, th[t].wrote)
  /\ UNCHANGED <<jobs, table, mu, conns, failures>>

\* Mutation: the mutex is not held while the table is read.
LockSnapshot_NotHeld(t) ==
  /\ At(t, "lock") /\ th[t].kind = "search"
  /\ mu = {}
  /\ Goto(t, IF cache = NotLoaded THEN "loadConn" ELSE "cached")
  /\ UNCHANGED <<jobs, table, cache, mu, conns, failures, known>>

LockSnapshot(t) ==
  /\ At(t, "lock") /\ th[t].kind = "search"
  /\ mu = {}
  /\ mu' = {t}
  /\ Goto(t, IF cache = NotLoaded THEN "loadConn" ELSE "cached")
  /\ UNCHANGED <<jobs, table, cache, conns, failures, known>>

-----------------------------------------------------------------------------
(* Writes. A connection goes back to the pool when its statement or        *)
(* transaction ends, before the caller asks for the mutex.                 *)

Written(t) ==
  CASE th[t].kind = "upsertMany" -> table.rows \cup th[t].rows
    [] th[t].kind = "deleteAll"  -> {}
    [] OTHER                     -> table.rows \ th[t].rows

\* A vector needs its posting: the foreign key.
HasPostings(t) == th[t].kind = "upsertMany" => th[t].rows \subseteq jobs

\* Mutation: the connection is kept until Invalidate has run.
Commit_KeepsConnection(t) ==
  /\ At(t, "statement")
  /\ HasPostings(t)
  /\ table.ver < MaxWrites
  /\ table' = [ver |-> table.ver + 1, rows |-> Written(t)]
  /\ jobs' = IF th[t].kind = "deleteJob" THEN jobs \ th[t].rows ELSE jobs
  /\ th' = [th EXCEPT ![t].wrote = table.ver + 1,
                      ![t].pc = IF th[t].kind = "deleteJob" THEN "rawConn" ELSE "lock"]
  /\ UNCHANGED <<cache, mu, conns, failures, known>>

\* Deleting a posting cascades to its vector, and a posting that is already gone is
\* no error. DeleteJob still has the bronze original to delete before it invalidates.
Commit(t) ==
  /\ At(t, "statement")
  /\ HasPostings(t)
  /\ table.ver < MaxWrites
  /\ table' = [ver |-> table.ver + 1, rows |-> Written(t)]
  /\ jobs' = IF th[t].kind = "deleteJob" THEN jobs \ th[t].rows ELSE jobs
  /\ th' = [th EXCEPT ![t].wrote = table.ver + 1,
                      ![t].pc = IF th[t].kind = "deleteJob" THEN "rawConn" ELSE "lock"]
  /\ conns' = conns \ {t}
  /\ UNCHANGED <<cache, mu, failures, known>>

\* raw.DeleteByKey.
DeleteRaw(t) ==
  /\ At(t, "raw")
  /\ conns' = conns \ {t}
  /\ Goto(t, "lock")
  /\ UNCHANGED <<jobs, table, cache, mu, failures, known>>

\* An error of either statement (among them a broken foreign key) is returned at
\* once; DeleteJob's second one then leaves a committed deletion without an
\* Invalidate. The bound of writes is an error too.
WriteFails(t) ==
  /\ th[t].pc \in {"statement", "raw"}
  /\ \/ failures < MaxFailures /\ failures' = failures + 1
     \/ At(t, "statement") /\ table.ver = MaxWrites /\ UNCHANGED failures
     \/ At(t, "statement") /\ ~HasPostings(t) /\ UNCHANGED failures
  /\ conns' = conns \ {t}
  /\ Return(t, 0)
  /\ UNCHANGED <<jobs, table, cache, mu>>

-----------------------------------------------------------------------------
(* Searching.                                                              *)

UseCache(t) ==
  /\ At(t, "cached")
  /\ mu' = {}
  /\ th' = [th EXCEPT ![t].got = cache, ![t].pc = "hydrate"]
  /\ UNCHANGED <<jobs, table, cache, conns, failures, known>>

\* The SELECT of snapshot: WAL gives it the table as of its first row.
Load(t) ==
  /\ At(t, "load")
  /\ th' = [th EXCEPT ![t].got = table, ![t].pc = "fill"]
  /\ UNCHANGED <<jobs, table, cache, mu, conns, failures, known>>

Fill(t) ==
  /\ At(t, "fill")
  /\ cache' = th[t].got
  /\ mu' = {}
  /\ conns' = conns \ {t}
  /\ Goto(t, "hydrate")
  /\ UNCHANGED <<jobs, table, failures, known>>

\* Mutation: an error return of snapshot forgets the mutex.
LoadFails_KeepsMutex(t) ==
  /\ At(t, "load")
  /\ failures < MaxFailures
  /\ failures' = failures + 1
  /\ conns' = conns \ {t}
  /\ Return(t, 0)
  /\ UNCHANGED <<jobs, table, cache, mu>>

\* A failed query, scan or decode: the deferred calls give both back, nothing is cached.
LoadFails(t) ==
  /\ At(t, "load")
  /\ failures < MaxFailures
  /\ failures' = failures + 1
  /\ mu' = {}
  /\ conns' = conns \ {t}
  /\ Return(t, 0)
  /\ UNCHANGED <<jobs, table, cache>>

\* Recommend reads the hits' postings, skips those that are gone, and answers.
Hydrate(t) ==
  /\ At(t, "hydrate")
  /\ Cardinality(conns) < Pool
  /\ Return(t, th[t].got.ver)
  /\ UNCHANGED <<jobs, table, cache, mu, conns, failures>>

HydrateFails(t) ==
  /\ At(t, "hydrate")
  /\ failures < MaxFailures
  /\ failures' = failures + 1
  /\ Return(t, 0)
  /\ UNCHANGED <<jobs, table, cache, mu, conns>>

-----------------------------------------------------------------------------
(* Outside the server's index.                                             *)

\* Silver inserts a posting; its id is above every id in use (AUTOINCREMENT: above every
\* id ever used).
InsertJob ==
  /\ \E id \in Ids :
       /\ \A j \in jobs \cup table.rows : j < id
       /\ jobs' = jobs \cup {id}
  /\ UNCHANGED <<table, cache, mu, conns, th, failures, known>>

\* `mentoai pipeline`, `embed --force` or `jobs rm`: the same writes through
\* another process, whose Invalidate drops an index of its own.
CliWrite ==
  /\ CliWrites
  /\ table.ver < MaxWrites
  /\ \E gone, rows \in SUBSET jobs :
       /\ jobs' = jobs \ gone
       /\ table' = [ver |-> table.ver + 1, rows |-> rows \ gone]
  /\ UNCHANGED <<cache, mu, conns, th, failures, known>>

\* The server stops and starts: the index, the mutex and the calls are gone.
Restart ==
  /\ failures < MaxFailures
  /\ failures' = failures + 1
  /\ cache' = NotLoaded
  /\ mu' = {}
  /\ conns' = {}
  /\ th' = [t \in Threads |-> Idle]
  /\ UNCHANGED <<jobs, table, known>>

\* Steps that wait for something another thread holds, and steps that do not.
Acquire(t) == TakeConn(t) \/ Invalidate(t) \/ LockSnapshot(t) \/ Hydrate(t)
Proceed(t) == Commit(t) \/ DeleteRaw(t) \/ WriteFails(t) \/ UseCache(t) \/ Load(t) \/ Fill(t)

Next ==
  \/ \E t \in Threads :
       CallSearch(t) \/ CallWrite(t) \/ Acquire(t) \/ Proceed(t)
         \/ LoadFails(t) \/ HydrateFails(t)
  \/ InsertJob \/ CliWrite \/ Restart

\* sync.Mutex and the pool's queue do not starve a waiter; a running goroutine runs.
Fairness == \A t \in Threads : SF_vars(Acquire(t)) /\ WF_vars(Proceed(t))

Spec == Init /\ [][Next]_vars /\ Fairness

-----------------------------------------------------------------------------
(* Properties.                                                             *)

TypeOK ==
  /\ jobs \subseteq Ids
  /\ table \in Tables
  /\ cache \in Tables \cup {NotLoaded}
  /\ mu \in SUBSET Threads /\ Cardinality(mu) <= 1
  /\ conns \in SUBSET Threads /\ Cardinality(conns) <= Pool
  /\ \A t \in Threads :
       /\ th[t].kind \in Writes \cup {"search", "none"}
       /\ th[t].pc \in PCs
       /\ th[t].rows \subseteq Ids
       /\ th[t].wrote \in 0 .. MaxWrites
       /\ th[t].got \in Tables \cup {NotLoaded}
       /\ th[t].floor \in 0 .. MaxWrites
  /\ failures \in 0 .. MaxFailures
  /\ known \in 0 .. MaxWrites

\* A recommendation never goes back: it is computed from a table state that holds
\* every write of this server that returned before the request arrived, and is no
\* older than what an earlier recommendation has shown, whatever overlaps the load
\* of the index (embeddings.go: a write invalidates the cache).
SearchSeesWhatWasKnown ==
  \A t \in Threads : At(t, "hydrate") => th[t].got.ver >= th[t].floor

\* Nobody waits for ever on the mutex or the four connections: every call returns.
CallsEnd == \A t \in Threads : (th[t].pc # "idle") ~> (th[t].pc = "idle")

\* The requests under way, as their clients see them.
Asked == [t \in Threads |-> IF th[t].kind = "search" THEN th[t].floor ELSE -1]
Seen == [t \in Threads |-> IF At(t, "hydrate") THEN th[t].got.ver ELSE -1]

Promise == INSTANCE SearchPromise
             WITH Clients <- Threads, latest <- table.ver, asked <- Asked, seen <- Seen

\* Index, mutex, pool and writers together behave as if there were no index: a client
\* cannot tell the recommendations from searches of the table itself at some moment
\* between what was known on arrival and the answer, and every request ends.
SearchesTheTable == Promise!Spec

\* Once no call is in flight the index, if loaded, is the table
\* (embeddings.go: the cache is invalidated when there is a write).
SettledIndexIsTable ==
  (\A t \in Threads : At(t, "idle")) /\ cache # NotLoaded => cache = table

=============================================================================

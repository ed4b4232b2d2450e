----------------------------- MODULE OpsGuard ------------------------------
(***************************************************************************)
(* Who may start work, and what is left behind when it ends badly: the     *)
(* in-memory Guard of the admin service, the HasRunning check on the       *)
(* pipeline_runs table in front of it, the cron entry and the CLI, which   *)
(* consult neither, panics, failed writes and process exits.               *)
(*                                                                         *)
(* An execution e is one request, cron tick or command, from its arrival   *)
(* to its end. The body of a pipeline is a single step with an outcome:    *)
(* module Medallion has its stages.                                        *)
(***************************************************************************)
EXTENDS Integers, Sequences, FiniteSets

CONSTANTS
  Execs,      \* bound: the executions of a behaviour
  Kinds,      \* what this instance may execute
  MaxFaults   \* bound: panics, failed run-row writes and process exits

AllKinds == {"trigger", "embedding_rebuild", "embedding_switch", "cron", "cli"}

ASSUME KindsAssumption == Kinds \subseteq AllKinds

VARIABLES
  up,      \* the server process is up
  guard,   \* Guard.running: names in use, in the server's memory
  token,   \* SkipIfStillRunning's token: the cron entry may run
  runs,    \* pipeline_runs: the status of each row, by AUTOINCREMENT id
  ex,      \* ex[e]: where execution e is
  faults   \* faults so far (only for MaxFaults)

vars == <<up, guard, token, runs, ex, faults>>

Statuses == {"running", "success", "failed"}

PCs == {"new", "checked", "conflict", "launched", "running", "ended", "working",
        "release", "done"}

\* kind; step; its row in runs, 0 before Runs.Start; the outcome of its body.
New == [kind |-> "none", pc |-> "new", run |-> 0, outcome |-> "none"]

Guarded == {"trigger", "embedding_rebuild", "embedding_switch"}
Pipelines == {"trigger", "cron", "cli"}

\* The name the execution passes to Guard.Start.
NameOf(kind) == IF kind = "trigger" THEN "pipeline" ELSE kind
Names == {NameOf(k) : k \in Guarded}

\* The goroutine behind the execution exists.
Live(e) == ex[e].pc \in {"launched", "running", "ended", "working", "release"}

\* Steps of an execution inside the server need the server.
Alive(e) == ex[e].kind = "cli" \/ up

Init ==
  /\ up = TRUE
  /\ guard = {}
  /\ token = TRUE
  /\ runs = <<>>
  /\ ex = [e \in Execs |-> New]
  /\ faults = 0

Move(e, pc) == ex' = [ex EXCEPT ![e].pc = pc]

HasRunning == \E i \in DOMAIN runs : runs[i] = "running"

-----------------------------------------------------------------------------
(* Starting.                                                               *)

\* TriggerPipeline, first half: a row in state running is a 409.
TriggerCheck(e) ==
  /\ ex[e].pc = "new" /\ up /\ "trigger" \in Kinds
  /\ ex' = [ex EXCEPT ![e] = [New EXCEPT !.kind = "trigger",
                                         !.pc = IF HasRunning THEN "conflict" ELSE "checked"]]
  /\ UNCHANGED <<up, guard, token, runs, faults>>

\* Mutation: Start does not look whether the name is taken.
NameFree_NotChecked(name) == name \in Names

\* The lookup and the insertion happen under the guard's mutex: one step.
NameFree(name) == name \notin guard

\* TriggerPipeline, second half: guard.Start("pipeline") or a 409.
TriggerStart(e) ==
  /\ ex[e].pc = "checked" /\ up
  /\ \/ NameFree("pipeline") /\ guard' = guard \cup {"pipeline"} /\ Move(e, "launched")
     \/ ~NameFree("pipeline") /\ Move(e, "conflict") /\ UNCHANGED guard
  /\ UNCHANGED <<up, token, runs, faults>>

\* The admin's rebuild and switch requests: StartBackground, nothing else.
BackgroundStart(e, kind) ==
  /\ ex[e].pc = "new" /\ up
  /\ kind \in Kinds \cap {"embedding_rebuild", "embedding_switch"}
  /\ \/ NameFree(kind) /\ guard' = guard \cup {kind}
        /\ ex' = [ex EXCEPT ![e] = [New EXCEPT !.kind = kind, !.pc = "working"]]
     \/ ~NameFree(kind) /\ UNCHANGED guard
        /\ ex' = [ex EXCEPT ![e] = [New EXCEPT !.kind = kind, !.pc = "conflict"]]
  /\ UNCHANGED <<up, token, runs, faults>>

\* A tick of the cron entry; one that finds the token gone is skipped.
CronTick(e) ==
  /\ ex[e].pc = "new" /\ up /\ "cron" \in Kinds /\ token
  /\ token' = FALSE
  /\ ex' = [ex EXCEPT ![e] = [New EXCEPT !.kind = "cron", !.pc = "launched"]]
  /\ UNCHANGED <<up, guard, runs, faults>>

\* `mentoai pipeline` in a process of its own.
CliStart(e) ==
  /\ ex[e].pc = "new" /\ "cli" \in Kinds
  /\ ex' = [ex EXCEPT ![e] = [New EXCEPT !.kind = "cli", !.pc = "launched"]]
  /\ UNCHANGED <<up, guard, token, runs, faults>>

-----------------------------------------------------------------------------
(* RunPipeline and the bodies.                                             *)

\* Mutation: the id is handed out, the INSERT is not executed.
RunStart_NoInsert(e) ==
  /\ ex[e].pc = "launched" /\ Alive(e)
  /\ ex' = [ex EXCEPT ![e].run = Len(runs) + 1, ![e].pc = "running"]
  /\ UNCHANGED <<up, guard, token, runs, faults>>

RunStart(e) ==
  /\ ex[e].pc = "launched" /\ Alive(e)
  /\ runs' = Append(runs, "running")
  /\ ex' = [ex EXCEPT ![e].run = Len(runs) + 1, ![e].pc = "running"]
  /\ UNCHANGED <<up, guard, token, faults>>

RunBody(e) ==
  /\ ex[e].pc = "running" /\ Alive(e)
  /\ \E outcome \in {"success", "failed"} :
       ex' = [ex EXCEPT ![e].outcome = outcome, ![e].pc = "ended"]
  /\ UNCHANGED <<up, guard, token, runs, faults>>

\* Mutation: Finish updates the newest row instead of the run's own.
FinishedRow_Newest(e) == Len(runs)

FinishedRow(e) == ex[e].run

\* Mutation: an early return on the error path skips Runs.Finish.
RunFinish_SkippedOnError(e) ==
  /\ ex[e].pc = "ended" /\ Alive(e)
  /\ runs' = IF ex[e].outcome = "failed" THEN runs
             ELSE [runs EXCEPT ![FinishedRow(e)] = ex[e].outcome]
  /\ Move(e, "release")
  /\ UNCHANGED <<up, guard, token, faults>>

RunFinish(e) ==
  /\ ex[e].pc = "ended" /\ Alive(e)
  /\ runs' = [runs EXCEPT ![FinishedRow(e)] = ex[e].outcome]
  /\ Move(e, "release")
  /\ UNCHANGED <<up, guard, token, faults>>

\* An error of Runs.Start ends the run before a row exists; an error of
\* Runs.Finish is logged or returned, and the row keeps saying running.
RunWriteFails(e) ==
  /\ ex[e].pc \in {"launched", "ended"} /\ Alive(e)
  /\ faults < MaxFaults
  /\ faults' = faults + 1
  /\ Move(e, "release")
  /\ UNCHANGED <<up, guard, token, runs>>

\* Rebuild and switch keep no row; they end with or without an error.
WorkEnds(e) ==
  /\ ex[e].pc = "working" /\ up
  /\ Move(e, "release")
  /\ UNCHANGED <<up, guard, token, runs, faults>>

-----------------------------------------------------------------------------
(* Ending.                                                                 *)

\* The deferred function of the guard's goroutine frees the name; the cron
\* wrapper puts its token back; a CLI process exits.
Release(e) ==
  /\ ex[e].pc = "release" /\ Alive(e)
  /\ guard' = IF ex[e].kind \in Guarded THEN guard \ {NameOf(ex[e].kind)} ELSE guard
  /\ token' = (token \/ ex[e].kind = "cron")
  /\ Move(e, "done")
  /\ UNCHANGED <<up, runs, faults>>

\* Mutation: the name is freed after fn returns, not in the deferred function.
AfterPanic_NotDeferred(e) == "done"

\* recover runs in the deferred function that also frees the name.
AfterPanic(e) == IF ex[e].kind \in Guarded THEN "release" ELSE "done"

\* A panic skips Runs.Finish. The guard recovers it; so does the cron chain, whose
\* inner wrapper may or may not put the token back (it is the library's code);
\* a CLI process dies.
Panic(e) ==
  /\ ex[e].pc \in {"running", "working"} /\ Alive(e)
  /\ faults < MaxFaults
  /\ faults' = faults + 1
  /\ Move(e, AfterPanic(e))
  /\ token' \in (IF ex[e].kind = "cron" THEN BOOLEAN ELSE {token})
  /\ UNCHANGED <<up, guard, runs>>

\* Kill, crash or a shutdown that does not wait for background work: goroutines
\* and the guard are gone, the rows stay as they are.
ServerExit ==
  /\ up
  /\ faults < MaxFaults
  /\ faults' = faults + 1
  /\ up' = FALSE
  /\ guard' = {}
  /\ ex' = [e \in Execs |->
             IF ex[e].kind # "cli" /\ (Live(e) \/ ex[e].pc = "checked")
             THEN [ex[e] EXCEPT !.pc = "done"] ELSE ex[e]]
  /\ UNCHANGED <<token, runs>>

\* cmdServe wires everything anew; no row is touched.
ServerStart ==
  /\ ~up
  /\ up' = TRUE
  /\ token' = TRUE
  /\ UNCHANGED <<guard, runs, ex, faults>>

Arrive(e) ==
  \/ TriggerCheck(e) \/ CronTick(e) \/ CliStart(e)
  \/ \E kind \in {"embedding_rebuild", "embedding_switch"} : BackgroundStart(e, kind)

\* The steps a goroutine or request handler takes by itself.
Proceed(e) ==
  \/ TriggerStart(e)
  \/ RunStart(e) \/ RunBody(e) \/ RunFinish(e) \/ WorkEnds(e) \/ Release(e)

Next ==
  \/ \E e \in Execs : Arrive(e) \/ Proceed(e) \/ RunWriteFails(e) \/ Panic(e)
  \/ ServerExit \/ ServerStart

\* Every goroutine keeps running (its HTTP calls have timeouts and its statements
\* a busy timeout), and the service manager restarts the server.
Fairness == (\A e \in Execs : WF_vars(Proceed(e))) /\ WF_vars(ServerStart)

Spec == Init /\ [][Next]_vars /\ Fairness

-----------------------------------------------------------------------------
(* Properties.                                                             *)

TypeOK ==
  /\ up \in BOOLEAN
  /\ guard \in SUBSET Names
  /\ token \in BOOLEAN
  /\ runs \in Seq(Statuses)
  /\ ex \in [Execs -> [kind : AllKinds \cup {"none"}, pc : PCs, run : Nat,
                       outcome : {"none", "success", "failed"}]]
  /\ \A e \in Execs : ex[e].run <= Len(runs)
  /\ faults \in Nat

\* The names in the guard are exactly those of the goroutines that exist, so a 409
\* from the guard always means the task is running and a restart frees them all.
GuardIsExact == guard = {NameOf(ex[e].kind) : e \in {x \in Execs : Live(x) /\ ex[x].kind \in Guarded}}

\* The guard is a lock per name: two requests for one task never both run, and
\* whoever runs under a name frees it, after an error or a panic too.
Holders == [n \in Names |-> {e \in Execs : Live(e) /\ ex[e].kind \in Guarded /\ NameOf(ex[e].kind) = n}]

Lock == INSTANCE NamedLock WITH Tasks <- Execs, holders <- Holders

GuardIsLock == Lock!Spec

\* The run of e has left the state running.
Recorded(e) == ex[e].run # 0 /\ runs[ex[e].run] # "running"

\* A row that says success or failed says how the execution that created it ended,
\* however many pipelines overlap.
RowTellsItsOwnRun ==
  \A e \in Execs :
    Recorded(e) => runs[ex[e].run] = ex[e].outcome

\* Short of a fault, a run that started is eventually recorded as ended, whether
\* its stages succeeded or not.
RunsEndOrFault ==
  \A e \in Execs : (ex[e].pc = "running") ~> (Recorded(e) \/ faults > 0)

\* TriggerPipeline answers 409 only when a pipeline is running (ops.go).
ConflictMeansRunning ==
  [][\A e \in Execs :
       ex[e].pc = "new" /\ ex'[e].pc = "conflict" /\ ex'[e].kind = "trigger"
         => \E x \in Execs \ {e} : Live(x) /\ ex[x].kind \in Pipelines]_vars

=============================================================================

------------------------------- MODULE Startup -------------------------------
(***************************************************************************)
(* What a process of MentoAI does before it serves, and the one operation  *)
(* that changes what the next start will find: config.Load reads .env into *)
(* the process environment, ApplyMigrations brings the schema up to date,  *)
(* and a switch of the embedding model rewrites .env with envfile.Update.  *)
(* A server and a CLI process share the working directory and the          *)
(* database; each may die between any two steps.                           *)
(*                                                                         *)
(* A line of .env is a key with its value; comments and lines of keys that *)
(* nobody updates are one kind of line. Files are truncated and filled in  *)
(* two steps, as os.WriteFile does.                                        *)
(***************************************************************************)
EXTENDS Integers, Sequences, FiniteSets, SequencesExt, Selections

CONSTANTS
  Keys,          \* settings that a switch writes
  Values,        \* values of these settings
  InitialFiles,  \* contents .env may have at first
  Exports,       \* settings the shell or the unit file may export, as functions
  LastFile,      \* migration files are 1 .. LastFile, in the order of their names
  MaxStarts,     \* bound: process starts
  MaxSwitches    \* bound: switches

Procs == {"server", "cli"}
Migrations == 1 .. LastFile
Unset == 0  \* not a value

\* The other lines of .env have the key "other"; an empty file reads as one empty line.
Empty == <<[key |-> "empty", val |-> Unset]>>
NoFile == [there |-> FALSE, lines |-> <<>>]
Written(lines) == [there |-> TRUE, lines |-> lines]

\* What a line can be: a key that somebody writes, or one of the others.
Texts == Values \cup {Unset} \cup UNION {{line.val : line \in ToSet(lines)} : lines \in InitialFiles}
Line == [key : Keys \cup {"other", "empty"}, val : Texts]

ASSUME StartupConstants ==
  /\ IsFiniteSet(Keys) /\ Keys \cap {"other", "empty"} = {}
  /\ \A lines \in InitialFiles : lines \in Seq(Line)
  /\ Exports \subseteq [Keys -> Values \cup {Unset}]
  /\ LastFile \in Nat

VARIABLES
  env,       \* .env
  bak,       \* .env.bak
  shell,     \* what the environment holds before Load
  recorded,  \* schema_migrations
  effects,   \* effects[f]: how often the statements of f took effect
  writer,    \* the process that holds SQLite's write lock, with its open transaction
  proc,      \* proc[p]: the running process and its locals
  starts,    \* process starts so far (only for MaxStarts)
  switches,  \* switches so far (only for MaxSwitches)
  original,  \* history: the other lines of .env at first
  whole,     \* history: each Update so far began alone and on a .env that had all of them
  synced     \* history: processes whose settings are those of the last word on .env

files == <<env, bak>>
fixed == <<shell, original>>
schema == <<recorded, effects, writer>>
startupVars ==
  <<env, bak, shell, original, recorded, effects, writer, proc, starts, switches, whole, synced>>

Off == [pc |-> "off", settings |-> [k \in Keys |-> Unset],
        todo |-> {}, lines |-> <<>>, copy |-> <<>>, target |-> [k \in Keys |-> Unset]]

NoTx == [by |-> "nobody", done |-> {}, recorded |-> {}]

LinesOf(lines, k) == {i \in DOMAIN lines : lines[i].key = k}
OtherLines(lines) == Selected(lines, LinesOf(lines, "other"))

StartupInit ==
  /\ env \in {Written(lines) : lines \in InitialFiles} \cup {NoFile}
  /\ bak = NoFile
  /\ shell \in Exports
  /\ recorded = {}
  /\ effects = [f \in Migrations |-> 0]
  /\ writer = NoTx
  /\ proc = [p \in Procs |-> Off]
  /\ starts = 0
  /\ switches = 0
  /\ original = OtherLines(env.lines)
  /\ whole = TRUE
  /\ synced = {}

At(p, pc) == proc[p].pc = pc
Goto(p, pc) == proc' = [proc EXCEPT ![p].pc = pc]

Updating(p) == proc[p].pc \in {"backup", "backupFill", "write", "fill", "adopt"}

-----------------------------------------------------------------------------
(* Load.                                                                   *)

\* Load sets a key from its first line, unless the environment has it already.
FromFile(lines, k) ==
  IF LinesOf(lines, k) = {} THEN Unset ELSE lines[Min(LinesOf(lines, k))].val

Loaded(k) == IF shell[k] # Unset THEN shell[k] ELSE FromFile(env.lines, k)

\* serve always migrates; a CLI process migrates or goes to work at once. A setting
\* that is not set (the default of config.get) is Unset here.
Start(p) ==
  /\ At(p, "off")
  /\ starts < MaxStarts
  /\ starts' = starts + 1
  /\ \E pc \in (IF p = "server" THEN {"migrate"} ELSE {"migrate", "up"}) :
       proc' = [proc EXCEPT ![p] = [Off EXCEPT !.pc = pc,
                                               !.settings = [k \in Keys |-> Loaded(k)]]]
  /\ synced' = IF \E q \in Procs : Updating(q) THEN synced ELSE synced \cup {p}
  /\ UNCHANGED <<files, fixed, schema, switches, whole>>

-----------------------------------------------------------------------------
(* ApplyMigrations.                                                        *)

\* CREATE TABLE IF NOT EXISTS and the SELECT of the versions on record.
ReadVersions(p) ==
  /\ At(p, "migrate")
  /\ proc' = [proc EXCEPT ![p].pc = "next", ![p].todo = Migrations \ recorded]
  /\ UNCHANGED <<files, fixed, schema, starts, switches, whole, synced>>

NextFile(p) == Min(proc[p].todo)

\* BEGIN IMMEDIATE waits for the write lock of the other process.
Begin(p) ==
  /\ At(p, "next")
  /\ proc[p].todo # {}
  /\ writer.by = "nobody"
  /\ writer' = [NoTx EXCEPT !.by = p]
  /\ Goto(p, "body")
  /\ UNCHANGED <<files, fixed, recorded, effects, starts, switches, whole, synced>>

\* Mutation: the body runs outside the transaction.
Body_Autocommit(p) ==
  /\ At(p, "body")
  /\ effects' = [effects EXCEPT ![NextFile(p)] = @ + 1]
  /\ Goto(p, "record")
  /\ UNCHANGED <<files, fixed, recorded, writer, starts, switches, whole, synced>>

Body(p) ==
  /\ At(p, "body")
  /\ writer' = [writer EXCEPT !.done = {NextFile(p)}]
  /\ Goto(p, "record")
  /\ UNCHANGED <<files, fixed, recorded, effects, starts, switches, whole, synced>>

\* The INSERT; a version that is on record by now violates the key (Fail).
Record(p) ==
  /\ At(p, "record")
  /\ NextFile(p) \notin recorded
  /\ writer' = [writer EXCEPT !.recorded = {NextFile(p)}]
  /\ Goto(p, "commit")
  /\ UNCHANGED <<files, fixed, recorded, effects, starts, switches, whole, synced>>

Commit(p) ==
  /\ At(p, "commit")
  /\ effects' = [f \in Migrations |-> IF f \in writer.done THEN effects[f] + 1 ELSE effects[f]]
  /\ recorded' = recorded \cup writer.recorded
  /\ writer' = NoTx
  /\ proc' = [proc EXCEPT ![p].pc = "next", ![p].todo = @ \ {NextFile(p)}]
  /\ UNCHANGED <<files, fixed, starts, switches, whole, synced>>

\* serve goes on to its requests, migrate is done.
Migrated(p) ==
  /\ At(p, "next")
  /\ proc[p].todo = {}
  /\ IF p = "server" THEN Goto(p, "up") ELSE proc' = [proc EXCEPT ![p] = Off]
  /\ UNCHANGED <<files, fixed, schema, starts, switches, whole, synced>>

-----------------------------------------------------------------------------
(* SwitchEmbeddingModel, as far as .env and the settings go.               *)

HasAllLines(lines) == OtherLines(lines) = original

\* The guard lets one switch run per process; a CLI process switches once and ends.
\* Update reads the lines of .env if there is one.
Switch(p) ==
  /\ At(p, "up")
  /\ switches < MaxSwitches
  /\ switches' = switches + 1
  /\ \E target \in [Keys -> Values] :
       proc' = [proc EXCEPT ![p].pc = IF env.there THEN "backup" ELSE "write",
                            ![p].lines = env.lines, ![p].target = target]
  /\ whole' = /\ whole
              /\ \A q \in Procs : ~Updating(q)
              /\ HasAllLines(env.lines)
  /\ synced' = IF \E q \in Procs : Updating(q) THEN {} ELSE {p}
  /\ UNCHANGED <<files, fixed, schema, starts>>

\* copyFile reads .env once more, and os.WriteFile truncates the backup.
Backup(p) ==
  /\ At(p, "backup")
  /\ bak' = Written(Empty)
  /\ proc' = [proc EXCEPT ![p].pc = "backupFill", ![p].copy = env.lines]
  /\ UNCHANGED <<env, fixed, schema, starts, switches, whole, synced>>

FillBackup(p) ==
  /\ At(p, "backupFill")
  /\ bak' = Written(proc[p].copy)
  /\ Goto(p, "write")
  /\ UNCHANGED <<env, fixed, schema, starts, switches, whole, synced>>

\* Mutation: .env is written before it is backed up.
Write_BeforeBackup(p) ==
  /\ At(p, "backup") \/ At(p, "write")
  /\ env' = Written(Empty)
  /\ Goto(p, "fill")
  /\ UNCHANGED <<bak, fixed, schema, starts, switches, whole, synced>>

Write(p) ==
  /\ At(p, "write")
  /\ env' = Written(Empty)
  /\ Goto(p, "fill")
  /\ UNCHANGED <<bak, fixed, schema, starts, switches, whole, synced>>

LineOf(k, target) == [key |-> k, val |-> target[k]]

\* Mutation: the last line of a key is replaced, its earlier lines stay.
Updated_LastOnly(lines, target, added) ==
  [i \in DOMAIN lines |->
     IF lines[i].key \in Keys /\ \A j \in DOMAIN lines : lines[j].key = lines[i].key => j <= i
     THEN LineOf(lines[i].key, target)
     ELSE lines[i]]
  \o [i \in DOMAIN added |-> LineOf(added[i], target)]

\* Each line of an updated key is replaced where it stands; keys that have none are
\* added at the end.
Updated(lines, target, added) ==
  [i \in DOMAIN lines |->
     IF lines[i].key \in Keys THEN LineOf(lines[i].key, target) ELSE lines[i]]
  \o [i \in DOMAIN added |-> LineOf(added[i], target)]

\* The added keys come in the order of a map iteration, which is any.
Fill(p) ==
  /\ At(p, "fill")
  /\ LET lines == proc[p].lines
         missing == {k \in Keys : LinesOf(lines, k) = {}}
     IN  \E added \in SetToSeqs(missing) :
           env' = Written(Updated(lines, proc[p].target, added))
  /\ Goto(p, "adopt")
  /\ UNCHANGED <<bak, fixed, schema, starts, switches, whole, synced>>

\* Setenv of every key, and cfg.Set.
Adopt(p) ==
  /\ At(p, "adopt")
  /\ proc' = [proc EXCEPT ![p] = IF p = "cli" THEN Off
                                 ELSE [Off EXCEPT !.pc = "up", !.settings = proc[p].target]]
  /\ UNCHANGED <<files, fixed, schema, starts, switches, whole, synced>>

-----------------------------------------------------------------------------
(* Failures.                                                               *)

\* A write of a file fails: Update returns the error and the server goes on with the
\* settings it has. The file stays as it is, truncated or not yet touched.
UpdateFails(p) ==
  /\ Updating(p)
  /\ proc' = [proc EXCEPT ![p] = IF p = "cli" THEN Off
                                 ELSE [Off EXCEPT !.pc = "up",
                                                  !.settings = proc[p].settings]]
  /\ synced' = synced \ {p}
  /\ UNCHANGED <<files, fixed, schema, starts, switches, whole>>

\* The process ends, on purpose or not, or ApplyMigrations returns an error, which ends
\* it too. SQLite takes an open transaction back.
End(p) ==
  /\ ~At(p, "off")
  /\ proc' = [proc EXCEPT ![p] = Off]
  /\ writer' = IF writer.by = p THEN NoTx ELSE writer
  /\ synced' = synced \ {p}
  /\ UNCHANGED <<files, fixed, recorded, effects, starts, switches, whole>>

Step(p) ==
  \/ Start(p) \/ ReadVersions(p) \/ Begin(p) \/ Body(p) \/ Record(p) \/ Commit(p) \/ Migrated(p)
  \/ Switch(p) \/ Backup(p) \/ FillBackup(p) \/ Write(p) \/ Fill(p) \/ Adopt(p)
  \/ UpdateFails(p) \/ End(p)

StartupNext == \E p \in Procs : Step(p)

StartupSpec == StartupInit /\ [][StartupNext]_startupVars

-----------------------------------------------------------------------------
(* Properties.                                                             *)

\* Whatever two processes do at once and wherever they die, the record of migrations
\* tells the schema: a file took effect once if it is on record and not at all if it is
\* not, files take effect in the order of their names, and a server that takes
\* requests has them all.
SchemaFollowsRecord ==
  /\ \A f \in Migrations : effects[f] = IF f \in recorded THEN 1 ELSE 0
  /\ \A f, g \in Migrations : f < g /\ g \in recorded => f \in recorded
  /\ proc["server"].pc \in {"up", "backup", "backupFill", "write", "fill", "adopt"} =>
       recorded = Migrations

\* Comments and other keys survive an Update that dies or fails anywhere, in .env or in
\* its backup, as long as no Update has begun beside another or on what an earlier
\* one left behind (envfile.go: the other lines are kept as they are, and a backup
\* is made first).
OtherLinesSurvive ==
  whole /\ original # <<>> => HasAllLines(env.lines) \/ HasAllLines(bak.lines)

\* A server that restarts finds the settings it had: those of its last switch, or those
\* of its last start if nobody has updated .env since, up to what the shell exports,
\* which Load prefers.
SwitchSurvivesRestart ==
  \A p \in Procs :
    p \in synced /\ At(p, "up") =>
      \A k \in Keys : shell[k] = Unset => FromFile(env.lines, k) = proc[p].settings[k]
=============================================================================

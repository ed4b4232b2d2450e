--------------------------- MODULE OpsGuardProofs ---------------------------
(***************************************************************************)
(* For any number of executions and faults: the guard holds exactly the    *)
(* names of the goroutines that exist, it implements a lock per name, and  *)
(* a row of pipeline_runs never says anything but how its own run ended.   *)
(***************************************************************************)
EXTENDS OpsGuard, TLAPS

\* e runs under a name of the guard.
Holds(e) == Live(e) /\ ex[e].kind \in Guarded

\* The guard's names, one by one.
GuardHasHolders ==
  \A n : n \in guard <=> \E e \in Execs : Holds(e) /\ NameOf(ex[e].kind) = n

OneHolder ==
  \A d, e \in Execs :
    Holds(d) /\ Holds(e) /\ NameOf(ex[d].kind) = NameOf(ex[e].kind) => d = e

\* What a program counter says of the rest of an execution.
StepInv ==
  \A e \in Execs :
    /\ ex[e].pc = "checked" => ex[e].kind = "trigger"
    /\ ex[e].pc \in {"new", "checked", "conflict", "launched", "working"} => ex[e].run = 0
    /\ ex[e].pc \in {"running", "ended"} => ex[e].run # 0 /\ runs[ex[e].run] = "running"
    /\ ex[e].pc = "ended" => ex[e].outcome \in {"success", "failed"}

\* No two executions share a row.
RowsAreOwn ==
  \A d, e \in Execs : ex[d].run = ex[e].run /\ ex[d].run # 0 => d = e

OpsInv ==
  /\ TypeOK
  /\ GuardHasHolders
  /\ OneHolder
  /\ StepInv
  /\ RowsAreOwn
  /\ RowTellsItsOwnRun

-----------------------------------------------------------------------------

Rec == [kind : AllKinds \cup {"none"}, pc : PCs, run : Nat,
        outcome : {"none", "success", "failed"}]

\* An execution whose step takes it on without touching rows, names or its kind.
LEMMA MovedKeepsInv ==
  ASSUME OpsInv, NEW e \in Execs, NEW pc \in PCs,
         Move(e, pc), UNCHANGED <<guard, runs>>, up' \in BOOLEAN, token' \in BOOLEAN,
         faults' \in Nat,
         \/ Live(e) /\ pc = "release"
         \/ ~Holds(e) /\ pc \in {"conflict", "done"},
         pc = "conflict" => ex[e].run = 0
  PROVE  OpsInv'
<1> USE DEF OpsInv
<1>1. ex \in [Execs -> Rec]
  BY DEF TypeOK, Rec
<1>2. ex' = [ex EXCEPT ![e] = [ex[e] EXCEPT !.pc = pc]]
  BY <1>1 DEF Move
<1>3. ex' \in [Execs -> Rec] /\ \A x \in Execs \ {e} : ex'[x] = ex[x]
  BY <1>1, <1>2 DEF Rec
<1>4. /\ ex'[e].pc = pc /\ ex'[e].kind = ex[e].kind
      /\ ex'[e].run = ex[e].run /\ ex'[e].outcome = ex[e].outcome
  BY <1>1, <1>2 DEF Rec
<1>5. \A x \in Execs : Holds(x)' <=> Holds(x)
  BY <1>3, <1>4 DEF Holds, Live
<1>6. \A x \in Execs : ex'[x].kind = ex[x].kind /\ ex'[x].run = ex[x].run
                       /\ ex'[x].outcome = ex[x].outcome
  BY <1>3, <1>4
<1>7. TypeOK'
  BY <1>3, <1>6 DEF TypeOK, Rec
<1>8. GuardHasHolders' /\ OneHolder'
  BY <1>5, <1>6 DEF GuardHasHolders, OneHolder
<1>9. StepInv'
  BY <1>3, <1>4 DEF StepInv
<1>10. RowsAreOwn' /\ RowTellsItsOwnRun'
  BY <1>6 DEF RowsAreOwn, RowTellsItsOwnRun, Recorded
<1> QED BY <1>7, <1>8, <1>9, <1>10

\* A name is found in the guard exactly if an execution holds it, so whoever takes a free
\* one is its only holder.
LEMMA TakenIsHeldOnce ==
  ASSUME OpsInv, NEW e \in Execs, ~Holds(e), NEW kind \in Guarded, NameFree(NameOf(kind)),
         guard' = guard \cup {NameOf(kind)},
         \A x \in Execs \ {e} : ex'[x] = ex[x],
         ex'[e].kind = kind, Live(e)'
  PROVE  GuardHasHolders' /\ OneHolder'
<1> USE DEF OpsInv
<1>1. Holds(e)' /\ \A x \in Execs \ {e} : Holds(x)' <=> Holds(x)
  BY DEF Holds, Live
<1>2. \A x \in Execs : Holds(x) => NameOf(ex[x].kind) # NameOf(kind)
  BY DEF GuardHasHolders, NameFree
<1>3. GuardHasHolders'
  BY <1>1 DEF GuardHasHolders
<1>4. OneHolder'
  BY <1>1, <1>2 DEF OneHolder
<1> QED BY <1>3, <1>4

\* The number of rows is a number.
LEMMA LenIsNat == TypeOK => Len(runs) \in Nat
  BY DEF TypeOK

\* An execution outside the guard begins, or is told of a conflict.
LEMMA NewcomerKeepsInv ==
  ASSUME OpsInv, NEW e \in Execs, ex[e].pc = "new", NEW kind \in AllKinds, NEW pc \in PCs,
         ex' = [ex EXCEPT ![e] = [New EXCEPT !.kind = kind, !.pc = pc]],
         pc \in {"conflict", "checked", "launched"},
         pc = "checked" => kind = "trigger",
         pc = "launched" => kind \notin Guarded,
         UNCHANGED <<guard, runs, faults, up>>, token' \in BOOLEAN
  PROVE  OpsInv'
<1> USE DEF OpsInv
<1>1. ex \in [Execs -> Rec]
  BY DEF TypeOK, Rec
<1>2. /\ ex'[e].kind = kind /\ ex'[e].pc = pc /\ ex'[e].run = 0 /\ ex'[e].outcome = "none"
      /\ ex' \in [Execs -> Rec] /\ \A x \in Execs \ {e} : ex'[x] = ex[x]
  BY <1>1 DEF Rec, New
<1>3. ~Holds(e) /\ ~Holds(e)' /\ \A x \in Execs \ {e} : Holds(x)' <=> Holds(x)
  BY <1>2 DEF Holds, Live
<1>4. TypeOK'
  <2>1. \A x \in Execs : ex'[x].run <= Len(runs)
    BY <1>2, LenIsNat DEF TypeOK
  <2> QED BY <1>2, <2>1 DEF TypeOK, Rec
<1>5. GuardHasHolders'
  BY <1>2, <1>3 DEF GuardHasHolders
<1>6. OneHolder'
  BY <1>2, <1>3 DEF OneHolder
<1>7. StepInv' /\ RowsAreOwn' /\ RowTellsItsOwnRun'
  BY <1>2 DEF StepInv, RowsAreOwn, RowTellsItsOwnRun, Recorded
<1> QED BY <1>4, <1>5, <1>6, <1>7

-----------------------------------------------------------------------------

LEMMA OpsInit == Init => OpsInv
  BY DEF Init, OpsInv, TypeOK, New, PCs, GuardHasHolders, OneHolder, StepInv, RowsAreOwn,
         RowTellsItsOwnRun, Recorded, Holds, Live

LEMMA OpsNext == OpsInv /\ [Next]_vars => OpsInv'
<1> SUFFICES ASSUME OpsInv, [Next]_vars PROVE OpsInv'
  OBVIOUS
<1> USE DEF OpsInv
<1>0. ex \in [Execs -> Rec] /\ runs \in Seq(Statuses) /\ faults \in Nat
  BY DEF TypeOK, Rec
<1>1. ASSUME NEW e \in Execs, TriggerCheck(e) PROVE OpsInv'
  <2>1. PICK pc \in {"conflict", "checked"} :
          ex' = [ex EXCEPT ![e] = [New EXCEPT !.kind = "trigger", !.pc = pc]]
    BY <1>1 DEF TriggerCheck
  <2> QED BY <1>1, <2>1, NewcomerKeepsInv DEF TriggerCheck, AllKinds, PCs, TypeOK
<1>2. ASSUME NEW e \in Execs, CronTick(e) PROVE OpsInv'
  BY <1>2, NewcomerKeepsInv DEF CronTick, AllKinds, PCs, Guarded
<1>3. ASSUME NEW e \in Execs, CliStart(e) PROVE OpsInv'
  BY <1>3, NewcomerKeepsInv DEF CliStart, AllKinds, PCs, Guarded, TypeOK
<1>4. ASSUME NEW e \in Execs, NEW kind \in {"embedding_rebuild", "embedding_switch"},
             BackgroundStart(e, kind)
      PROVE  OpsInv'
  <2>1. CASE NameFree(kind)
    <3>1. /\ ex' = [ex EXCEPT ![e] = [New EXCEPT !.kind = kind, !.pc = "working"]]
          /\ guard' = guard \cup {kind} /\ kind \in Guarded /\ kind \in AllKinds
          /\ NameOf(kind) = kind
      BY <1>4, <2>1 DEF BackgroundStart, Guarded, AllKinds, NameOf
    <3>2. /\ ex'[e].kind = kind /\ ex'[e].pc = "working" /\ ex'[e].run = 0
          /\ ex'[e].outcome = "none"
          /\ ex' \in [Execs -> Rec] /\ \A x \in Execs \ {e} : ex'[x] = ex[x]
      BY <1>0, <3>1 DEF Rec, New, PCs
    <3>3. TypeOK'
      BY <1>4, <3>1, <3>2 DEF BackgroundStart, TypeOK, Rec, Names
    <3>4. GuardHasHolders' /\ OneHolder'
      BY <1>4, <2>1, <3>1, <3>2, TakenIsHeldOnce DEF BackgroundStart, Holds, Live
    <3>5. StepInv' /\ RowsAreOwn' /\ RowTellsItsOwnRun'
      BY <1>4, <3>2 DEF BackgroundStart, StepInv, RowsAreOwn, RowTellsItsOwnRun, Recorded
    <3> QED BY <3>3, <3>4, <3>5
  <2>2. CASE ~NameFree(kind)
    <3>1. /\ ex' = [ex EXCEPT ![e] = [New EXCEPT !.kind = kind, !.pc = "conflict"]]
          /\ ex[e].pc = "new" /\ UNCHANGED <<guard, runs, faults, up>> /\ token' = token
      BY <1>4, <2>2 DEF BackgroundStart
    <3>2. kind \in AllKinds /\ "conflict" \in PCs /\ token \in BOOLEAN
      BY <1>4 DEF AllKinds, PCs, TypeOK
    <3> QED BY <3>1, <3>2, NewcomerKeepsInv, ZenonT(60)
  <2> QED BY <2>1, <2>2
<1>5. ASSUME NEW e \in Execs, TriggerStart(e) PROVE OpsInv'
  <2>1. ex[e].kind = "trigger" /\ ex[e].run = 0 /\ ~Holds(e)
    BY <1>5 DEF TriggerStart, StepInv, Holds, Live
  <2>2. CASE NameFree("pipeline")
    <3>1. /\ Move(e, "launched") /\ guard' = guard \cup {"pipeline"}
          /\ NameOf("trigger") = "pipeline" /\ "trigger" \in Guarded
      BY <1>5, <2>2 DEF TriggerStart, Guarded, NameOf
    <3>2. /\ ex'[e].pc = "launched" /\ ex'[e].kind = "trigger" /\ ex'[e].run = 0
          /\ ex' \in [Execs -> Rec] /\ \A x \in Execs \ {e} : ex'[x] = ex[x]
      BY <1>0, <2>1, <3>1 DEF Move, Rec, PCs
    <3>3. TypeOK'
      BY <1>5, <3>1, <3>2 DEF TriggerStart, TypeOK, Rec, Names
    <3>4. GuardHasHolders' /\ OneHolder'
      BY <2>1, <2>2, <3>1, <3>2, TakenIsHeldOnce DEF Live
    <3>5. StepInv' /\ RowsAreOwn' /\ RowTellsItsOwnRun'
      BY <1>5, <2>1, <3>2 DEF TriggerStart, StepInv, RowsAreOwn, RowTellsItsOwnRun, Recorded
    <3> QED BY <3>3, <3>4, <3>5
  <2>3. CASE ~NameFree("pipeline")
    BY <1>5, <2>1, <2>3, MovedKeepsInv DEF TriggerStart, PCs, TypeOK
  <2> QED BY <2>2, <2>3
<1>6. ASSUME NEW e \in Execs, RunStart(e) PROVE OpsInv'
  <2>1. /\ runs' = Append(runs, "running") /\ ex[e].pc = "launched" /\ ex[e].run = 0
        /\ ex' = [ex EXCEPT ![e].run = Len(runs) + 1, ![e].pc = "running"]
    BY <1>6 DEF RunStart, StepInv
  <2>2. /\ ex'[e].pc = "running" /\ ex'[e].kind = ex[e].kind /\ ex'[e].run = Len(runs) + 1
        /\ ex' \in [Execs -> Rec] /\ \A x \in Execs \ {e} : ex'[x] = ex[x]
    <3>1. ex' = [ex EXCEPT ![e] = [ex[e] EXCEPT !.run = Len(runs) + 1, !.pc = "running"]]
      BY <1>0, <2>1
    <3>2. Len(runs) + 1 \in Nat
      BY <1>0
    <3> QED BY <1>0, <3>1, <3>2 DEF Rec, PCs
  <2>3. /\ runs' \in Seq(Statuses) /\ Len(runs') = Len(runs) + 1
        /\ runs'[Len(runs) + 1] = "running" /\ \A i \in 1 .. Len(runs) : runs'[i] = runs[i]
    BY <1>0, <2>1 DEF Statuses
  <2>4. \A x \in Execs \ {e} : ex[x].run \in 0 .. Len(runs)
    BY <1>0 DEF TypeOK, Rec
  <2>5. TypeOK'
    BY <1>6, <2>2, <2>3, <2>4 DEF RunStart, TypeOK, Rec
  <2>6. \A x \in Execs : ex'[x].kind = ex[x].kind /\ (Holds(x)' <=> Holds(x))
    BY <2>1, <2>2 DEF Holds, Live
  <2>7. GuardHasHolders' /\ OneHolder'
    BY <1>6, <2>6 DEF RunStart, GuardHasHolders, OneHolder
  <2>8. StepInv' /\ RowsAreOwn' /\ RowTellsItsOwnRun'
    BY <1>0, <2>2, <2>3, <2>4, SMTT(40) DEF StepInv, RowsAreOwn, RowTellsItsOwnRun, Recorded
  <2> QED BY <2>5, <2>7, <2>8
<1>7. ASSUME NEW e \in Execs, RunBody(e) PROVE OpsInv'
  <2>1. PICK outcome \in {"success", "failed"} :
          ex' = [ex EXCEPT ![e].outcome = outcome, ![e].pc = "ended"]
    BY <1>7 DEF RunBody
  <2>2. /\ ex'[e].pc = "ended" /\ ex'[e].kind = ex[e].kind /\ ex'[e].run = ex[e].run
        /\ ex'[e].outcome = outcome
        /\ ex' \in [Execs -> Rec] /\ \A x \in Execs \ {e} : ex'[x] = ex[x]
    BY <1>0, <2>1 DEF Rec, PCs
  <2>3. TypeOK'
    BY <1>7, <2>2 DEF RunBody, TypeOK, Rec
  <2>4. \A x \in Execs : ex'[x].kind = ex[x].kind /\ (Holds(x)' <=> Holds(x))
    BY <1>7, <2>2 DEF RunBody, Holds, Live
  <2>5. GuardHasHolders' /\ OneHolder'
    BY <1>7, <2>4 DEF RunBody, GuardHasHolders, OneHolder
  <2>6. StepInv' /\ RowsAreOwn' /\ RowTellsItsOwnRun'
    BY <1>7, <2>2 DEF RunBody, StepInv, RowsAreOwn, RowTellsItsOwnRun, Recorded
  <2> QED BY <2>3, <2>5, <2>6
<1>8. ASSUME NEW e \in Execs, RunFinish(e) PROVE OpsInv'
  <2>1. /\ ex[e].pc = "ended" /\ ex[e].run # 0 /\ runs[ex[e].run] = "running"
        /\ ex[e].outcome \in {"success", "failed"}
        /\ runs' = [runs EXCEPT ![ex[e].run] = ex[e].outcome]
    BY <1>8 DEF RunFinish, FinishedRow, StepInv
  <2>2. /\ ex'[e].pc = "release" /\ ex'[e].kind = ex[e].kind /\ ex'[e].run = ex[e].run
        /\ ex'[e].outcome = ex[e].outcome
        /\ ex' \in [Execs -> Rec] /\ \A x \in Execs \ {e} : ex'[x] = ex[x]
    BY <1>0, <1>8 DEF RunFinish, Move, Rec, PCs
  <2>3. /\ ex[e].run \in 1 .. Len(runs)
        /\ runs' \in Seq(Statuses) /\ Len(runs') = Len(runs)
        /\ runs'[ex[e].run] = ex[e].outcome
        /\ \A i \in 1 .. Len(runs) \ {ex[e].run} : runs'[i] = runs[i]
    BY <1>0, <2>1 DEF TypeOK, Rec, Statuses
  <2>4. \A x \in Execs \ {e} : ex[x].run # 0 => ex[x].run \in 1 .. Len(runs) \ {ex[e].run}
    BY <1>0, <2>1 DEF TypeOK, Rec, RowsAreOwn
  <2>5. TypeOK'
    BY <1>8, <2>2, <2>3 DEF RunFinish, TypeOK, Rec
  <2>6. \A x \in Execs : ex'[x].kind = ex[x].kind /\ (Holds(x)' <=> Holds(x))
    BY <2>1, <2>2 DEF Holds, Live
  <2>7. GuardHasHolders' /\ OneHolder'
    BY <1>8, <2>6 DEF RunFinish, GuardHasHolders, OneHolder
  <2>8. StepInv' /\ RowsAreOwn' /\ RowTellsItsOwnRun'
    BY <2>2, <2>3, <2>4 DEF StepInv, RowsAreOwn, RowTellsItsOwnRun, Recorded
  <2> QED BY <2>5, <2>7, <2>8
<1>9. ASSUME NEW e \in Execs, RunWriteFails(e) PROVE OpsInv'
  BY <1>0, <1>9, MovedKeepsInv DEF RunWriteFails, Live, PCs, TypeOK
<1>10. ASSUME NEW e \in Execs, WorkEnds(e) PROVE OpsInv'
  BY <1>10, MovedKeepsInv DEF WorkEnds, Live, PCs, TypeOK
<1>11. ASSUME NEW e \in Execs, Release(e) PROVE OpsInv'
  <2>1. /\ ex'[e].pc = "done" /\ ex'[e].kind = ex[e].kind /\ ex'[e].run = ex[e].run
        /\ ex'[e].outcome = ex[e].outcome
        /\ ex' \in [Execs -> Rec] /\ \A x \in Execs \ {e} : ex'[x] = ex[x]
    BY <1>0, <1>11 DEF Release, Move, Rec, PCs
  <2>2. /\ Live(e) /\ ~Holds(e)'
        /\ \A x \in Execs \ {e} : ex'[x].kind = ex[x].kind /\ (Holds(x)' <=> Holds(x))
    BY <1>11, <2>1 DEF Release, Holds, Live
  <2>3. GuardHasHolders'
    <3>1. CASE ex[e].kind \in Guarded
      <4>1. guard' = guard \ {NameOf(ex[e].kind)} /\ Holds(e)
        BY <1>11, <2>2, <3>1 DEF Release, Holds
      <4> QED BY <2>2, <4>1 DEF GuardHasHolders, OneHolder
    <3>2. CASE ex[e].kind \notin Guarded
      BY <1>11, <2>2, <3>2 DEF Release, GuardHasHolders, Holds
    <3> QED BY <3>1, <3>2
  <2>4. OneHolder'
    BY <2>1, <2>2 DEF OneHolder
  <2>5. TypeOK'
    BY <1>11, <2>1 DEF Release, TypeOK, Rec
  <2>6. StepInv' /\ RowsAreOwn' /\ RowTellsItsOwnRun'
    BY <1>11, <2>1 DEF Release, StepInv, RowsAreOwn, RowTellsItsOwnRun, Recorded
  <2> QED BY <2>3, <2>4, <2>5, <2>6
<1>12. ASSUME NEW e \in Execs, Panic(e) PROVE OpsInv'
  BY <1>0, <1>12, MovedKeepsInv DEF Panic, AfterPanic, Holds, Live, PCs, TypeOK
<1>13. ASSUME ServerExit PROVE OpsInv'
  <2>1. \A x \in Execs :
          ex'[x] = IF ex[x].kind # "cli" /\ (Live(x) \/ ex[x].pc = "checked")
                   THEN [ex[x] EXCEPT !.pc = "done"] ELSE ex[x]
    BY <1>13 DEF ServerExit
  <2>2. \A x \in Execs :
          /\ ex'[x].pc = ex[x].pc \/ ex'[x].pc = "done"
          /\ ex'[x].kind = ex[x].kind /\ ex'[x].run = ex[x].run
          /\ ex'[x].outcome = ex[x].outcome
          /\ ex'[x] \in Rec
    BY <1>0, <2>1, ZenonT(60) DEF Rec, PCs
  <2>3. ex' \in [Execs -> Rec]
    BY <1>13, <2>2 DEF ServerExit
  <2>4. \A x \in Execs : ~Holds(x)'
    BY <1>0, <2>1 DEF Holds, Live, Guarded, Rec
  <2>5. TypeOK'
    <3>1. /\ up' = FALSE /\ guard' = {} /\ token' = token /\ runs' = runs
          /\ faults' = faults + 1
      BY <1>13 DEF ServerExit
    <3>2. \A x \in Execs : ex'[x].run <= Len(runs)
      BY <2>2 DEF TypeOK
    <3>3. faults' \in Nat
      BY <1>0, <3>1
    <3> QED BY <2>3, <3>1, <3>2, <3>3 DEF TypeOK, Rec
  <2>6. GuardHasHolders' /\ OneHolder'
    BY <1>13, <2>4 DEF ServerExit, GuardHasHolders, OneHolder
  <2>7. StepInv' /\ RowsAreOwn' /\ RowTellsItsOwnRun'
    BY <1>13, <2>2 DEF ServerExit, StepInv, RowsAreOwn, RowTellsItsOwnRun, Recorded
  <2> QED BY <2>5, <2>6, <2>7
<1>14. ASSUME UNCHANGED <<guard, runs, ex, faults>>, up' \in BOOLEAN, token' \in BOOLEAN
       PROVE OpsInv'
  BY <1>14 DEF TypeOK, GuardHasHolders, OneHolder, StepInv, RowsAreOwn, RowTellsItsOwnRun,
               Recorded, Holds, Live
<1>15. CASE ServerStart
  BY <1>14, <1>15 DEF ServerStart
<1>16. CASE UNCHANGED vars
  BY <1>14, <1>16 DEF vars, TypeOK
<1> QED
  BY <1>1, <1>2, <1>3, <1>4, <1>5, <1>6, <1>7, <1>8, <1>9, <1>10, <1>11, <1>12, <1>13,
     <1>15, <1>16
  DEF Next, Arrive, Proceed

-----------------------------------------------------------------------------

LEMMA OpsInvariant == Spec => []OpsInv
  BY OpsInit, OpsNext, PTL DEF Spec

\* The variables keep their types, and no execution knows a row that does not exist.
THEOREM OpsTypeCorrect == Spec => []TypeOK
<1>1. OpsInv => TypeOK
  BY DEF OpsInv
<1> QED BY OpsInvariant, <1>1, PTL

\* The guard's names are those of the goroutines that exist: no path through an error, a
\* panic or an exit leaves a name behind, and none frees a name still in use
\* (ops.go, Guard.Start and its deferred function).
THEOREM GuardExact == Spec => []GuardIsExact
<1>1. OpsInv => GuardIsExact
  BY DEF OpsInv, GuardHasHolders, Holds, GuardIsExact
<1> QED BY OpsInvariant, <1>1, PTL

\* However many pipelines overlap, a finished row tells how its own run ended
\* (ops.go, RunPipeline; rawposting.go, Runs.Finish).
THEOREM RowsTellOwnRun == Spec => []RowTellsItsOwnRun
<1>1. OpsInv => RowTellsItsOwnRun
  BY DEF OpsInv
<1> QED BY OpsInvariant, <1>1, PTL

-----------------------------------------------------------------------------
(* The guard is a lock per name: every step of the service is a step of     *)
(* NamedLock or changes no holder.                                         *)

\* Who holds what changes only with the executions.
LEMMA HoldersAre ==
  /\ Holders = [n \in Names |-> {e \in Execs : Holds(e) /\ NameOf(ex[e].kind) = n}]
  /\ Holders' = [n \in Names |-> {e \in Execs : Holds(e)' /\ NameOf(ex'[e].kind) = n}]
  BY DEF Holders, Holds

LEMMA StepsAreLockSteps == OpsInv /\ [Next]_vars => [Lock!Next]_Holders
<1> SUFFICES ASSUME OpsInv, [Next]_vars PROVE [Lock!Next]_Holders
  OBVIOUS
<1> USE DEF OpsInv
<1>0. ex \in [Execs -> Rec]
  BY DEF TypeOK, Rec
\* Nobody's hold and nobody's kind changes.
<1>1. ASSUME \A e \in Execs : (Holds(e)' <=> Holds(e))
                              /\ (Holds(e) => ex'[e].kind = ex[e].kind)
      PROVE  Holders' = Holders
  BY <1>1, HoldersAre
\* Holds before and after the step of e that leaves the other executions alone.
<1>2. ASSUME NEW e \in Execs, Arrive(e) \/ Proceed(e) \/ RunWriteFails(e) \/ Panic(e)
      PROVE  \A x \in Execs \ {e} : ex'[x] = ex[x]
  BY <1>0, <1>2 DEF Arrive, Proceed, TriggerCheck, CronTick, CliStart, BackgroundStart,
     TriggerStart, RunStart, RunBody, RunFinish, WorkEnds, Release, RunWriteFails, Panic, Move
<1>3. ASSUME NEW e \in Execs, ~Holds(e), Holds(e)',
             \A x \in Execs \ {e} : ex'[x] = ex[x], NameFree(NameOf(ex'[e].kind))
      PROVE  Lock!Next
  <2>1. PICK n \in Names : n = NameOf(ex'[e].kind)
    BY <1>3 DEF Holds, Names
  <2>2. \A x \in Execs \ {e} : (Holds(x)' <=> Holds(x)) /\ ex'[x].kind = ex[x].kind
    BY <1>3 DEF Holds, Live
  <2>3. \A x \in Execs : ~(Holds(x) /\ NameOf(ex[x].kind) = n)
    BY <1>3, <2>1 DEF NameFree, GuardHasHolders
  <2>4. Lock!Acquire(n, e)
    <3>1. Holders[n] = {}
      BY <2>1, <2>3, HoldersAre
    <3>2. Holders'[n] = {e}
      BY <1>3, <2>1, <2>2, <2>3, HoldersAre
    <3>3. \A m \in Names \ {n} : Holders'[m] = Holders[m]
      BY <1>3, <2>1, <2>2, HoldersAre
    <3> QED BY <3>1, <3>2, <3>3, HoldersAre DEF Lock!Acquire
  <2> QED BY <2>4 DEF Lock!Next
<1>4. ASSUME NEW e \in Execs, Holds(e), ~Holds(e)', \A x \in Execs \ {e} : ex'[x] = ex[x]
      PROVE  Lock!Next
  <2>1. PICK n \in Names : n = NameOf(ex[e].kind)
    BY <1>4 DEF Holds, Names
  <2>2. \A x \in Execs \ {e} : (Holds(x)' <=> Holds(x)) /\ ex'[x].kind = ex[x].kind
    BY <1>4 DEF Holds, Live
  <2>3. \A x \in Execs : Holds(x) /\ NameOf(ex[x].kind) = n => x = e
    BY <1>4, <2>1 DEF OneHolder
  <2>4. Lock!Release(n)
    <3>1. Holders[n] = {e}
      BY <1>4, <2>1, <2>3, HoldersAre
    <3>2. Holders'[n] = {}
      BY <1>4, <2>1, <2>2, <2>3, HoldersAre
    <3>3. \A m \in Names \ {n} : Holders'[m] = Holders[m]
      BY <1>4, <2>1, <2>2, HoldersAre
    <3> QED BY <3>1, <3>2, <3>3, HoldersAre DEF Lock!Release
  <2> QED BY <2>4 DEF Lock!Next
\* So the steps of one execution differ only in what becomes of its own hold.
<1>5. ASSUME NEW e \in Execs, \A x \in Execs \ {e} : ex'[x] = ex[x],
             Holds(e) /\ Holds(e)' => ex'[e].kind = ex[e].kind,
             ~Holds(e) /\ Holds(e)' => NameFree(NameOf(ex'[e].kind))
      PROVE  [Lock!Next]_Holders
  <2>1. \A x \in Execs \ {e} : (Holds(x)' <=> Holds(x)) /\ ex'[x].kind = ex[x].kind
    BY <1>5 DEF Holds, Live
  <2> QED BY <1>1, <1>3, <1>4, <1>5, <2>1
<1>6. ASSUME NEW e \in Execs, Arrive(e) PROVE [Lock!Next]_Holders
  <2>1. ~Holds(e)
    BY <1>6 DEF Arrive, TriggerCheck, CronTick, CliStart, BackgroundStart, Holds, Live
  <2>2. Holds(e)' => NameFree(NameOf(ex'[e].kind))
    <3>1. CASE TriggerCheck(e)
      BY <1>0, <3>1 DEF TriggerCheck, Holds, Live, New
    <3>2. CASE CronTick(e) \/ CliStart(e)
      BY <1>0, <3>2 DEF CronTick, CliStart, Holds, New, Guarded
    <3>3. ASSUME NEW kind \in {"embedding_rebuild", "embedding_switch"}, BackgroundStart(e, kind)
          PROVE  Holds(e)' => NameFree(NameOf(ex'[e].kind))
      <4>1. \/ NameFree(kind) /\ ex' = [ex EXCEPT ![e] = [New EXCEPT !.kind = kind, !.pc = "working"]]
            \/ ex' = [ex EXCEPT ![e] = [New EXCEPT !.kind = kind, !.pc = "conflict"]]
        BY <3>3 DEF BackgroundStart
      <4>2. ex'[e].kind = kind /\ (NameFree(kind) \/ ex'[e].pc = "conflict")
        BY <1>0, <4>1 DEF New
      <4> QED BY <4>2 DEF Holds, Live, NameOf
    <3> QED BY <1>6, <3>1, <3>2, <3>3 DEF Arrive
  <2> QED BY <1>2, <1>5, <1>6, <2>1, <2>2
<1>7. ASSUME NEW e \in Execs, TriggerStart(e) PROVE [Lock!Next]_Holders
  <2>1. ex[e].kind = "trigger" /\ ex'[e].kind = "trigger" /\ ~Holds(e)
    BY <1>0, <1>7 DEF TriggerStart, Move, StepInv, Holds, Live, Rec
  <2>2. Holds(e)' => NameFree(NameOf(ex'[e].kind))
    BY <1>0, <1>7, <2>1 DEF TriggerStart, Move, Holds, Live, NameOf, Rec
  <2> QED BY <1>2, <1>5, <1>7, <2>1, <2>2 DEF Proceed
<1>8. ASSUME NEW e \in Execs, \/ Proceed(e) /\ ~TriggerStart(e)
                              \/ RunWriteFails(e) \/ Panic(e)
      PROVE  [Lock!Next]_Holders
  <2>1. Live(e)
    BY <1>8 DEF Proceed, RunStart, RunBody, RunFinish, WorkEnds, Release, RunWriteFails, Panic,
                Live
  <2>2. ex'[e].kind = ex[e].kind
    <3>1. CASE RunStart(e) \/ RunBody(e) \/ RunFinish(e)
      BY <1>0, <3>1 DEF RunStart, RunBody, RunFinish, Move, Rec
    <3>2. CASE WorkEnds(e) \/ Release(e) \/ RunWriteFails(e) \/ Panic(e)
      BY <1>0, <3>2 DEF WorkEnds, Release, RunWriteFails, Panic, Move, Rec
    <3> QED BY <1>8, <3>1, <3>2 DEF Proceed
  <2>3. Holds(e)' => Holds(e)
    BY <2>1, <2>2 DEF Holds
  <2> QED BY <1>2, <1>5, <1>8, <2>2, <2>3
<1>9. CASE ServerExit
  <2>1. \A e \in Execs : ~Holds(e)'
    BY <1>0, <1>9 DEF ServerExit, Holds, Live, Guarded, Rec
  <2>2. Lock!ProcessExit
    BY <2>1, HoldersAre DEF Lock!ProcessExit
  <2> QED BY <2>2 DEF Lock!Next
<1>10. CASE ServerStart \/ UNCHANGED vars
  BY <1>10, <1>1 DEF ServerStart, vars, Holds, Live
<1> QED
  BY <1>6, <1>7, <1>8, <1>9, <1>10 DEF Next

\* The safety half of the refinement (that every holder lets go needs fairness).
THEOREM GuardImplementsLock == Spec => Lock!Init /\ [][Lock!Next]_Holders
<1>1. Init => Lock!Init
  BY HoldersAre DEF Init, Lock!Init, Holds, Live, New
<1> QED BY <1>1, OpsInvariant, StepsAreLockSteps, PTL DEF Spec

=============================================================================

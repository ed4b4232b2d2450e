-------------------------- MODULE MedallionProofs --------------------------
(***************************************************************************)
(* Proofs about Medallion for every set of keys, payloads, embedders and   *)
(* slots and every bound: the type invariant; that a stored vector always  *)
(* belongs to the posting it was computed from, and to no foreign embedder *)
(* unnoticed; that a deletion stays done; and what holds as long as        *)
(* operations do not overlap.                                              *)
(***************************************************************************)
EXTENDS Medallion, FiniteSetTheorems, TLAPS

\* An idle slot is a typed state that works on no row.
LEMMA IdleType == Idle \in OpStates /\ Idle.rows = {}
  BY EmbedderAssumption DEF Idle, OpStates, PCs

\* A row read from the table is a typed work row.
LEMMA WorkRowType ==
  ASSUME TypeOK, NEW k \in Keys, jobs[k] # NoJob
  PROVE  WorkRow(k) \in WorkRows
  BY DEF TypeOK, WorkRow, WorkRows, Texts, JobRows

\* Starting an operation keeps the types when its first state is typed.
LEMMA BeginType ==
  ASSUME TypeOK, NEW o \in Slots, NEW c, NEW state \in OpStates, Begin(o, c, state)
  PROVE  TypeOK'
<1>1. SettingsOf(o) \in Embedders
  BY DEF SettingsOf, TypeOK, ProcOf, Procs
<1>2. op' \in [Slots -> OpStates]
  BY DEF Begin, TypeOK
<1>3. cfg' \in [Procs -> Embedders] /\ active' \in [Procs -> Embedders]
  BY <1>1 DEF Begin, LoadSettings, TypeOK, Procs
<1>4. starts' \in Nat
  BY DEF Begin, TypeOK
<1>5. QED
  BY <1>2, <1>3, <1>4 DEF Begin, TypeOK, dbVars

\* The type invariant is inductive: TypeOK survives every step.
LEMMA TypeStep == TypeOK /\ [Next]_vars => TypeOK'
<1> SUFFICES ASSUME TypeOK, [Next]_vars PROVE TypeOK'
  OBVIOUS
<1> USE IdleType
<1>0. CASE UNCHANGED vars
  BY <1>0 DEF vars, dbVars, cfgVars, boundVars, TypeOK
<1>1. CASE Crash
  <2>1. op' \in [Slots -> OpStates]
    BY <1>1 DEF Crash, TypeOK
  <2>2. cfg' \in [Procs -> Embedders] /\ active' \in [Procs -> Embedders] /\ crashes' \in Nat
    BY <1>1 DEF Crash, TypeOK, Procs
  <2>3. QED
    BY <1>1, <2>1, <2>2 DEF Crash, TypeOK, dbVars
<1>2. ASSUME NEW o \in Slots, Step(o) PROVE TypeOK'
  <2>0. op[o] \in OpStates /\ SettingsOf(o) \in Embedders /\ ProcOf(o) \in Procs
    BY DEF TypeOK, SettingsOf, ProcOf, Procs
  <2>1. CASE StartPipeline(o)
    <3>1. [Idle EXCEPT !.pc = "bronze", !.dim = Dim[SettingsOf(o)]] \in OpStates
      BY <2>0, EmbedderAssumption DEF OpStates, PCs
    <3>2. QED BY <2>1, <3>1, BeginType DEF StartPipeline
  <2>2. CASE StartEmbed(o)
    <3>1. [Idle EXCEPT !.pc = "current", !.dim = Dim[SettingsOf(o)]] \in OpStates
      BY <2>0, EmbedderAssumption DEF OpStates, PCs
    <3>2. QED BY <2>2, <3>1, BeginType DEF StartEmbed
  <2>3. CASE StartRebuild(o)
    <3>1. [Idle EXCEPT !.pc = "deleteAll"] \in OpStates
      BY DEF OpStates, PCs
    <3>2. QED BY <2>3, <3>1, BeginType DEF StartRebuild
  <2>4. CASE StartSwitch(o)
    <3>1. PICK target \in Targets(o) :
            Begin(o, "switch", [Idle EXCEPT !.pc = "config", !.embedder = target])
      BY <2>4 DEF StartSwitch
    <3>2. [Idle EXCEPT !.pc = "config", !.embedder = target] \in OpStates
      BY DEF OpStates, PCs, Targets
    <3>3. QED BY <3>1, <3>2, BeginType
  <2>5. CASE StartDelete(o)
    <3>1. PICK k \in Keys :
            /\ jobs[k] # NoJob
            /\ Begin(o, "delete", [Idle EXCEPT !.pc = "delRow", !.rows = {WorkRow(k)}])
      BY <2>5 DEF StartDelete
    <3>2. [Idle EXCEPT !.pc = "delRow", !.rows = {WorkRow(k)}] \in OpStates
      BY <3>1, WorkRowType DEF OpStates, PCs
    <3>3. QED BY <3>1, <3>2, BeginType
  <2>6. CASE Bronze(o)
    <3>1. op' \in [Slots -> OpStates]
      BY <2>6, <2>0 DEF Bronze, Goto, TypeOK, OpStates, PCs
    <3>2. bronze' \in [Keys -> Payloads \cup {NoPayload}] /\ deleted' \in SUBSET Keys
      BY <2>6 DEF Bronze, TypeOK
    <3>3. QED BY <2>6, <3>1, <3>2 DEF Bronze, TypeOK, cfgVars, boundVars
  <2>7. CASE SilverRead(o)
    <3>1. op' \in [Slots -> OpStates]
      BY <2>7, <2>0 DEF SilverRead, TypeOK, OpStates, PCs
    <3>2. QED BY <2>7, <3>1 DEF SilverRead, TypeOK, dbVars, cfgVars, boundVars
  <2>8. CASE SilverStamp(o)
    <3>1. op' \in [Slots -> OpStates] /\ clock' \in Nat
      BY <2>8, <2>0 DEF SilverStamp, TypeOK, OpStates, PCs
    <3>2. QED BY <2>8, <3>1 DEF SilverStamp, TypeOK, dbVars, cfgVars, boundVars
  <2>9. CASE SilverCommit(o)
    <3> DEFINE t == op[o]
               kept == Kept(t.seen)
               new == {k \in kept : jobs[k] = NoJob}
    <3>1. new \subseteq Keys /\ IsFiniteSet(new) /\ Cardinality(new) \in Nat
      BY KeysAssumption, FS_Subset, FS_CardinalityType DEF Kept
    <3>2. PICK ids \in NewIds(new) :
            jobs' = [k \in Keys |->
                      IF k \notin kept THEN jobs[k]
                      ELSE [id |-> IF k \in new THEN ids[k] ELSE jobs[k].id,
                            payload |-> t.seen[k],
                            updated |-> UpdatedAt(k, t.seen[k], t.at)]]
      BY <2>9 DEF SilverCommit
    <3>3. nextId' = nextId + Cardinality(new)
      BY <2>9 DEF SilverCommit
    <3>4. nextId' \in Nat \ {0}
      BY <3>1, <3>3 DEF TypeOK
    <3>5. \A k \in new : ids[k] \in Nat /\ ids[k] > 0
      BY <3>1, <3>2 DEF NewIds, TypeOK
    <3>6. ASSUME NEW k \in Keys
          PROVE  /\ jobs'[k] \in JobRows
                 /\ jobs'[k] = NoJob \/ (jobs'[k].id > 0 /\ jobs'[k].payload \in Payloads)
      <4>1. CASE k \notin kept
        BY <4>1, <3>2 DEF TypeOK
      <4>2. CASE k \in kept
        <5>1. t.seen[k] \in Payloads
          BY <4>2, PayloadAssumption DEF Kept
        <5>2. jobs[k] \in JobRows /\ (jobs[k] # NoJob => jobs[k].id > 0)
          BY DEF TypeOK
        <5>3. UpdatedAt(k, t.seen[k], t.at) \in Nat
          BY <2>0, <5>2 DEF UpdatedAt, JobRows, OpStates
        <5>4. (IF k \in new THEN ids[k] ELSE jobs[k].id) \in Nat \ {0}
          BY <4>2, <3>5, <5>2 DEF JobRows
        <5>5. jobs'[k] = [id |-> IF k \in new THEN ids[k] ELSE jobs[k].id,
                          payload |-> t.seen[k],
                          updated |-> UpdatedAt(k, t.seen[k], t.at)]
          BY <4>2, <3>2
        <5>6. QED BY <5>1, <5>3, <5>4, <5>5 DEF JobRows
      <4>3. QED BY <4>1, <4>2
    <3>7. jobs' \in [Keys -> JobRows]
      BY <3>2, <3>6
    <3>8. op' \in [Slots -> OpStates]
      BY <2>9, <2>0 DEF SilverCommit, TypeOK, OpStates, PCs
    <3>9. QED BY <2>9, <3>4, <3>6, <3>7, <3>8 DEF SilverCommit, TypeOK, cfgVars, boundVars
  <2>10. CASE GoldCurrent(o)
    <3>1. op' \in [Slots -> OpStates]
      BY <2>10, <2>0 DEF GoldCurrent, TypeOK, OpStates, PCs
    <3>2. QED BY <2>10, <3>1 DEF GoldCurrent, TypeOK, dbVars, cfgVars, boundVars
  <2>11. CASE GoldPending(o)
    <3> DEFINE todo == {k \in Keys : IsPending(k, ModelKey[op[o].embedder])}
    <3>1. {WorkRow(k) : k \in todo} \in SUBSET WorkRows
      BY WorkRowType DEF IsPending
    <3>2. op' \in [Slots -> OpStates]
      <4>1. CASE Finish(o) BY <4>1 DEF Finish, TypeOK
      <4>2. CASE op' = [op EXCEPT ![o].rows = {WorkRow(k) : k \in todo}, ![o].pc = "embed"]
        BY <4>2, <3>1, <2>0 DEF TypeOK, OpStates, PCs
      <4>3. QED BY <2>11, <4>1, <4>2 DEF GoldPending
    <3>3. QED BY <2>11, <3>2 DEF GoldPending, TypeOK, dbVars, cfgVars, boundVars
  <2>12. CASE GoldEmbed(o)
    <3>1. op' \in [Slots -> OpStates] /\ clock' \in Nat
      BY <2>12, <2>0 DEF GoldEmbed, TypeOK, OpStates, PCs
    <3>2. QED BY <2>12, <3>1 DEF GoldEmbed, TypeOK, dbVars, cfgVars, boundVars
  <2>13. CASE GoldCommit(o)
    <3>1. NewEmbeddings(o) \subseteq EmbeddingRows
      BY <2>0 DEF NewEmbeddings, EmbeddingRows, OpStates, WorkRows, Labels
    <3>2. emb' \in SUBSET EmbeddingRows
      BY <2>13, <3>1 DEF GoldCommit, TypeOK
    <3>3. op' \in [Slots -> OpStates]
      BY <2>13 DEF GoldCommit, Finish, TypeOK
    <3>4. QED BY <2>13, <3>2, <3>3 DEF GoldCommit, TypeOK, cfgVars, boundVars
  <2>14. CASE DeleteAll(o)
    <3>1. op' \in [Slots -> OpStates]
      BY <2>14, <2>0, EmbedderAssumption DEF DeleteAll, TypeOK, OpStates, PCs
    <3>2. QED BY <2>14, <3>1 DEF DeleteAll, TypeOK, cfgVars, boundVars
  <2>15. CASE SwitchConfig(o)
    <3>1. op' \in [Slots -> OpStates]
      BY <2>15, <2>0 DEF SwitchConfig, Goto, TypeOK, OpStates, PCs
    <3>2. env' \in Embedders /\ cfg' \in [Procs -> Embedders]
      BY <2>15, <2>0 DEF SwitchConfig, TypeOK, OpStates
    <3>3. QED BY <2>15, <3>1, <3>2 DEF SwitchConfig, TypeOK, dbVars, boundVars
  <2>16. CASE SwitchSwap(o)
    <3>1. op' \in [Slots -> OpStates]
      BY <2>16, <2>0 DEF SwitchSwap, TypeOK, OpStates, PCs
    <3>2. active' \in [Procs -> Embedders]
      BY <2>16, <2>0 DEF SwitchSwap, TypeOK, OpStates
    <3>3. QED BY <2>16, <3>1, <3>2 DEF SwitchSwap, TypeOK, dbVars, boundVars
  <2>17. CASE DeleteRow(o)
    <3>1. op' \in [Slots -> OpStates]
      BY <2>17, <2>0 DEF DeleteRow, Goto, TypeOK, OpStates, PCs
    <3>2. PICK r \in op[o].rows :
            /\ jobs' = [k \in Keys |-> IF jobs[k].id = r.job THEN NoJob ELSE jobs[k]]
            /\ emb' = {e \in emb : e.job # r.job}
      BY <2>17 DEF DeleteRow
    <3>3. NoJob \in JobRows
      BY DEF NoJob, JobRows
    <3>4. /\ jobs' \in [Keys -> JobRows]
          /\ \A k \in Keys : jobs'[k] = NoJob
                             \/ (jobs'[k].id > 0 /\ jobs'[k].payload \in Payloads)
          /\ emb' \in SUBSET EmbeddingRows
      BY <3>2, <3>3 DEF TypeOK
    <3>5. QED BY <2>17, <3>1, <3>4 DEF DeleteRow, TypeOK, cfgVars, boundVars
  <2>18. CASE DeleteRaw(o)
    <3>1. op' \in [Slots -> OpStates]
      BY <2>18 DEF DeleteRaw, Finish, TypeOK
    <3>2. bronze' \in [Keys -> Payloads \cup {NoPayload}] /\ deleted' \in SUBSET Keys
      BY <2>18, <2>0 DEF DeleteRaw, RecordDeletion, TypeOK, OpStates, WorkRows
    <3>3. QED BY <2>18, <3>1, <3>2 DEF DeleteRaw, TypeOK, cfgVars, boundVars
  <2>19. CASE Fail(o)
    BY <2>19 DEF Fail, Finish, TypeOK, dbVars, cfgVars, boundVars
  <2>20. QED
    BY <1>2, <2>1, <2>2, <2>3, <2>4, <2>5, <2>6, <2>7, <2>8, <2>9, <2>10, <2>11,
       <2>12, <2>13, <2>14, <2>15, <2>16, <2>17, <2>18, <2>19 DEF Step
<1>3. QED
  BY <1>0, <1>1, <1>2 DEF Next

\* The empty database is typed.
LEMMA TypeInit == Init => TypeOK
  BY IdleType, EmbedderAssumption DEF Init, TypeOK, NoJob, JobRows

\* Every reachable state has the declared types: no reachable posting has id 0,
\* and every vector carries a known label (storage layer and pipeline state).
THEOREM TypeCorrect == Spec => []TypeOK
  BY TypeInit, TypeStep, PTL DEF Spec

-----------------------------------------------------------------------------
(* Vectors and postings.                                                   *)

\* The inductive invariant: ids name one posting for ever, so a snapshot taken
\* before a deletion cannot be written onto another posting after it.
IdInv ==
  /\ TypeOK
  /\ IdsBelowCounter
  /\ IdsUnique
  /\ SnapshotIdsKeepMeaning
  /\ VectorOfItsOwnPosting

\* A step that leaves the two tables alone, and leaves the snapshot of every slot
\* as it was or empties it, keeps the invariant.
LEMMA QuietStep ==
  ASSUME IdInv, UNCHANGED <<jobs, nextId>>, emb' = emb,
         \A o \in Slots : op'[o].rows \subseteq op[o].rows
  PROVE  IdsBelowCounter' /\ IdsUnique' /\ SnapshotIdsKeepMeaning' /\ VectorOfItsOwnPosting'
  BY DEF IdInv, IdsBelowCounter, IdsUnique, SnapshotIdsKeepMeaning, VectorOfItsOwnPosting

\* The steps that write neither postings nor vectors and read no snapshot of
\* postings: they move an operation along, or end it.
LocalStep(o) ==
  \/ Bronze(o) \/ SilverRead(o) \/ SilverStamp(o)
  \/ GoldCurrent(o) \/ GoldEmbed(o)
  \/ SwitchConfig(o) \/ SwitchSwap(o)
  \/ DeleteRaw(o) \/ Fail(o)

LEMMA LocalSteps ==
  ASSUME TypeOK, NEW o \in Slots, LocalStep(o)
  PROVE  UNCHANGED <<jobs, nextId, emb>> /\ \A s \in Slots : op'[s].rows \subseteq op[s].rows
<1> op \in [Slots -> OpStates]
  BY DEF TypeOK
<1>1. UNCHANGED <<jobs, nextId, emb>>
  BY DEF LocalStep, Bronze, SilverRead, SilverStamp, GoldCurrent, GoldEmbed, SwitchConfig,
         SwitchSwap, DeleteRaw, Fail, dbVars
<1>2. CASE DeleteRaw(o) \/ Fail(o)
  BY <1>1, <1>2, IdleType DEF DeleteRaw, Fail, Finish
<1>3. CASE SwitchSwap(o)
  BY <1>1, <1>3 DEF SwitchSwap, Idle
<1>4. CASE Bronze(o) \/ SilverRead(o) \/ SilverStamp(o) \/ GoldCurrent(o) \/ GoldEmbed(o)
           \/ SwitchConfig(o)
  BY <1>1, <1>4, SMTT(40) DEF Bronze, SilverRead, SilverStamp, GoldCurrent, GoldEmbed, SwitchConfig,
                    Goto, OpStates
<1>5. QED
  BY <1>1, <1>2, <1>3, <1>4 DEF LocalStep

\* The row of a living posting names that posting and no other.
LEMMA WorkRowMeaning ==
  ASSUME IdInv, NEW k \in Keys, jobs[k] # NoJob
  PROVE  /\ WorkRow(k).job < nextId
         /\ \A j \in Keys : jobs[j] # NoJob /\ jobs[j].id = WorkRow(k).job
              => WorkRow(k).key = j
  BY DEF IdInv, IdsBelowCounter, IdsUnique, WorkRow

\* Every step keeps the meaning of ids. The steps that matter are SilverCommit,
\* which hands out ids, the two that read a snapshot, and GoldCommit, DeleteAll
\* and DeleteRow, which write the table of vectors.
LEMMA IdStep == IdInv /\ [Next]_vars => IdInv'
<1> SUFFICES ASSUME IdInv, [Next]_vars PROVE IdInv'
  OBVIOUS
<1>t. TypeOK /\ TypeOK'
  BY TypeStep DEF IdInv
<1> DEFINE Rest == /\ IdsBelowCounter' /\ IdsUnique'
                   /\ SnapshotIdsKeepMeaning' /\ VectorOfItsOwnPosting'
<1> SUFFICES Rest
  BY <1>t DEF IdInv
<1>0. CASE UNCHANGED vars
  BY <1>0, QuietStep DEF vars, dbVars
<1>1. CASE Crash
  <2>1. \A o \in Slots : op'[o].rows \subseteq op[o].rows
    BY <1>1, IdleType DEF Crash
  <2>2. QED BY <1>1, <2>1, QuietStep DEF Crash, dbVars
<1>2. ASSUME NEW o \in Slots, Step(o) PROVE Rest
  <2>o. op \in [Slots -> OpStates]
    BY <1>t DEF TypeOK
  <2>1. CASE StartPipeline(o) \/ StartEmbed(o) \/ StartRebuild(o) \/ StartSwitch(o)
    <3>1. \A s \in Slots : op'[s].rows \subseteq op[s].rows
      BY <2>1, <2>o, IdleType, ZenonT(60)
         DEF StartPipeline, StartEmbed, StartRebuild, StartSwitch, Begin, Idle
    <3>2. UNCHANGED <<jobs, nextId, emb>>
      BY <2>1 DEF StartPipeline, StartEmbed, StartRebuild, StartSwitch, Begin, dbVars
    <3>3. QED BY <3>1, <3>2, QuietStep
  <2>2. CASE StartDelete(o)
    <3>1. PICK k \in Keys :
            /\ jobs[k] # NoJob
            /\ Begin(o, "delete", [Idle EXCEPT !.pc = "delRow", !.rows = {WorkRow(k)}])
      BY <2>2 DEF StartDelete
    <3>2. UNCHANGED <<jobs, nextId, emb>>
      BY <3>1 DEF Begin, dbVars
    <3>3. \A s \in Slots : op'[s].rows \subseteq op[s].rows \cup {WorkRow(k)}
      BY <3>1, <2>o, IdleType DEF Begin, Idle
    <3>4. SnapshotIdsKeepMeaning'
      BY <3>1, <3>2, <3>3, WorkRowMeaning DEF IdInv, SnapshotIdsKeepMeaning
    <3>5. QED
      BY <3>2, <3>4 DEF IdInv, IdsBelowCounter, IdsUnique, VectorOfItsOwnPosting
  <2>3. CASE LocalStep(o)
    BY <2>3, <1>t, LocalSteps, QuietStep
  <2>4. CASE SilverCommit(o)
    <3> DEFINE t == op[o]
               kept == Kept(t.seen)
               new == {k \in kept : jobs[k] = NoJob}
    <3>1. Cardinality(new) \in Nat
      BY KeysAssumption, FS_Subset, FS_CardinalityType DEF Kept
    <3>2. PICK ids \in NewIds(new) :
            jobs' = [k \in Keys |->
                      IF k \notin kept THEN jobs[k]
                      ELSE [id |-> IF k \in new THEN ids[k] ELSE jobs[k].id,
                            payload |-> t.seen[k],
                            updated |-> UpdatedAt(k, t.seen[k], t.at)]]
      BY <2>4 DEF SilverCommit
    <3>3. nextId' = nextId + Cardinality(new) /\ emb' = emb
      BY <2>4 DEF SilverCommit
    <3>4. \A s \in Slots : op'[s].rows \subseteq op[s].rows
      BY <2>4, <2>o, IdleType DEF SilverCommit, Idle
    \* An id the step hands out is fresh, and no other new row receives it.
    <3>5. \A k \in new : ids[k] \in Nat /\ nextId <= ids[k] /\ ids[k] < nextId'
      BY <3>1, <3>2, <3>3, <1>t DEF NewIds, TypeOK
    <3>6. \A j, k \in new : ids[j] = ids[k] => j = k
      BY <3>2 DEF NewIds
    <3>7. \A k \in Keys : k \in new => jobs'[k].id = ids[k]
      BY <3>2
    <3>8. \A k \in Keys : k \notin new => jobs'[k].id = jobs[k].id
      BY <3>2
    \* A posting the step did not create was there before, with the same id.
    <3>9. \A k \in Keys : k \notin new /\ jobs'[k] # NoJob => jobs[k] # NoJob
      BY <3>2
    <3>10. nextId \in Nat /\ nextId <= nextId' /\ \A k \in Keys : jobs[k].id \in Nat
      BY <3>1, <3>3, <1>t DEF TypeOK, JobRows
    <3>11. IdsBelowCounter'
      BY <3>5, <3>7, <3>8, <3>10, <1>t DEF IdInv, IdsBelowCounter, TypeOK
    <3>12. IdsUnique'
      <4> SUFFICES ASSUME NEW j \in Keys, NEW k \in Keys, jobs'[j] # NoJob, jobs'[k] # NoJob,
                          jobs'[j].id = jobs'[k].id
                   PROVE  j = k
        BY DEF IdsUnique
      <4>1. CASE j \in new /\ k \in new
        BY <4>1, <3>6, <3>7
      <4>2. CASE j \notin new /\ k \notin new
        BY <4>2, <3>8, <3>9 DEF IdInv, IdsUnique
      <4>3. CASE j \in new /\ k \notin new
        BY <4>3, <3>5, <3>7, <3>8, <3>10 DEF IdInv, IdsBelowCounter
      <4>4. CASE j \notin new /\ k \in new
        BY <4>4, <3>5, <3>7, <3>8, <3>10 DEF IdInv, IdsBelowCounter
      <4>5. QED BY <4>1, <4>2, <4>3, <4>4
    <3>13. SnapshotIdsKeepMeaning'
      <4> SUFFICES ASSUME NEW s \in Slots, NEW r \in op'[s].rows
                   PROVE  /\ r.job < nextId'
                          /\ \A k \in Keys : jobs'[k] # NoJob /\ jobs'[k].id = r.job
                                => r.key = k
        BY DEF SnapshotIdsKeepMeaning
      <4>1. r \in op[s].rows /\ r.job < nextId
        BY <3>4 DEF IdInv, SnapshotIdsKeepMeaning
      <4>2. r.job \in Nat
        BY <4>1, <2>o DEF OpStates, WorkRows
      <4>3. ASSUME NEW k \in Keys, jobs'[k] # NoJob, jobs'[k].id = r.job PROVE r.key = k
        <5>1. k \notin new
          BY <4>1, <4>2, <4>3, <3>5, <3>7, <3>10
        <5>2. QED BY <4>1, <4>3, <5>1, <3>8, <3>9 DEF IdInv, SnapshotIdsKeepMeaning
      <4>4. r.job < nextId'
        BY <4>1, <4>2, <3>10, <1>t DEF TypeOK
      <4>5. QED BY <4>3, <4>4
    <3>14. VectorOfItsOwnPosting'
      <4> SUFFICES ASSUME NEW e \in emb
                   PROVE  \E k \in Keys : jobs'[k] # NoJob /\ jobs'[k].id = e.job /\ e.key = k
        BY <3>3 DEF VectorOfItsOwnPosting
      <4>1. PICK k \in Keys : jobs[k] # NoJob /\ jobs[k].id = e.job /\ e.key = k
        BY DEF IdInv, VectorOfItsOwnPosting
      <4>2. k \notin new
        BY <4>1
      <4>3. jobs'[k] # NoJob
        <5>1. jobs[k].id > 0
          BY <4>1, <1>t DEF TypeOK
        <5>2. QED BY <5>1, <4>2, <3>8 DEF NoJob
      <4>4. QED BY <4>1, <4>2, <4>3, <3>8
    <3>15. QED BY <3>11, <3>12, <3>13, <3>14
  <2>5. CASE GoldPending(o)
    <3> DEFINE todo == {k \in Keys : IsPending(k, ModelKey[op[o].embedder])}
    <3>1. UNCHANGED <<jobs, nextId, emb>>
      BY <2>5 DEF GoldPending, dbVars
    <3>2. \A s \in Slots : op'[s].rows \subseteq op[s].rows \cup {WorkRow(k) : k \in todo}
      BY <2>5, <2>o, IdleType DEF GoldPending, Finish, OpStates
    <3>3. \A k \in todo : k \in Keys /\ jobs[k] # NoJob
      BY DEF IsPending
    <3>4. SnapshotIdsKeepMeaning'
      BY <3>1, <3>2, <3>3, WorkRowMeaning DEF IdInv, SnapshotIdsKeepMeaning
    <3>5. QED
      BY <3>1, <3>4 DEF IdInv, IdsBelowCounter, IdsUnique, VectorOfItsOwnPosting
  <2>6. CASE GoldCommit(o)
    <3>1. UNCHANGED <<jobs, nextId>>
      BY <2>6 DEF GoldCommit
    <3>2. \A s \in Slots : op'[s].rows \subseteq op[s].rows
      BY <2>6, <2>o, IdleType DEF GoldCommit, Finish
    <3>3. IdsBelowCounter' /\ IdsUnique' /\ SnapshotIdsKeepMeaning'
      BY <3>1, <3>2 DEF IdInv, IdsBelowCounter, IdsUnique, SnapshotIdsKeepMeaning
    \* The foreign key finds a posting behind each id, and the snapshot's meaning
    \* makes it the one the text was read from.
    <3>4. \A e \in NewEmbeddings(o) :
            \E k \in Keys : jobs[k] # NoJob /\ jobs[k].id = e.job /\ e.key = k
      BY <2>6 DEF GoldCommit, NewEmbeddings, JobExists, IdInv, SnapshotIdsKeepMeaning
    <3>5. VectorOfItsOwnPosting'
      BY <2>6, <3>1, <3>4 DEF GoldCommit, IdInv, VectorOfItsOwnPosting
    <3>6. QED BY <3>3, <3>5
  <2>7. CASE DeleteAll(o)
    <3>1. UNCHANGED <<jobs, nextId>> /\ emb' = {}
      BY <2>7 DEF DeleteAll
    <3>2. \A s \in Slots : op'[s].rows \subseteq op[s].rows
      BY <2>7, <2>o, IdleType DEF DeleteAll, Idle
    <3>3. QED
      BY <3>1, <3>2 DEF IdInv, IdsBelowCounter, IdsUnique, SnapshotIdsKeepMeaning,
                        VectorOfItsOwnPosting
  <2>8. CASE DeleteRow(o)
    <3>1. PICK r \in op[o].rows :
            /\ jobs' = [k \in Keys |-> IF jobs[k].id = r.job THEN NoJob ELSE jobs[k]]
            /\ emb' = {e \in emb : e.job # r.job}
      BY <2>8 DEF DeleteRow
    <3>2. nextId' = nextId /\ \A s \in Slots : op'[s].rows \subseteq op[s].rows
      BY <2>8, <2>o DEF DeleteRow, Goto, OpStates
    <3>3. \A k \in Keys : jobs'[k] # NoJob => jobs'[k] = jobs[k] /\ jobs[k].id # r.job
      BY <3>1
    <3>4. IdsBelowCounter'
      BY <3>1, <3>2, <1>t DEF IdInv, IdsBelowCounter, TypeOK, NoJob
    <3>5. IdsUnique' /\ SnapshotIdsKeepMeaning'
      BY <3>2, <3>3 DEF IdInv, IdsUnique, SnapshotIdsKeepMeaning
    <3>6. VectorOfItsOwnPosting'
      <4> SUFFICES ASSUME NEW e \in emb, e.job # r.job
                   PROVE  \E k \in Keys : jobs'[k] # NoJob /\ jobs'[k].id = e.job /\ e.key = k
        BY <3>1 DEF VectorOfItsOwnPosting
      <4>1. PICK k \in Keys : jobs[k] # NoJob /\ jobs[k].id = e.job /\ e.key = k
        BY DEF IdInv, VectorOfItsOwnPosting
      <4>2. jobs'[k] = jobs[k]
        BY <3>1, <4>1
      <4>3. QED BY <4>1, <4>2
    <3>7. QED BY <3>4, <3>5, <3>6
  <2>9. QED
    BY <1>2, <2>1, <2>2, <2>3, <2>4, <2>5, <2>6, <2>7, <2>8 DEF Step, LocalStep
<1>3. QED
  BY <1>0, <1>1, <1>2 DEF Next

\* The invariant holds of the empty database.
LEMMA IdInit == Init => IdInv
  BY TypeInit, IdleType DEF Init, IdInv, IdsBelowCounter, IdsUnique, SnapshotIdsKeepMeaning,
                            VectorOfItsOwnPosting, NoJob

\* Gold never stores a vector under a posting it was not computed from, and no
\* vector outlives its posting, however runs, rebuilds, switches, deletions,
\* crashes and other processes interleave (Gold, UpsertMany, the foreign key,
\* AUTOINCREMENT and ON DELETE CASCADE together).
THEOREM VectorsBelong == Spec => []VectorOfItsOwnPosting
<1>1. IdInv => VectorOfItsOwnPosting
  BY DEF IdInv
<1>2. QED
  BY <1>1, IdInit, IdStep, PTL DEF Spec

-----------------------------------------------------------------------------
(* Vectors and embedders.                                                  *)

LabelInv == IdInv /\ LabelsTruthful /\ SnapshotRowsUnique /\ OneVectorPerPosting

\* Labels stay truthful and job_id stays a key: only GoldCommit adds vectors, one
\* per row of its snapshot, and only GoldPending and StartDelete take snapshots.
LEMMA LabelStep == LabelInv /\ [Next]_vars => LabelInv'
<1> SUFFICES ASSUME LabelInv, [Next]_vars PROVE LabelInv'
  OBVIOUS
<1>i. IdInv /\ IdInv' /\ op \in [Slots -> OpStates]
  BY IdStep DEF LabelInv, IdInv, TypeOK
<1> DEFINE Quiet == emb' \subseteq emb /\ \A s \in Slots : op'[s].rows \subseteq op[s].rows
<1>q. Quiet => LabelInv'
  BY <1>i DEF LabelInv, LabelsTruthful, SnapshotRowsUnique, OneVectorPerPosting
<1>0. CASE UNCHANGED vars
  BY <1>0, <1>q DEF vars, dbVars
<1>1. CASE Crash
  BY <1>1, <1>q, IdleType DEF Crash, dbVars
<1>2. ASSUME NEW o \in Slots, Step(o) PROVE LabelInv'
  <2>1. CASE StartPipeline(o) \/ StartEmbed(o) \/ StartRebuild(o) \/ StartSwitch(o)
    <3>1. \A s \in Slots : op'[s].rows \subseteq op[s].rows
      BY <2>1, <1>i, IdleType, ZenonT(60)
         DEF StartPipeline, StartEmbed, StartRebuild, StartSwitch, Begin, Idle
    <3>2. emb' = emb
      BY <2>1 DEF StartPipeline, StartEmbed, StartRebuild, StartSwitch, Begin, dbVars
    <3>3. QED BY <3>1, <3>2, <1>q
  <2>2. CASE StartDelete(o)
    <3>1. PICK k \in Keys :
            Begin(o, "delete", [Idle EXCEPT !.pc = "delRow", !.rows = {WorkRow(k)}])
      BY <2>2 DEF StartDelete
    <3>2. /\ emb' = emb
          /\ \A s \in Slots : op'[s].rows = op[s].rows \/ op'[s].rows = {WorkRow(k)}
      BY <3>1, <1>i DEF Begin, dbVars, Idle
    <3>3. QED
      BY <3>2, <1>i DEF LabelInv, LabelsTruthful, SnapshotRowsUnique, OneVectorPerPosting
  <2>3. CASE LocalStep(o)
    BY <2>3, <1>i, <1>q, LocalSteps DEF IdInv
  <2>3c. CASE SilverCommit(o)
    BY <2>3c, <1>i, <1>q, IdleType DEF SilverCommit, Idle
  <2>4. CASE GoldPending(o)
    <3> DEFINE todo == {k \in Keys : IsPending(k, ModelKey[op[o].embedder])}
    <3>1. emb' = emb
      BY <2>4 DEF GoldPending, dbVars
    <3>2. \A s \in Slots : op'[s].rows \subseteq op[s].rows
                            \/ op'[s].rows = {WorkRow(k) : k \in todo}
      BY <2>4, <1>i, IdleType DEF GoldPending, Finish, OpStates
    <3>3. \A j, k \in todo : WorkRow(j).job = WorkRow(k).job => j = k
      BY <1>i DEF IdInv, IdsUnique, IsPending, WorkRow
    <3>4. SnapshotRowsUnique'
      BY <3>2, <3>3 DEF LabelInv, SnapshotRowsUnique
    <3>5. QED BY <3>1, <3>4, <1>i DEF LabelInv, LabelsTruthful, OneVectorPerPosting
  <2>5. CASE GoldCommit(o)
    <3> DEFINE ids == {r.job : r \in op[o].rows}
    <3>1. emb' = {e \in emb : e.job \notin ids} \cup NewEmbeddings(o)
      BY <2>5 DEF GoldCommit
    <3>2. \A e \in NewEmbeddings(o) : e.job \in ids /\ e.model = ModelKey[e.by]
      BY DEF NewEmbeddings
    <3>3. \A e, f \in NewEmbeddings(o) : e.job = f.job => e = f
      BY DEF NewEmbeddings, LabelInv, SnapshotRowsUnique
    <3>4. LabelsTruthful' /\ OneVectorPerPosting'
      BY <3>1, <3>2, <3>3 DEF LabelInv, LabelsTruthful, OneVectorPerPosting
    <3>5. SnapshotRowsUnique'
      BY <2>5, <1>i, IdleType DEF GoldCommit, Finish, LabelInv, SnapshotRowsUnique
    <3>6. QED BY <3>4, <3>5, <1>i DEF LabelInv
  <2>6. CASE DeleteAll(o)
    BY <2>6, <1>i, <1>q, IdleType DEF DeleteAll, Idle
  <2>7. CASE DeleteRow(o)
    <3>1. emb' \subseteq emb
      BY <2>7 DEF DeleteRow
    <3>2. \A s \in Slots : op'[s].rows \subseteq op[s].rows
      BY <2>7, <1>i DEF DeleteRow, Goto, OpStates
    <3>3. QED BY <3>1, <3>2, <1>q
  <2>8. QED
    BY <1>2, <2>1, <2>2, <2>3, <2>3c, <2>4, <2>5, <2>6, <2>7 DEF Step, LocalStep
<1>3. QED
  BY <1>0, <1>1, <1>2 DEF Next

\* When every embedder has a label of its own, a vector that a process's embedder
\* did not make is pending for that process, at every moment: the next Gold run
\* replaces it (Pending's model <> ? condition). A switch that changes only the
\* dimension keeps the label and falls outside the hypothesis.
THEOREM ForeignVectorsHeal ==
  ASSUME \A e, f \in Embedders : ModelKey[e] = ModelKey[f] => e = f
  PROVE  Spec => []ForeignVectorsArePending
<1>1. Init => LabelInv
  BY IdInit, IdleType DEF Init, LabelInv, LabelsTruthful, SnapshotRowsUnique,
                          OneVectorPerPosting
<1>2. LabelInv => ForeignVectorsArePending
  <2> SUFFICES ASSUME LabelInv, NEW p \in Procs, NEW k \in Keys, NEW e \in emb,
                      jobs[k] # NoJob, e.job = jobs[k].id, e.by # active[p],
                      NEW f \in emb, f.job = jobs[k].id
               PROVE  Outdated(f, k, ModelKey[active[p]])
    BY DEF ForeignVectorsArePending, IsPending
  <2>1. f = e
    BY DEF LabelInv, OneVectorPerPosting
  <2>2. e.by \in Embedders /\ active[p] \in Embedders
    BY DEF LabelInv, IdInv, TypeOK, EmbeddingRows
  <2>3. e.model # ModelKey[active[p]]
    BY <2>2 DEF LabelInv, LabelsTruthful
  <2>4. QED BY <2>1, <2>3 DEF Outdated
<1>3. QED
  BY <1>1, <1>2, LabelStep, PTL DEF Spec

-----------------------------------------------------------------------------
(* Deleted postings.                                                       *)

\* Beside the tables, no Silver holds the copy that would undo a deletion.
CopiesWithout(k) ==
  \A s \in Slots : op[s].pc \in {"silverStamp", "silverCommit"} => k \notin Kept(op[s].seen)

AwayInv ==
  /\ TypeOK
  /\ \A k \in deleted : jobs[k] = NoJob /\ bronze[k] = NoPayload /\ CopiesWithout(k)

\* A step on tables that stay and gives no slot a copy it did not have.
LEMMA AwayQuiet ==
  ASSUME AwayInv, TypeOK', UNCHANGED <<bronze, jobs, deleted>>,
         \A s \in Slots : op'[s].pc \in {"silverStamp", "silverCommit"} =>
           /\ op[s].pc \in {"silverStamp", "silverCommit"}
           /\ op'[s].seen = op[s].seen
  PROVE  AwayInv'
  BY DEF AwayInv, CopiesWithout, Kept

\* The same when an operation starts.
LEMMA AwayBegin ==
  ASSUME AwayInv, TypeOK', NEW o \in Slots, NEW c, NEW state, Begin(o, c, state),
         state.pc \notin {"silverStamp", "silverCommit"}
  PROVE  AwayInv'
<1>1. UNCHANGED <<bronze, jobs, deleted>>
  BY DEF Begin, dbVars
<1>2. \A s \in Slots : op'[s] = IF s = o THEN state ELSE op[s]
  BY DEF Begin, AwayInv, TypeOK
<1> QED BY <1>1, <1>2, AwayQuiet

LEMMA AwayStep == ASSUME AwayInv, [Next]_vars PROVE AwayInv'
<1>i. TypeOK /\ TypeOK' /\ op \in [Slots -> OpStates]
  BY TypeStep DEF AwayInv, TypeOK
<1>0. CASE UNCHANGED vars
  BY <1>0, <1>i, AwayQuiet DEF vars, dbVars
<1>1. CASE Crash
  BY <1>1, <1>i, AwayQuiet DEF Crash, dbVars, Idle
<1>2. ASSUME NEW o \in Slots, Step(o) PROVE AwayInv'
  <2>0. op[o] \in OpStates
    BY <1>i
  <2>1. CASE StartPipeline(o) \/ StartEmbed(o) \/ StartRebuild(o)
    BY <2>1, <1>i, AwayBegin DEF StartPipeline, StartEmbed, StartRebuild, Idle
  <2>2. CASE StartSwitch(o)
    BY <2>2, <1>i, AwayBegin DEF StartSwitch, Idle
  <2>3. CASE StartDelete(o)
    BY <2>3, <1>i, AwayBegin DEF StartDelete, Idle
  \* A posting that is found again is no longer expected to stay away.
  <2>4. CASE Bronze(o)
    <3>1. PICK found \in SUBSET Keys :
            \E record \in [found -> Payloads] :
              /\ bronze' = [k \in Keys |-> IF k \in found THEN record[k] ELSE bronze[k]]
              /\ deleted' = deleted \ found
      BY <2>4 DEF Bronze
    <3>2. UNCHANGED jobs /\ op' = [op EXCEPT ![o].pc = "silverRead"]
      BY <2>4 DEF Bronze, Goto
    <3>3. \A s \in Slots : op'[s].pc \in {"silverStamp", "silverCommit"} => op'[s] = op[s]
      BY <2>0, <1>i, <3>2 DEF OpStates
    <3>4. ASSUME NEW k \in deleted' PROVE jobs'[k] = NoJob /\ bronze'[k] = NoPayload /\ CopiesWithout(k)'
      <4>1. k \in deleted /\ k \notin found /\ k \in Keys
        BY <1>i, <3>1, <3>4 DEF TypeOK
      <4>2. jobs'[k] = NoJob /\ bronze'[k] = NoPayload
        BY <3>1, <3>2, <4>1 DEF AwayInv
      <4>3. CopiesWithout(k)'
        BY <3>3, <4>1 DEF AwayInv, CopiesWithout, Kept
      <4> QED BY <4>2, <4>3
    <3> QED BY <1>i, <3>4 DEF AwayInv
  \* What Silver reads now is without the deleted postings.
  <2>5. CASE SilverRead(o)
    <3>1. /\ UNCHANGED <<bronze, jobs, deleted>>
          /\ op'[o].seen = bronze
          /\ \A s \in Slots \ {o} : op'[s] = op[s]
      BY <2>5, <2>0, <1>i DEF SilverRead, dbVars, OpStates
    <3>2. ASSUME NEW k \in deleted PROVE CopiesWithout(k)'
      <4>1. k \notin Kept(bronze)
        BY PayloadAssumption DEF AwayInv, Kept
      <4>2. \A s \in Slots \ {o} : op[s].pc \in {"silverStamp", "silverCommit"} => k \notin Kept(op[s].seen)
        BY DEF AwayInv, CopiesWithout
      <4> QED BY <3>1, <4>1, <4>2 DEF CopiesWithout, Kept
    <3> QED BY <1>i, <3>1, <3>2 DEF AwayInv
  <2>6. CASE SilverStamp(o)
    BY <2>6, <2>0, <1>i, AwayQuiet DEF SilverStamp, dbVars, OpStates
  <2>7. CASE SilverCommit(o)
    <3>1. /\ UNCHANGED <<bronze, deleted>>
          /\ op[o].pc = "silverCommit" /\ op'[o].pc = "current"
          /\ \A s \in Slots \ {o} : op'[s] = op[s]
          /\ \A k \in Keys \ Kept(op[o].seen) : jobs'[k] = jobs[k]
      BY <2>7, <2>0, <1>i DEF SilverCommit, OpStates, Idle
    <3>2. ASSUME NEW k \in deleted PROVE jobs'[k] = NoJob /\ CopiesWithout(k)'
      <4>1. k \in Keys /\ k \notin Kept(op[o].seen) /\ jobs[k] = NoJob
        BY <1>i, <3>1 DEF AwayInv, CopiesWithout, TypeOK
      <4>2. CopiesWithout(k)'
        BY <3>1 DEF AwayInv, CopiesWithout, Kept
      <4> QED BY <3>1, <4>1, <4>2
    <3> QED BY <1>i, <3>1, <3>2 DEF AwayInv
  <2>8. CASE GoldCurrent(o) \/ GoldPending(o) \/ GoldEmbed(o) \/ GoldCommit(o)
    <3>1. UNCHANGED <<bronze, jobs, deleted>> /\ \A s \in Slots \ {o} : op'[s] = op[s]
      BY <2>8, <1>i DEF GoldCurrent, GoldPending, GoldEmbed, GoldCommit, Finish, dbVars
    <3>2. op'[o].pc \notin {"silverStamp", "silverCommit"}
      BY <2>8, <2>0, <1>i DEF GoldCurrent, GoldPending, GoldEmbed, GoldCommit, Finish, OpStates, Idle
    <3> QED BY <1>i, <3>1, <3>2, AwayQuiet
  <2>9. CASE DeleteAll(o) \/ SwitchConfig(o) \/ SwitchSwap(o) \/ Fail(o)
    <3>1. UNCHANGED <<bronze, jobs, deleted>> /\ \A s \in Slots \ {o} : op'[s] = op[s]
      BY <2>9, <1>i DEF DeleteAll, SwitchConfig, SwitchSwap, Fail, Goto, Finish, dbVars
    <3>2. op'[o].pc \in {"current", "swap", "deleteAll", "idle"}
      <4>1. CASE DeleteAll(o)
        BY <4>1, <2>0, <1>i DEF DeleteAll, OpStates, Idle
      <4>2. CASE Fail(o)
        BY <4>2, <1>i DEF Fail, Finish, Idle
      <4>3. CASE SwitchConfig(o) \/ SwitchSwap(o)
        BY <4>3, <2>0, <1>i DEF SwitchConfig, SwitchSwap, Goto, OpStates, Idle
      <4> QED BY <2>9, <4>1, <4>2, <4>3
    <3> QED BY <1>i, <3>1, <3>2, AwayQuiet
  <2>10. CASE DeleteRow(o)
    <3>1. /\ UNCHANGED <<bronze, deleted>>
          /\ \A k \in Keys : jobs'[k] \in {NoJob, jobs[k]}
          /\ \A s \in Slots : op'[s].pc \in {"silverStamp", "silverCommit"} => op'[s] = op[s]
      BY <2>10, <2>0, <1>i DEF DeleteRow, Goto, OpStates
    <3>2. deleted \subseteq Keys
      BY <1>i DEF TypeOK
    <3> QED BY <1>i, <3>1, <3>2 DEF AwayInv, CopiesWithout, Kept
  \* The history gains the posting only if nothing has overtaken the deletion.
  <2>11. CASE DeleteRaw(o)
    <3>1. PICK r \in op[o].rows :
            bronze' = [bronze EXCEPT ![r.key] = NoPayload] /\ RecordDeletion(r.key)
      BY <2>11 DEF DeleteRaw
    <3>2. UNCHANGED jobs /\ op'[o] = Idle /\ \A s \in Slots \ {o} : op'[s] = op[s]
      BY <2>11, <1>i DEF DeleteRaw, Finish
    <3>3. r.key \in Keys /\ bronze \in [Keys -> Payloads \cup {NoPayload}] /\ deleted \subseteq Keys
      BY <1>i, <2>0 DEF TypeOK, OpStates, WorkRows
    <3>4. \A k : CopiesWithout(k) => CopiesWithout(k)'
      BY <3>2 DEF CopiesWithout, Kept, Idle
    <3>5. ASSUME NEW k \in deleted PROVE jobs'[k] = NoJob /\ bronze'[k] = NoPayload /\ CopiesWithout(k)'
      BY <3>1, <3>2, <3>3, <3>4 DEF AwayInv
    <3>6. CASE Overtaken(r.key)
      BY <1>i, <3>1, <3>5, <3>6 DEF RecordDeletion, AwayInv
    <3>7. CASE ~Overtaken(r.key)
      <4>1. jobs'[r.key] = NoJob /\ bronze'[r.key] = NoPayload /\ CopiesWithout(r.key)'
        BY <3>1, <3>2, <3>3, <3>4, <3>7 DEF Overtaken, CopiesWithout
      <4>2. deleted' = deleted \cup {r.key}
        BY <3>1, <3>7 DEF RecordDeletion
      <4> QED BY <1>i, <3>5, <4>1, <4>2 DEF AwayInv
    <3> QED BY <3>6, <3>7
  <2> QED
    BY <1>2, <2>1, <2>2, <2>3, <2>4, <2>5, <2>6, <2>7, <2>8, <2>9, <2>10, <2>11 DEF Step
<1> QED BY <1>0, <1>1, <1>2 DEF Next

\* A deleted posting stays away until a scraper finds it again, whatever overlaps, fails
\* or crashes afterwards, unless it was back, or in the copy of a Silver about to
\* commit, when the deletion ended.
THEOREM DeletedStayAway == Spec => []DeletedStaysDeleted
<1>1. Init => AwayInv
  <2>1. Init => deleted = {}
    BY DEF Init
  <2> QED BY <2>1, IdInit DEF IdInv, AwayInv
<1>2. AwayInv /\ [Next]_vars => AwayInv'
  BY AwayStep
<1>3. AwayInv => DeletedStaysDeleted
  BY DEF AwayInv, DeletedStaysDeleted
<1> QED BY <1>1, <1>2, <1>3, PTL DEF Spec

-----------------------------------------------------------------------------
(* Operations one after another.                                           *)

OneAtATime == \A o, s \in Slots : op[o].pc # "idle" /\ op[s].pc # "idle" => o = s

\* What an operation holds is what the tables say, as long as nobody else writes them.
HoldsCurrent(o) ==
  /\ op[o].at <= clock
  /\ op[o].pc = "silverCommit" => \A e \in emb : e.at < op[o].at
  /\ op[o].pc \in {"embed", "commit", "delRow"} =>
       \A r \in op[o].rows : /\ jobs[r.key] # NoJob /\ jobs[r.key].id = r.job
                             /\ r.text = FullText[jobs[r.key].payload]
  /\ op[o].pc = "delRow" => \A r, s \in op[o].rows : r = s

\* A vector is from its posting's text or shows its age.
FreshOrOld ==
  \A e \in emb, k \in Keys :
    jobs[k] # NoJob /\ e.job = jobs[k].id =>
      e.at < jobs[k].updated \/ e.text = FullText[jobs[k].payload]

NoneFromTheFuture == \A e \in emb : e.at <= clock

SerialInv ==
  /\ IdInv
  /\ OneAtATime
  /\ \A o \in Slots : HoldsCurrent(o)
  /\ FreshOrOld
  /\ NoneFromTheFuture

\* An idle slot holds nothing that could be out of date.
LEMMA IdleHolds == ASSUME clock \in Nat, NEW o \in Slots, op[o] = Idle PROVE HoldsCurrent(o)
  BY DEF HoldsCurrent, Idle

\* What a step of slot o may rely on and has to show if nothing else is in flight.
LEMMA AloneSteps ==
  ASSUME SerialInv, IdInv', NEW o \in Slots, clock <= clock',
         \A s \in Slots \ {o} : op[s].pc = "idle" /\ op'[s] = op[s],
         HoldsCurrent(o)', FreshOrOld', NoneFromTheFuture'
  PROVE  SerialInv'
<1>1. clock \in Nat /\ clock' \in Nat /\ \A s \in Slots : op[s].at \in Nat
  BY DEF SerialInv, IdInv, TypeOK, OpStates
<1>2. \A s \in Slots \ {o} : HoldsCurrent(s)'
  BY <1>1 DEF SerialInv, HoldsCurrent
<1>3. OneAtATime'
  BY DEF OneAtATime
<1> QED BY <1>2, <1>3 DEF SerialInv

\* A step that changes no table.
LEMMA TablesStay ==
  ASSUME SerialInv, UNCHANGED <<jobs, emb>>, clock <= clock', clock' \in Nat
  PROVE  FreshOrOld' /\ NoneFromTheFuture'
<1>1. clock \in Nat /\ \A e \in emb : e.at \in Nat
  BY DEF SerialInv, IdInv, TypeOK, EmbeddingRows
<1>2. FreshOrOld'
  BY DEF SerialInv, FreshOrOld
<1>3. NoneFromTheFuture'
  BY <1>1 DEF SerialInv, NoneFromTheFuture
<1> QED BY <1>2, <1>3

\* With one operation at a time a new one finds all slots idle.
LEMMA BeginsAlone ==
  ASSUME SerialInv, IdInv', IsFiniteSet(Slots), MaxActive = 1,
         NEW o \in Slots, NEW c, NEW state \in OpStates, Begin(o, c, state),
         state.at = 0, state.pc \notin {"silverStamp", "silverCommit", "embed", "commit", "delRaw"},
         state.pc = "delRow" => \E k \in Keys : jobs[k] # NoJob /\ state.rows = {WorkRow(k)}
  PROVE  SerialInv'
<1>1. op \in [Slots -> OpStates] /\ clock \in Nat
  BY DEF SerialInv, IdInv, TypeOK
<1>2. \A s \in Slots : op[s].pc = "idle"
  <2>1. IsFiniteSet(InFlight) /\ Cardinality(InFlight) < 1
    BY FS_Subset DEF InFlight, Begin
  <2>2. InFlight = {}
    BY <2>1, FS_EmptySet, FS_CardinalityType
  <2> QED BY <2>2 DEF InFlight
<1>3. op'[o] = state /\ \A s \in Slots \ {o} : op'[s] = op[s]
  BY <1>1 DEF Begin
<1>4. UNCHANGED <<jobs, emb, clock>>
  BY DEF Begin, dbVars
<1>5. HoldsCurrent(o)'
  BY <1>1, <1>3, <1>4 DEF HoldsCurrent, WorkRow
<1> QED BY <1>1, <1>2, <1>3, <1>4, <1>5, TablesStay, AloneSteps

LEMMA SerialStep ==
  ASSUME SerialInv, [Next]_vars, IsFiniteSet(Slots), MaxActive = 1
  PROVE  SerialInv'
<1>i. IdInv /\ IdInv' /\ TypeOK /\ TypeOK'
  BY IdStep DEF SerialInv, IdInv
<1>t. /\ op \in [Slots -> OpStates] /\ clock \in Nat /\ clock' \in Nat
      /\ \A e \in emb : e.at \in Nat
      /\ \A k \in Keys : jobs[k].updated \in Nat
  BY <1>i DEF TypeOK, EmbeddingRows, JobRows
<1>0. CASE UNCHANGED vars
  BY <1>0, <1>i DEF vars, dbVars, SerialInv, OneAtATime, HoldsCurrent, FreshOrOld,
                    NoneFromTheFuture
<1>1. CASE Crash
  <2>1. UNCHANGED <<jobs, emb, clock>>
    BY <1>1 DEF Crash, dbVars
  <2>2. \A s \in Slots : op'[s] \in {op[s], Idle}
    BY <1>1 DEF Crash
  <2>3. OneAtATime'
    BY <2>2 DEF SerialInv, OneAtATime, Idle
  <2>4. \A s \in Slots : HoldsCurrent(s)'
    BY <1>t, <2>1, <2>2 DEF SerialInv, HoldsCurrent, Idle
  <2> QED BY <1>i, <1>t, <2>1, <2>3, <2>4, TablesStay DEF SerialInv
<1>2. ASSUME NEW o \in Slots, Step(o) PROVE SerialInv'
  <2>0. op[o] \in OpStates /\ SettingsOf(o) \in Embedders
    BY <1>i, <1>t DEF TypeOK, SettingsOf, ProcOf, Procs
  <2>1. CASE StartPipeline(o)
    <3>1. [Idle EXCEPT !.pc = "bronze", !.dim = Dim[SettingsOf(o)]] \in OpStates
      BY <2>0, IdleType, EmbedderAssumption DEF OpStates, PCs
    <3> QED BY <1>i, <2>1, <3>1, BeginsAlone DEF StartPipeline, Idle
  <2>2. CASE StartEmbed(o)
    <3>1. [Idle EXCEPT !.pc = "current", !.dim = Dim[SettingsOf(o)]] \in OpStates
      BY <2>0, IdleType, EmbedderAssumption DEF OpStates, PCs
    <3> QED BY <1>i, <2>2, <3>1, BeginsAlone DEF StartEmbed, Idle
  <2>3. CASE StartRebuild(o)
    <3>1. [Idle EXCEPT !.pc = "deleteAll"] \in OpStates
      BY IdleType DEF OpStates, PCs
    <3> QED BY <1>i, <2>3, <3>1, BeginsAlone DEF StartRebuild, Idle
  <2>4. CASE StartSwitch(o)
    <3>1. PICK target \in Targets(o) :
            Begin(o, "switch", [Idle EXCEPT !.pc = "config", !.embedder = target])
      BY <2>4 DEF StartSwitch
    <3>2. [Idle EXCEPT !.pc = "config", !.embedder = target] \in OpStates
      BY IdleType DEF OpStates, PCs, Targets
    <3> QED BY <1>i, <3>1, <3>2, BeginsAlone DEF Idle
  <2>5. CASE StartDelete(o)
    <3>1. PICK k \in Keys :
            /\ jobs[k] # NoJob
            /\ Begin(o, "delete", [Idle EXCEPT !.pc = "delRow", !.rows = {WorkRow(k)}])
      BY <2>5 DEF StartDelete
    <3> DEFINE state == [Idle EXCEPT !.pc = "delRow", !.rows = {WorkRow(k)}]
    <3>2. state \in OpStates
      BY <1>i, <3>1, IdleType, WorkRowType DEF OpStates, PCs
    <3>3. state.at = 0 /\ state.pc = "delRow" /\ state.rows = {WorkRow(k)}
      BY DEF Idle
    <3> HIDE DEF state
    <3> QED BY <1>i, <3>1, <3>2, <3>3, BeginsAlone DEF state
  <2> DEFINE Own == op[o].pc # "idle" /\ \A s \in Slots \ {o} : op'[s] = op[s]
  <2>a. ASSUME Own, clock <= clock',
               HoldsCurrent(o)', FreshOrOld', NoneFromTheFuture'
        PROVE  SerialInv'
    <3>1. \A s \in Slots \ {o} : op[s].pc = "idle"
      BY <2>a DEF SerialInv, OneAtATime
    <3> QED BY <1>i, <2>a, <3>1, AloneSteps
  \* A step that changes no table leaves only its own slot to be looked at.
  <2>b. ASSUME Own, UNCHANGED <<jobs, emb>>, clock <= clock', HoldsCurrent(o)'
        PROVE  SerialInv'
    BY <1>t, <2>a, <2>b, TablesStay
  <2>6. CASE Bronze(o)
    <3>1. Own /\ UNCHANGED <<jobs, emb, clock>> /\ op'[o].pc = "silverRead" /\ op'[o].at = op[o].at
      BY <2>6, <2>0, <1>t DEF Bronze, Goto, OpStates
    <3>2. HoldsCurrent(o)'
      BY <3>1 DEF SerialInv, HoldsCurrent
    <3> QED BY <1>t, <2>b, <3>1, <3>2
  <2>7. CASE SilverRead(o)
    <3>1. /\ Own /\ UNCHANGED <<jobs, emb, clock>>
          /\ op'[o].pc \in {"current", "silverStamp"} /\ op'[o].at = op[o].at
      BY <2>7, <2>0, <1>t DEF SilverRead, OpStates, dbVars
    <3>2. HoldsCurrent(o)'
      BY <3>1 DEF SerialInv, HoldsCurrent
    <3> QED BY <1>t, <2>b, <3>1, <3>2
  <2>8. CASE SilverStamp(o)
    <3>1. /\ Own /\ UNCHANGED <<jobs, emb>> /\ clock' = clock + 1
          /\ op[o].pc = "silverStamp" /\ op'[o].pc = "silverCommit" /\ op'[o].at = clock + 1
      BY <2>8, <2>0, <1>t DEF SilverStamp, OpStates, dbVars
    <3>2. HoldsCurrent(o)'
      BY <1>t, <3>1 DEF SerialInv, HoldsCurrent, NoneFromTheFuture
    <3> QED BY <1>t, <2>b, <3>1, <3>2
  <2>9. CASE SilverCommit(o)
    <3> DEFINE t == op[o]
               kept == Kept(t.seen)
               new == {k \in kept : jobs[k] = NoJob}
    <3>1. PICK ids \in NewIds(new) :
            jobs' = [k \in Keys |->
                      IF k \notin kept THEN jobs[k]
                      ELSE [id |-> IF k \in new THEN ids[k] ELSE jobs[k].id,
                            payload |-> t.seen[k],
                            updated |-> UpdatedAt(k, t.seen[k], t.at)]]
      BY <2>9 DEF SilverCommit
    <3>2. /\ Own /\ UNCHANGED <<emb, clock>>
          /\ t.pc = "silverCommit" /\ op'[o].pc = "current" /\ op'[o].at = 0
      BY <2>9, <2>0, <1>t DEF SilverCommit, OpStates, Idle
    <3>3. \A e \in emb : e.at < t.at
      BY <3>2 DEF SerialInv, HoldsCurrent
    <3>4. HoldsCurrent(o)'
      BY <1>t, <3>2 DEF HoldsCurrent
    <3>5. FreshOrOld'
      <4> SUFFICES ASSUME NEW e \in emb, NEW k \in Keys, jobs'[k] # NoJob, e.job = jobs'[k].id
                   PROVE  e.at < jobs'[k].updated \/ e.text = FullText[jobs'[k].payload]
        BY <3>2 DEF FreshOrOld
      <4>1. CASE k \notin kept
        BY <3>1, <4>1 DEF SerialInv, FreshOrOld
      <4>2. CASE k \in kept /\ (k \in new \/ FullText[jobs[k].payload] # FullText[t.seen[k]])
        <5>1. jobs'[k].updated = t.at
          BY <3>1, <4>2 DEF UpdatedAt
        <5> QED BY <3>3, <5>1
      <4>3. CASE k \in kept /\ k \notin new /\ FullText[jobs[k].payload] = FullText[t.seen[k]]
        <5>1. /\ jobs[k] # NoJob /\ jobs'[k].id = jobs[k].id /\ jobs'[k].updated = jobs[k].updated
              /\ jobs'[k].payload = t.seen[k]
          BY <3>1, <4>3 DEF UpdatedAt
        <5> QED BY <4>3, <5>1 DEF SerialInv, FreshOrOld
      <4> QED BY <4>1, <4>2, <4>3
    <3>6. NoneFromTheFuture'
      BY <3>2 DEF SerialInv, NoneFromTheFuture
    <3> QED BY <1>t, <2>a, <3>2, <3>4, <3>5, <3>6
  <2>10. CASE GoldCurrent(o) \/ SwitchConfig(o) \/ SwitchSwap(o)
    <3>1. /\ Own /\ UNCHANGED <<jobs, emb, clock>>
          /\ op'[o].pc \in {"pending", "swap", "deleteAll"} /\ op'[o].at \in {op[o].at, 0}
      BY <2>10, <2>0, <1>t DEF GoldCurrent, SwitchConfig, SwitchSwap, Goto, OpStates, Idle, dbVars
    <3>2. HoldsCurrent(o)'
      BY <1>t, <3>1 DEF SerialInv, HoldsCurrent
    <3> QED BY <1>t, <2>b, <3>1, <3>2
  <2>11. CASE GoldPending(o)
    <3> DEFINE todo == {k \in Keys : IsPending(k, ModelKey[op[o].embedder])}
    <3>1. Own /\ UNCHANGED <<jobs, emb, clock>>
      BY <2>11, <1>t DEF GoldPending, Finish, dbVars
    <3>2. CASE Finish(o)
      BY <1>t, <2>b, <3>1, <3>2 DEF Finish, Idle, HoldsCurrent
    <3>3. CASE op' = [op EXCEPT ![o].rows = {WorkRow(k) : k \in todo}, ![o].pc = "embed"]
      <4>1. op'[o].pc = "embed" /\ op'[o].at = op[o].at /\ op'[o].rows = {WorkRow(k) : k \in todo}
        BY <2>0, <1>t, <3>3 DEF OpStates
      <4>2. \A r \in op'[o].rows :
              /\ jobs[r.key] # NoJob /\ jobs[r.key].id = r.job
              /\ r.text = FullText[jobs[r.key].payload]
        BY <4>1 DEF WorkRow, IsPending
      <4>3. HoldsCurrent(o)'
        BY <3>1, <4>1, <4>2 DEF SerialInv, HoldsCurrent
      <4> QED BY <1>t, <2>b, <3>1, <4>3
    <3> QED BY <2>11, <3>2, <3>3 DEF GoldPending
  <2>12. CASE GoldEmbed(o)
    <3>1. /\ Own /\ UNCHANGED <<jobs, emb>> /\ clock' = clock + 1
          /\ op[o].pc = "embed" /\ op'[o].pc = "commit" /\ op'[o].at = clock + 1
          /\ op'[o].rows = op[o].rows
      BY <2>12, <2>0, <1>t DEF GoldEmbed, OpStates, dbVars
    <3>2. HoldsCurrent(o)'
      BY <1>t, <3>1 DEF SerialInv, HoldsCurrent
    <3> QED BY <1>t, <2>b, <3>1, <3>2
  <2>13. CASE GoldCommit(o)
    <3>1. /\ Own /\ UNCHANGED <<jobs, clock>> /\ op[o].pc = "commit"
          /\ op'[o] = Idle
          /\ emb' = {e \in emb : e.job \notin {r.job : r \in op[o].rows}} \cup NewEmbeddings(o)
      BY <2>13, <1>t DEF GoldCommit, Finish
    <3>2. \A r \in op[o].rows : /\ r.key \in Keys /\ jobs[r.key] # NoJob
                                /\ jobs[r.key].id = r.job
                                /\ r.text = FullText[jobs[r.key].payload]
      BY <2>0, <3>1 DEF SerialInv, HoldsCurrent, OpStates, WorkRows
    <3>3. ASSUME NEW e \in NewEmbeddings(o), NEW k \in Keys, jobs[k] # NoJob, e.job = jobs[k].id
          PROVE  e.text = FullText[jobs[k].payload]
      <4>1. PICK r \in op[o].rows : e.job = r.job /\ e.text = r.text
        BY DEF NewEmbeddings
      <4>2. k = r.key
        BY <1>i, <3>2, <3>3, <4>1 DEF IdInv, IdsUnique
      <4> QED BY <3>2, <4>1, <4>2
    <3>4. FreshOrOld'
      BY <3>1, <3>3 DEF SerialInv, FreshOrOld
    <3>5. NoneFromTheFuture'
      <4>1. \A e \in NewEmbeddings(o) : e.at <= clock
        BY DEF NewEmbeddings, SerialInv, HoldsCurrent
      <4> QED BY <3>1, <4>1 DEF SerialInv, NoneFromTheFuture
    <3> QED BY <1>t, <2>a, <3>1, <3>4, <3>5 DEF HoldsCurrent, Idle
  <2>14. CASE DeleteAll(o)
    <3>1. /\ Own /\ UNCHANGED <<jobs, clock>> /\ emb' = {}
          /\ op'[o].pc = "current" /\ op'[o].at = 0
      BY <2>14, <2>0, <1>t DEF DeleteAll, OpStates, Idle
    <3>2. FreshOrOld' /\ NoneFromTheFuture'
      BY <3>1 DEF SerialInv, FreshOrOld, NoneFromTheFuture
    <3> QED BY <1>t, <2>a, <3>1, <3>2 DEF HoldsCurrent
  <2>15. CASE DeleteRow(o)
    <3>1. PICK r \in op[o].rows :
            /\ jobs' = [k \in Keys |-> IF jobs[k].id = r.job THEN NoJob ELSE jobs[k]]
            /\ emb' = {e \in emb : e.job # r.job}
      BY <2>15 DEF DeleteRow
    <3>2. /\ Own /\ UNCHANGED clock /\ op[o].pc = "delRow"
          /\ op'[o].pc = "delRaw" /\ op'[o].at = op[o].at /\ op'[o].rows = op[o].rows
      BY <2>15, <2>0, <1>t DEF DeleteRow, Goto, OpStates
    <3>3. \A s \in op[o].rows : s = r /\ s.key \in Keys /\ jobs[s.key].id = r.job
      BY <2>0, <3>2 DEF SerialInv, HoldsCurrent, OpStates, WorkRows
    <3>4. HoldsCurrent(o)'
      BY <3>1, <3>2, <3>3 DEF SerialInv, HoldsCurrent
    <3>5. FreshOrOld' /\ NoneFromTheFuture'
      BY <3>1, <3>2 DEF SerialInv, FreshOrOld, NoneFromTheFuture
    <3> QED BY <1>t, <2>a, <3>2, <3>4, <3>5
  <2>16. CASE DeleteRaw(o)
    <3>1. Own /\ UNCHANGED <<jobs, emb, clock>> /\ op'[o] = Idle
      BY <2>16, <1>t DEF DeleteRaw, Finish
    <3> QED BY <1>t, <2>b, <3>1 DEF HoldsCurrent, Idle
  <2>17. CASE Fail(o)
    <3>1. Own /\ UNCHANGED <<jobs, emb, clock>> /\ op'[o] = Idle
      BY <2>17, <1>t DEF Fail, Finish, dbVars
    <3> QED BY <1>t, <2>b, <3>1 DEF HoldsCurrent, Idle
  <2> QED
    BY <1>2, <2>1, <2>2, <2>3, <2>4, <2>5, <2>6, <2>7, <2>8, <2>9, <2>10, <2>11, <2>12,
       <2>13, <2>14, <2>15, <2>16, <2>17 DEF Step
<1> QED BY <1>0, <1>1, <1>2 DEF Next

LEMMA SerialInit == Init => SerialInv
<1> SUFFICES ASSUME Init PROVE SerialInv
  OBVIOUS
<1>1. \A o \in Slots : op[o] = Idle
  BY DEF Init
<1>2. OneAtATime /\ \A o \in Slots : HoldsCurrent(o)
  BY <1>1 DEF Init, OneAtATime, HoldsCurrent, Idle
<1>3. FreshOrOld /\ NoneFromTheFuture
  BY DEF Init, FreshOrOld, NoneFromTheFuture
<1> QED BY <1>2, <1>3, IdInit DEF SerialInv

LEMMA SerialAlways ==
  ASSUME IsFiniteSet(Slots), MaxActive = 1
  PROVE  Spec => []SerialInv
<1>1. SerialInv /\ [Next]_vars => SerialInv'
  BY SerialStep
<1> QED BY <1>1, SerialInit, PTL DEF Spec

\* With operations one after another, whatever fails or crashes between their steps, a
\* posting that no Gold would pick up is embedded from its current text. Overlap is the
\* only way to a stale vector: medallion_stale shows one with two operations.
THEOREM FreshWithoutOverlap ==
  ASSUME IsFiniteSet(Slots), MaxActive = 1
  PROVE  Spec => []FreshUnlessPending
<1>1. SerialInv => FreshUnlessPending
  <2> SUFFICES ASSUME SerialInv, NEW k \in Keys, NEW l \in Labels, jobs[k] # NoJob,
                      ~IsPending(k, l)
               PROVE  \E e \in emb : e.job = jobs[k].id /\ e.text = FullText[jobs[k].payload]
    BY DEF FreshUnlessPending
  <2>1. PICK e \in emb : e.job = jobs[k].id /\ ~(e.at < jobs[k].updated)
    BY DEF IsPending, Outdated
  <2> QED BY <2>1 DEF SerialInv, FreshOrOld
<1> QED BY <1>1, SerialAlways, PTL

=============================================================================

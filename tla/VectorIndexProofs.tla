------------------------- MODULE VectorIndexProofs -------------------------
(***************************************************************************)
(* For any threads, postings, pool and bounds: the index is well typed,    *)
(* its mutex and connections are never taken beyond what there is, and a   *)
(* search never shows less than what was known when it arrived.            *)
(***************************************************************************)
EXTENDS VectorIndex, FiniteSetTheorems, TLAPS

ThreadRec == [kind : Writes \cup {"search", "none"}, pc : PCs, rows : SUBSET Ids,
              wrote : 0 .. MaxWrites, got : Tables \cup {NotLoaded}, floor : 0 .. MaxWrites]

Typed ==
  /\ jobs \subseteq Ids
  /\ table \in Tables
  /\ cache \in Tables \cup {NotLoaded}
  /\ mu \in SUBSET Threads
  /\ conns \in SUBSET Threads
  /\ th \in [Threads -> ThreadRec]
  /\ failures \in 0 .. MaxFailures
  /\ known \in 0 .. MaxWrites

PoolLimit == IsFiniteSet(conns) /\ Cardinality(conns) <= Pool

Loading == {"cached", "loadConn", "load", "fill"}

\* Whoever is inside snapshot is alone with the mutex.
MutexIsHeld ==
  /\ \A t \in Threads : th[t].pc \in Loading <=> t \in mu
  /\ \A t, u \in mu : t = u
  /\ \A t \in Threads : At(t, "cached") => cache # NotLoaded

\* Nothing is ahead of the table.
BehindTable ==
  /\ known <= table.ver /\ cache.ver <= table.ver
  /\ \A t \in Threads :
       th[t].floor <= known /\ th[t].wrote <= table.ver /\ th[t].got.ver <= table.ver

\* A table state that holds what is known and what the searches under way have seen.
Covers(state) ==
  /\ state.ver >= known
  /\ \A t \in Threads : At(t, "hydrate") => state.ver >= th[t].got.ver

\* A loaded index covers, and so does what is about to become the index.
IndexCovers ==
  /\ cache # NotLoaded => Covers(cache)
  /\ \A t \in Threads : At(t, "fill") => Covers(th[t].got) /\ th[t].got # NotLoaded

IndexInv ==
  Typed /\ PoolLimit /\ MutexIsHeld /\ BehindTable /\ IndexCovers /\ SearchSeesWhatWasKnown

-----------------------------------------------------------------------------

LEMMA NotLoadedIsOld == NotLoaded.ver = -1 /\ NotLoaded.rows = {}
  BY DEF NotLoaded

LEMMA IdleThread ==
  /\ Idle \in ThreadRec
  /\ Idle.pc = "idle" /\ Idle.wrote = 0 /\ Idle.floor = 0 /\ Idle.got.ver = -1
<1>1. NotLoaded \in Tables \cup {NotLoaded} /\ 0 \in 0 .. MaxWrites
  BY IndexConstants
<1>2. Idle \in ThreadRec
  BY <1>1 DEF Idle, ThreadRec, PCs
<1> QED BY <1>2 DEF Idle, NotLoaded

LEMMA Versions == \A s \in Tables \cup {NotLoaded} : s.ver \in Int
  BY IndexConstants DEF Tables, NotLoaded

\* The pool gives out no more connections than it has.
LEMMA PoolStep == IndexInv /\ [Next]_vars => PoolLimit'
<1> SUFFICES ASSUME IndexInv, [Next]_vars PROVE PoolLimit'
  OBVIOUS
<1>. Cardinality(conns) \in Nat /\ Pool \in Nat \ {0}
  BY IndexConstants, FS_CardinalityType DEF IndexInv, PoolLimit
<1>1. CASE conns' = conns
  BY <1>1 DEF IndexInv, PoolLimit
<1>2. ASSUME NEW t \in Threads, TakeConn(t)
      PROVE  PoolLimit'
  <2>1. conns' = conns \cup {t} /\ Cardinality(conns) < Pool
    BY <1>2 DEF TakeConn
  <2>2. IsFiniteSet(conns)
    BY DEF IndexInv, PoolLimit
  <2> QED BY <2>1, <2>2, FS_AddElement DEF PoolLimit
<1>3. ASSUME NEW t \in Threads, conns' = conns \ {t}
      PROVE  PoolLimit'
  BY <1>3, FS_RemoveElement DEF IndexInv, PoolLimit
<1>4. CASE conns' = {}
  BY <1>4, FS_EmptySet DEF PoolLimit
<1> QED
  BY <1>1, <1>2, <1>3, <1>4
  DEF Next, vars, CallSearch, CallWrite, Acquire, Invalidate, LockSnapshot, Hydrate, Proceed,
      Commit, DeleteRaw, WriteFails, UseCache, Load, Fill, LoadFails, HydrateFails, InsertJob, CliWrite,
      Restart

\* Thread t goes on from outside snapshot to outside snapshot, or stays inside without
\* reading or filling anything; the index and the mutex stay as they are.
LEMMA QuietStep ==
  ASSUME IndexInv, NEW t \in Threads, NEW rec \in ThreadRec,
         th' = [th EXCEPT ![t] = rec],
         rec.pc \in Loading <=> th[t].pc \in Loading,
         rec.pc \notin {"cached", "fill", "hydrate"},
         rec.floor <= known, rec.wrote <= table'.ver, rec.got.ver <= table'.ver,
         UNCHANGED <<mu, cache>>, known' = known,
         table.ver <= table'.ver, table' \in Tables
  PROVE  MutexIsHeld' /\ BehindTable' /\ IndexCovers' /\ SearchSeesWhatWasKnown'
<1> USE DEF IndexInv
<1>1. th'[t] = rec /\ \A u \in Threads \ {t} : th'[u] = th[u]
  BY DEF Typed
<1>2. MutexIsHeld'
  BY <1>1 DEF MutexIsHeld, At
<1>3. BehindTable'
  <2>1. table.ver \in Int /\ table'.ver \in Int /\ known \in Int /\ cache.ver \in Int
    BY IndexConstants, Versions DEF Typed, Tables
  <2>2. \A u \in Threads : th[u].wrote \in Int /\ th[u].got.ver \in Int
    BY IndexConstants, Versions DEF Typed, ThreadRec
  <2> QED BY <1>1, <2>1, <2>2 DEF BehindTable
<1>4. IndexCovers'
  BY <1>1 DEF IndexCovers, Covers, At
<1>5. SearchSeesWhatWasKnown'
  BY <1>1 DEF SearchSeesWhatWasKnown, At
<1> QED BY <1>2, <1>3, <1>4, <1>5

\* A call outside snapshot returns with ver, which the index covers if it is loaded.
LEMMA ReturnStep ==
  ASSUME IndexInv, NEW t \in Threads, NEW ver \in Int, Return(t, ver),
         ver <= table'.ver, th[t].pc \in Loading <=> (t \in mu /\ t \notin mu'),
         mu' \in {mu, {}}, mu' = mu \/ mu = {t},
         ver <= known \/ (\A u \in Threads : ~At(u, "fill") \/ th[u].got.ver >= ver),
         cache' = NotLoaded \/ (cache' = cache /\ (ver <= known \/ cache.ver >= ver)),
         cache' = NotLoaded => mu' = {} \/ cache = NotLoaded,
         UNCHANGED table
  PROVE  MutexIsHeld' /\ BehindTable' /\ IndexCovers' /\ SearchSeesWhatWasKnown'
<1> USE DEF IndexInv
<1>1. th'[t] = Idle /\ \A u \in Threads \ {t} : th'[u] = th[u]
  BY DEF Typed, Return
<1>2. /\ table.ver \in Int /\ known \in Int /\ cache.ver \in Int
      /\ \A u \in Threads : /\ th[u].floor \in Int /\ th[u].wrote \in Int
                            /\ th[u].got.ver \in Int
  BY IndexConstants, Versions DEF Typed, ThreadRec, Tables
<1>3. known' = IF ver > known THEN ver ELSE known
  BY DEF Return
<1>4. /\ Idle.pc = "idle" /\ Idle.floor = 0 /\ Idle.wrote = 0 /\ Idle.got.ver = -1
      /\ known >= 0 /\ table.ver >= 0
  BY IndexConstants DEF Idle, NotLoaded, Typed, Tables
<1>5. MutexIsHeld'
  BY <1>1, <1>4 DEF MutexIsHeld, Loading, At
<1>6. BehindTable'
  <2>1. cache'.ver <= table.ver
    BY <1>2, <1>4, NotLoadedIsOld DEF BehindTable
  <2> QED BY <1>1, <1>2, <1>3, <1>4, <2>1 DEF BehindTable
<1>7. IndexCovers'
  BY <1>1, <1>2, <1>3, <1>4 DEF IndexCovers, Covers, At
<1>8. SearchSeesWhatWasKnown'
  BY <1>1, <1>2, <1>4 DEF SearchSeesWhatWasKnown, At
<1> QED BY <1>5, <1>6, <1>7, <1>8

-----------------------------------------------------------------------------

LEMMA TypedStep == IndexInv /\ [Next]_vars => Typed'
<1> SUFFICES ASSUME IndexInv, [Next]_vars PROVE Typed'
  OBVIOUS
<1> USE DEF Typed, ThreadRec
<1>. Typed
  BY DEF IndexInv
<1>1. CASE UNCHANGED vars
  BY <1>1 DEF vars
<1>2. ASSUME NEW t \in Threads, CallSearch(t) PROVE Typed'
  <2>1. [Idle EXCEPT !.kind = "search", !.pc = "lock", !.floor = known] \in ThreadRec
    BY IdleThread DEF PCs
  <2> QED BY <1>2, <2>1 DEF CallSearch
<1>3. ASSUME NEW t \in Threads, CallWrite(t) PROVE Typed'
  <2>1. PICK kind \in Writes, rows \in SUBSET jobs :
          th' = [th EXCEPT ![t] = [Idle EXCEPT !.kind = kind, !.pc = "conn", !.rows = rows]]
    BY <1>3 DEF CallWrite
  <2>2. [Idle EXCEPT !.kind = kind, !.pc = "conn", !.rows = rows] \in ThreadRec
    BY IdleThread DEF PCs
  <2> QED BY <1>3, <2>1, <2>2 DEF CallWrite
<1>4. ASSUME NEW t \in Threads, TakeConn(t) PROVE Typed'
  BY <1>4 DEF TakeConn, Goto, PCs
<1>5. ASSUME NEW t \in Threads, NEW ver \in 0 .. MaxWrites \cup {-1}, Return(t, ver),
             jobs' \subseteq Ids, table' \in Tables, cache' \in Tables \cup {NotLoaded},
             mu' \subseteq Threads, conns' \subseteq Threads, failures' \in 0 .. MaxFailures
      PROVE  Typed'
  BY <1>5, IndexConstants DEF Return, Idle, PCs
<1>6. ASSUME NEW t \in Threads, Invalidate(t) PROVE Typed'
  BY <1>5, <1>6 DEF Invalidate
<1>7. ASSUME NEW t \in Threads, LockSnapshot(t) PROVE Typed'
  BY <1>7 DEF LockSnapshot, Goto, PCs
<1>8. ASSUME NEW t \in Threads, Hydrate(t) PROVE Typed'
  BY <1>5, <1>8 DEF Hydrate, Tables, NotLoaded
<1>9. ASSUME NEW t \in Threads, Commit(t) PROVE Typed'
  <2>1. th[t].rows \subseteq Ids /\ table.rows \subseteq Ids /\ table.ver + 1 \in 0 .. MaxWrites
    BY <1>9, IndexConstants DEF Commit, Tables
  <2>2. table' \in Tables
    BY <1>9, <2>1 DEF Commit, Written, Tables
  <2>3. \A pc \in PCs : [th[t] EXCEPT !.wrote = table.ver + 1, !.pc = pc] \in ThreadRec
    BY <2>1
  <2>4. PICK pc \in PCs : th' = [th EXCEPT ![t] = [th[t] EXCEPT !.wrote = table.ver + 1, !.pc = pc]]
    BY <1>9 DEF Commit, PCs
  <2>5. th' \in [Threads -> ThreadRec]
    BY <2>3, <2>4
  <2> QED BY <1>9, <2>2, <2>5 DEF Commit
<1>10. ASSUME NEW t \in Threads, DeleteRaw(t) PROVE Typed'
  BY <1>10 DEF DeleteRaw, Goto, PCs
<1>11. ASSUME NEW t \in Threads, WriteFails(t) PROVE Typed'
  BY <1>5, <1>11, IndexConstants DEF WriteFails
<1>12. ASSUME NEW t \in Threads, UseCache(t) PROVE Typed'
  <2>1. [th[t] EXCEPT !.got = cache, !.pc = "hydrate"] \in ThreadRec
    BY DEF PCs
  <2> QED BY <1>12, <2>1 DEF UseCache
<1>13. ASSUME NEW t \in Threads, Load(t) PROVE Typed'
  <2>1. [th[t] EXCEPT !.got = table, !.pc = "fill"] \in ThreadRec
    BY DEF PCs
  <2> QED BY <1>13, <2>1 DEF Load
<1>14. ASSUME NEW t \in Threads, Fill(t) PROVE Typed'
  BY <1>14 DEF Fill, Goto, PCs
<1>15. ASSUME NEW t \in Threads, LoadFails(t) PROVE Typed'
  BY <1>5, <1>15, IndexConstants DEF LoadFails
<1>16. ASSUME NEW t \in Threads, HydrateFails(t) PROVE Typed'
  BY <1>5, <1>16, IndexConstants DEF HydrateFails
<1>17. CASE InsertJob \/ CliWrite
  BY <1>17, IndexConstants DEF InsertJob, CliWrite, Tables
<1>18. CASE Restart
  BY <1>18, IndexConstants DEF Restart, Idle, PCs
<1> QED
  BY <1>1, <1>2, <1>3, <1>4, <1>6, <1>7, <1>8, <1>9, <1>10, <1>11, <1>12, <1>13, <1>14, <1>15,
     <1>17, <1>18, <1>16 DEF Next, Acquire, Proceed

-----------------------------------------------------------------------------

LEMMA IndexInit == Init => IndexInv
<1> SUFFICES ASSUME Init PROVE IndexInv
  OBVIOUS
<1>1. \A t \in Threads : th[t] = Idle
  BY DEF Init
<1>2. Typed
  BY IndexConstants DEF Init, Typed, ThreadRec, Idle, Tables, PCs
<1>3. PoolLimit
  BY FS_EmptySet, IndexConstants DEF Init, PoolLimit
<1>4. MutexIsHeld /\ BehindTable /\ IndexCovers /\ SearchSeesWhatWasKnown
  BY <1>1 DEF Init, Idle, NotLoaded, Loading, At, MutexIsHeld, BehindTable, IndexCovers,
              SearchSeesWhatWasKnown
<1> QED BY <1>2, <1>3, <1>4 DEF IndexInv

LEMMA IndexStep ==
  IndexInv /\ [Next]_vars => MutexIsHeld' /\ BehindTable' /\ IndexCovers' /\ SearchSeesWhatWasKnown'
<1> DEFINE Goal == MutexIsHeld' /\ BehindTable' /\ IndexCovers' /\ SearchSeesWhatWasKnown'
<1> SUFFICES ASSUME IndexInv, [Next]_vars PROVE Goal
  OBVIOUS
<1> USE DEF IndexInv
<1>. Typed'
  BY TypedStep
<1>a. /\ table.ver \in Int /\ known \in Int /\ cache.ver \in Int /\ table.ver >= 0 /\ known >= 0
      /\ \A u \in Threads : /\ th[u].floor \in Int /\ th[u].wrote \in Int
                            /\ th[u].got.ver \in Int
  BY IndexConstants, Versions DEF Typed, ThreadRec, Tables
<1>b. table' \in Tables
  BY DEF Typed
<1>1. CASE UNCHANGED vars
  BY <1>1 DEF vars, MutexIsHeld, BehindTable, IndexCovers, Covers, SearchSeesWhatWasKnown, At
<1>2. ASSUME NEW t \in Threads, CallSearch(t) PROVE Goal
  <2> DEFINE rec == [Idle EXCEPT !.kind = "search", !.pc = "lock", !.floor = known]
  <2>1. /\ rec \in ThreadRec /\ rec.pc = "lock" /\ rec.floor = known /\ rec.wrote = 0
        /\ rec.got.ver = -1
    BY IdleThread DEF PCs, ThreadRec, Typed
  <2>2. th' = [th EXCEPT ![t] = rec] /\ UNCHANGED <<table, cache, mu, known>>
    BY <1>2 DEF CallSearch
  <2>3. At(t, "idle")
    BY <1>2 DEF CallSearch
  <2> HIDE DEF rec
  <2>4. (rec.pc \in Loading <=> th[t].pc \in Loading) /\ rec.pc \notin {"cached", "fill", "hydrate"}
    BY <2>1, <2>2, <2>3 DEF At, Loading
  <2>5. /\ rec.floor <= known /\ rec.wrote <= table'.ver /\ rec.got.ver <= table'.ver
        /\ table.ver <= table'.ver
    BY <1>a, <2>1, <2>2, <2>3
  <2> QED BY <1>b, <2>1, <2>2, <2>3, <2>4, <2>5, QuietStep
<1>3. ASSUME NEW t \in Threads, CallWrite(t) PROVE Goal
  <2>1. PICK kind \in Writes, rows \in SUBSET jobs :
          th' = [th EXCEPT ![t] = [Idle EXCEPT !.kind = kind, !.pc = "conn", !.rows = rows]]
    BY <1>3 DEF CallWrite
  <2> DEFINE rec == [Idle EXCEPT !.kind = kind, !.pc = "conn", !.rows = rows]
  <2>2. /\ rec \in ThreadRec /\ rec.pc = "conn" /\ rec.floor = 0 /\ rec.wrote = 0
        /\ rec.got.ver = -1
    BY IdleThread DEF PCs, ThreadRec, Typed
  <2>3. th' = [th EXCEPT ![t] = rec] /\ UNCHANGED <<table, cache, mu, known>> /\ At(t, "idle")
    BY <1>3, <2>1 DEF CallWrite
  <2> HIDE DEF rec
  <2>4. (rec.pc \in Loading <=> th[t].pc \in Loading) /\ rec.pc \notin {"cached", "fill", "hydrate"}
    BY <2>2, <2>3 DEF At, Loading
  <2>5. /\ rec.floor <= known /\ rec.wrote <= table'.ver /\ rec.got.ver <= table'.ver
        /\ table.ver <= table'.ver
    BY <1>a, <2>2, <2>3
  <2> QED BY <1>b, <2>2, <2>3, <2>4, <2>5, QuietStep
<1>4. ASSUME NEW t \in Threads, TakeConn(t) PROVE Goal
  <2> DEFINE rec == th'[t]
  <2>1. /\ rec \in ThreadRec /\ rec.floor = th[t].floor /\ rec.wrote = th[t].wrote
        /\ rec.got = th[t].got /\ rec.pc \in {"statement", "raw", "load"}
        /\ rec.pc = "load" <=> At(t, "loadConn")
    BY <1>4 DEF TakeConn, Goto, Typed, ThreadRec, At
  <2>2. th' = [th EXCEPT ![t] = rec] /\ UNCHANGED <<table, cache, mu, known>>
        /\ th[t].pc \in {"conn", "rawConn", "loadConn"}
    BY <1>4 DEF TakeConn, Goto, Typed
  <2>3. th[t].floor <= known /\ th[t].wrote <= table.ver /\ th[t].got.ver <= table.ver
    BY DEF BehindTable
  <2> HIDE DEF rec
  <2>4. (rec.pc \in Loading <=> th[t].pc \in Loading) /\ rec.pc \notin {"cached", "fill", "hydrate"}
    BY <2>1, <2>2, <2>3 DEF At, Loading
  <2>5. /\ rec.floor <= known /\ rec.wrote <= table'.ver /\ rec.got.ver <= table'.ver
        /\ table.ver <= table'.ver
    BY <1>a, <2>1, <2>2, <2>3
  <2> QED BY <1>b, <2>1, <2>2, <2>3, <2>4, <2>5, QuietStep
<1>5. ASSUME NEW t \in Threads, Invalidate(t) PROVE Goal
  <2>1. At(t, "lock") /\ mu = {} /\ mu' = mu /\ cache' = NotLoaded /\ Return(t, th[t].wrote)
        /\ UNCHANGED table
    BY <1>5 DEF Invalidate
  <2>2. \A u \in Threads : ~At(u, "fill")
    BY <2>1 DEF MutexIsHeld, Loading, At
  <2>3. th[t].wrote <= table.ver
    BY DEF BehindTable
  <2> QED BY <1>a, <2>1, <2>2, <2>3, ReturnStep DEF At, Loading
<1>6. ASSUME NEW t \in Threads, LockSnapshot(t) PROVE Goal
  <2>1. /\ At(t, "lock") /\ mu = {} /\ mu' = {t} /\ UNCHANGED <<table, cache, known>>
        /\ th' = [th EXCEPT ![t].pc = IF cache = NotLoaded THEN "loadConn" ELSE "cached"]
    BY <1>6 DEF LockSnapshot, Goto
  <2>2. /\ \A u \in Threads \ {t} : th'[u] = th[u]
        /\ th'[t].pc = IF cache = NotLoaded THEN "loadConn" ELSE "cached"
        /\ th'[t].floor = th[t].floor /\ th'[t].wrote = th[t].wrote /\ th'[t].got = th[t].got
    BY <2>1 DEF Typed, ThreadRec
  <2>3. MutexIsHeld'
    BY <2>1, <2>2 DEF MutexIsHeld, Loading, At
  <2>4. BehindTable'
    BY <2>1, <2>2 DEF BehindTable
  <2>5. IndexCovers' /\ SearchSeesWhatWasKnown'
    BY <2>1, <2>2 DEF IndexCovers, Covers, SearchSeesWhatWasKnown, At
  <2> QED BY <2>3, <2>4, <2>5
<1>7. ASSUME NEW t \in Threads, Hydrate(t) PROVE Goal
  <2>1. At(t, "hydrate") /\ UNCHANGED <<table, cache, mu>> /\ Return(t, th[t].got.ver)
    BY <1>7 DEF Hydrate
  <2>2. cache = NotLoaded \/ cache.ver >= th[t].got.ver
    BY <2>1 DEF IndexCovers, Covers
  <2>3. \A u \in Threads : At(u, "fill") => th[u].got.ver >= th[t].got.ver
    BY <2>1 DEF IndexCovers, Covers
  <2>4. th[t].got.ver <= table.ver /\ t \notin mu
    BY <2>1 DEF BehindTable, MutexIsHeld, At, Loading
  <2> QED BY <1>a, <2>1, <2>2, <2>3, <2>4, ReturnStep DEF At, Loading
<1>8. ASSUME NEW t \in Threads, Commit(t) PROVE Goal
  <2> DEFINE rec == th'[t]
  <2>1. /\ At(t, "statement") /\ table.ver < MaxWrites /\ UNCHANGED <<cache, mu, known>>
        /\ table' = [ver |-> table.ver + 1, rows |-> Written(t)]
    BY <1>8 DEF Commit
  <2>2. /\ rec \in ThreadRec /\ rec.floor = th[t].floor /\ rec.wrote = table.ver + 1
        /\ rec.got = th[t].got /\ rec.pc \in {"rawConn", "lock"}
        /\ th' = [th EXCEPT ![t] = rec]
    BY <1>8 DEF Commit, Typed, ThreadRec
  <2>3. th[t].floor <= known /\ th[t].got.ver <= table.ver /\ table'.ver = table.ver + 1
        /\ table' \in Tables
    BY <2>1 DEF BehindTable, Typed
  <2> HIDE DEF rec
  <2>4. (rec.pc \in Loading <=> th[t].pc \in Loading) /\ rec.pc \notin {"cached", "fill", "hydrate"}
    BY <2>1, <2>2, <2>3 DEF At, Loading
  <2>5. /\ rec.floor <= known /\ rec.wrote <= table'.ver /\ rec.got.ver <= table'.ver
        /\ table.ver <= table'.ver
    BY <1>a, <2>1, <2>2, <2>3
  <2> QED BY <1>b, <2>1, <2>2, <2>3, <2>4, <2>5, QuietStep
<1>9. ASSUME NEW t \in Threads, DeleteRaw(t) PROVE Goal
  <2> DEFINE rec == th'[t]
  <2>1. /\ rec \in ThreadRec /\ rec.floor = th[t].floor /\ rec.wrote = th[t].wrote
        /\ rec.got = th[t].got /\ rec.pc = "lock"
        /\ th' = [th EXCEPT ![t] = rec] /\ At(t, "raw") /\ UNCHANGED <<table, cache, mu, known>>
    BY <1>9 DEF DeleteRaw, Goto, Typed, ThreadRec
  <2>2. th[t].floor <= known /\ th[t].wrote <= table.ver /\ th[t].got.ver <= table.ver
    BY DEF BehindTable
  <2> HIDE DEF rec
  <2>3. (rec.pc \in Loading <=> th[t].pc \in Loading) /\ rec.pc \notin {"cached", "fill", "hydrate"}
    BY <2>1, <2>2 DEF At, Loading
  <2>4. /\ rec.floor <= known /\ rec.wrote <= table'.ver /\ rec.got.ver <= table'.ver
        /\ table.ver <= table'.ver
    BY <1>a, <2>1, <2>2
  <2> QED BY <1>b, <2>1, <2>2, <2>3, <2>4, QuietStep
<1>10. ASSUME NEW t \in Threads, WriteFails(t) PROVE Goal
  <2>1. /\ th[t].pc \in {"statement", "raw"} /\ Return(t, 0)
        /\ UNCHANGED <<table, cache, mu>> /\ t \notin mu
    BY <1>10 DEF WriteFails, MutexIsHeld, Loading
  <2> QED BY <1>a, <2>1, ReturnStep DEF Loading
<1>11. ASSUME NEW t \in Threads, UseCache(t) PROVE Goal
  <2>1. /\ At(t, "cached") /\ mu' = {} /\ UNCHANGED <<table, cache, known>>
        /\ th'[t].got = cache /\ th'[t].pc = "hydrate"
        /\ th'[t].floor = th[t].floor /\ th'[t].wrote = th[t].wrote
        /\ \A u \in Threads \ {t} : th'[u] = th[u]
    BY <1>11 DEF UseCache, Typed, ThreadRec
  <2>2. mu = {t} /\ cache # NotLoaded /\ \A u \in Threads \ {t} : th[u].pc \notin Loading
    BY <2>1 DEF MutexIsHeld, Loading, At, Typed
  <2>3. MutexIsHeld'
    BY <2>1, <2>2 DEF MutexIsHeld, Loading, At
  <2>4. cache.ver <= table.ver
    BY DEF BehindTable
  <2>5. BehindTable'
    BY <2>1, <2>4 DEF BehindTable
  <2>6. IndexCovers' /\ SearchSeesWhatWasKnown'
    <3>1. Covers(cache) /\ th[t].floor <= known
      BY <2>2 DEF IndexCovers, BehindTable
    <3>2. \A u \in Threads : th'[u].pc # "fill"
      BY <2>1, <2>2 DEF Loading
    <3> QED BY <1>a, <2>1, <3>1, <3>2 DEF IndexCovers, Covers, SearchSeesWhatWasKnown, At
  <2> QED BY <2>3, <2>5, <2>6
<1>12. ASSUME NEW t \in Threads, Load(t) PROVE Goal
  <2>1. /\ At(t, "load") /\ UNCHANGED <<table, cache, mu, known>>
        /\ th'[t].got = table /\ th'[t].pc = "fill"
        /\ th'[t].floor = th[t].floor /\ th'[t].wrote = th[t].wrote
        /\ \A u \in Threads \ {t} : th'[u] = th[u]
    BY <1>12 DEF Load, Typed, ThreadRec
  <2>2. MutexIsHeld'
    BY <2>1 DEF MutexIsHeld, Loading, At
  <2>3. BehindTable'
    BY <1>a, <2>1 DEF BehindTable
  <2>4. IndexCovers'
    <3>1. Covers(table) /\ table # NotLoaded
      BY <1>a, NotLoadedIsOld DEF BehindTable, Covers
    <3> QED BY <2>1, <3>1 DEF IndexCovers, Covers, At
  <2>5. SearchSeesWhatWasKnown'
    BY <2>1 DEF SearchSeesWhatWasKnown, At
  <2> QED BY <2>2, <2>3, <2>4, <2>5
<1>13. ASSUME NEW t \in Threads, Fill(t) PROVE Goal
  <2>1. /\ At(t, "fill") /\ mu' = {} /\ cache' = th[t].got /\ UNCHANGED <<table, known>>
        /\ th'[t].got = th[t].got /\ th'[t].pc = "hydrate"
        /\ th'[t].floor = th[t].floor /\ th'[t].wrote = th[t].wrote
        /\ \A u \in Threads \ {t} : th'[u] = th[u]
    BY <1>13 DEF Fill, Goto, Typed, ThreadRec
  <2>2. mu = {t} /\ \A u \in Threads \ {t} : th[u].pc \notin Loading
    BY <2>1 DEF MutexIsHeld, Loading, At, Typed
  <2>3. MutexIsHeld'
    BY <2>1, <2>2 DEF MutexIsHeld, Loading, At
  <2>4. BehindTable'
    BY <2>1 DEF BehindTable
  <2>5. IndexCovers' /\ SearchSeesWhatWasKnown'
    <3>1. Covers(th[t].got) /\ th[t].floor <= known
      BY <2>1 DEF IndexCovers, BehindTable
    <3>2. \A u \in Threads : th'[u].pc # "fill"
      BY <2>1, <2>2 DEF Loading
    <3> QED BY <1>a, <2>1, <3>1, <3>2 DEF IndexCovers, Covers, SearchSeesWhatWasKnown, At
  <2> QED BY <2>3, <2>4, <2>5
<1>14. ASSUME NEW t \in Threads, LoadFails(t) PROVE Goal
  <2>1. At(t, "load") /\ mu' = {} /\ UNCHANGED <<table, cache>> /\ Return(t, 0)
    BY <1>14 DEF LoadFails
  <2>2. mu = {t}
    BY <2>1 DEF MutexIsHeld, Loading, At, Typed
  <2>3. th[t].pc \in Loading <=> (t \in mu /\ t \notin mu')
    BY <2>1, <2>2 DEF At, Loading
  <2> QED BY <1>a, <2>1, <2>2, <2>3, ReturnStep
<1>15. ASSUME NEW t \in Threads, HydrateFails(t) PROVE Goal
  <2>1. At(t, "hydrate") /\ t \notin mu /\ Return(t, 0) /\ UNCHANGED <<table, cache, mu>>
    BY <1>15 DEF HydrateFails, MutexIsHeld, Loading, At
  <2> QED BY <1>a, <2>1, ReturnStep DEF At, Loading
<1>16. CASE InsertJob
  BY <1>16 DEF InsertJob, MutexIsHeld, BehindTable, IndexCovers, Covers, SearchSeesWhatWasKnown, At
<1>17. CASE CliWrite
  <2>1. /\ table'.ver = table.ver + 1 /\ UNCHANGED <<cache, mu, th, known>>
    BY <1>17 DEF CliWrite
  <2>2. BehindTable'
    BY <1>a, <2>1 DEF BehindTable
  <2>3. MutexIsHeld' /\ IndexCovers' /\ SearchSeesWhatWasKnown'
    BY <2>1 DEF MutexIsHeld, IndexCovers, Covers, SearchSeesWhatWasKnown, At
  <2> QED BY <2>2, <2>3
<1>18. CASE Restart
  <2>1. /\ cache' = NotLoaded /\ mu' = {} /\ UNCHANGED <<table, known>>
        /\ \A t \in Threads : th'[t] = Idle
    BY <1>18 DEF Restart
  <2>2. MutexIsHeld' /\ IndexCovers' /\ SearchSeesWhatWasKnown'
    BY <2>1, IdleThread DEF MutexIsHeld, Loading, IndexCovers, SearchSeesWhatWasKnown, At
  <2>3. BehindTable'
    BY <1>a, <2>1, IdleThread, NotLoadedIsOld DEF BehindTable
  <2> QED BY <2>2, <2>3
<1> QED
  BY <1>1, <1>2, <1>3, <1>4, <1>5, <1>6, <1>7, <1>8, <1>9, <1>10, <1>11, <1>12, <1>13, <1>14,
     <1>16, <1>17, <1>18, <1>15 DEF Next, Acquire, Proceed

LEMMA IndexKept == IndexInv /\ [Next]_vars => IndexInv'
  BY TypedStep, PoolStep, IndexStep DEF IndexInv

LEMMA IndexAlways == Spec => []IndexInv
<1>1. Init /\ [][Next]_vars => []IndexInv
  BY IndexInit, IndexKept, PTL
<1> QED BY <1>1, PTL DEF Spec

LEMMA InvTyped == IndexInv => TypeOK
<1> SUFFICES ASSUME IndexInv PROVE TypeOK
  OBVIOUS
<1>1. Cardinality(mu) <= 1
  <2>1. mu = {} \/ \E t : mu = {t}
    BY ZenonT(60) DEF IndexInv, MutexIsHeld
  <2>2. Cardinality({}) = 0 /\ \A t : Cardinality({t}) = 1
    BY FS_EmptySet, FS_Singleton
  <2>3. Cardinality(mu) = 0 \/ Cardinality(mu) = 1
    BY <2>1, <2>2, Zenon
  <2> QED BY <2>3
<1> QED BY <1>1 DEF IndexInv, Typed, PoolLimit, ThreadRec, TypeOK

-----------------------------------------------------------------------------
(* The abstract specification.                                             *)

\* A call's kind fits the place where it is.
KindFits ==
  \A t \in Threads :
    /\ At(t, "idle") => th[t].kind = "none"
    /\ th[t].pc \in Loading \cup {"hydrate"} => th[t].kind = "search"
    /\ th[t].pc \in {"conn", "statement", "rawConn", "raw"} => th[t].kind \in Writes

LEMMA KindsKept == IndexInv /\ KindFits /\ [Next]_vars => KindFits'
<1> SUFFICES ASSUME Typed, KindFits, [Next]_vars PROVE KindFits'
  BY DEF IndexInv
<1> USE DEF Typed, ThreadRec
<1>1. ASSUME NEW t \in Threads, \A u \in Threads \ {t} : th'[u] = th[u],
             th'[t].pc = "idle" => th'[t].kind = "none",
             th'[t].pc \in Loading \cup {"hydrate"} => th'[t].kind = "search",
             th'[t].pc \in {"conn", "statement", "rawConn", "raw"} => th'[t].kind \in Writes
      PROVE  KindFits'
  BY <1>1 DEF KindFits, At
<1>2. CASE UNCHANGED th
  BY <1>2 DEF KindFits, At
<1>3. ASSUME NEW t \in Threads, NEW ver, Return(t, ver) PROVE KindFits'
  BY <1>1, <1>3 DEF Return, Idle, Loading
<1>4. ASSUME NEW t \in Threads, CallSearch(t) \/ CallWrite(t) PROVE KindFits'
  <2>1. CASE CallSearch(t)
    BY <1>1, <2>1 DEF CallSearch, Idle, Loading
  <2>2. CASE CallWrite(t)
    BY <1>1, <2>2 DEF CallWrite, Idle, Loading
  <2> QED BY <1>4, <2>1, <2>2
<1>5. ASSUME NEW t \in Threads, TakeConn(t) \/ LockSnapshot(t) PROVE KindFits'
  <2>1. CASE TakeConn(t)
    BY <1>1, <2>1 DEF TakeConn, Goto, KindFits, At, Loading
  <2>2. CASE LockSnapshot(t)
    BY <1>1, <2>2 DEF LockSnapshot, Goto, KindFits, At, Loading
  <2> QED BY <1>5, <2>1, <2>2
<1>6. ASSUME NEW t \in Threads, Commit(t) \/ DeleteRaw(t) PROVE KindFits'
  <2>1. CASE Commit(t)
    BY <1>1, <2>1 DEF Commit, KindFits, At, Loading
  <2>2. CASE DeleteRaw(t)
    BY <1>1, <2>2 DEF DeleteRaw, Goto, KindFits, At, Loading
  <2> QED BY <1>6, <2>1, <2>2
<1>7. ASSUME NEW t \in Threads, UseCache(t) \/ Load(t) \/ Fill(t) PROVE KindFits'
  <2>1. /\ th[t].kind = "search" /\ th'[t].kind = "search" /\ th'[t].pc \in {"fill", "hydrate"}
        /\ \A u \in Threads \ {t} : th'[u] = th[u]
    BY <1>7 DEF UseCache, Load, Fill, Goto, KindFits, At, Loading
  <2> QED BY <1>1, <2>1
<1>8. CASE Restart
  BY <1>8 DEF Restart, Idle, KindFits, At, Loading
<1> QED
  BY <1>2, <1>3, <1>4, <1>5, <1>6, <1>7, <1>8
  DEF Next, vars, Acquire, Proceed, Invalidate, Hydrate, WriteFails, LoadFails, HydrateFails,
      InsertJob, CliWrite

LEMMA KindsAlways == Spec => []KindFits
<1>1. Init => KindFits
  BY DEF Init, Idle, KindFits, At, Loading
<1>2. Init /\ [][Next]_vars /\ []IndexInv => []KindFits
  BY <1>1, KindsKept, PTL
<1> QED BY <1>2, IndexAlways, PTL DEF Spec

\* A thread that goes on with its call and does not come to an answer.
LEMMA SameRequest ==
  ASSUME Typed, NEW t \in Threads, NEW rec, th' = [th EXCEPT ![t] = rec],
         rec.kind = th[t].kind, rec.floor = th[t].floor,
         rec.pc # "hydrate", th[t].pc # "hydrate"
  PROVE  Asked' = Asked /\ Seen' = Seen
<1>1. th'[t] = rec /\ \A u \in Threads \ {t} : th'[u] = th[u]
  BY DEF Typed
<1> QED BY <1>1 DEF Asked, Seen, At

\* A search that comes to its answer has looked at the table it was computed from.
LEMMA LookIsPromised ==
  ASSUME IndexInv, NEW t \in Threads, NEW rec, th' = [th EXCEPT ![t] = rec],
         th[t].kind = "search", rec.kind = "search", rec.floor = th[t].floor,
         rec.pc = "hydrate", th[t].pc # "hydrate",
         rec.got.ver \in th[t].floor .. table.ver, UNCHANGED <<table, known>>
  PROVE  Promise!Next
<1>1. th'[t] = rec /\ \A u \in Threads \ {t} : th'[u] = th[u]
  BY DEF IndexInv, Typed
<1>2. Asked' = Asked /\ Asked[t] = th[t].floor /\ Asked[t] # -1
  BY <1>1, IndexConstants DEF Asked, IndexInv, Typed, ThreadRec
<1>3. Seen[t] = -1 /\ Seen' = [Seen EXCEPT ![t] = rec.got.ver]
  <2>1. Seen = [u \in Threads |-> IF th[u].pc = "hydrate" THEN th[u].got.ver ELSE -1]
    BY DEF Seen, At
  <2>2. Seen' = [u \in Threads |-> IF th'[u].pc = "hydrate" THEN th'[u].got.ver ELSE -1]
    BY DEF Seen, At
  <2>3. \A u \in Threads : th'[u].pc = "hydrate" <=> u = t \/ th[u].pc = "hydrate"
    BY <1>1
  <2> QED BY <1>1, <2>1, <2>2, <2>3
<1>4. Promise!Look(t)
  BY <1>2, <1>3 DEF Promise!Look, Promise!None
<1> QED BY <1>4 DEF Promise!Next

\* A call that returns with ver: its writer or its searcher learns of ver.
LEMMA ReturnIsPromised ==
  ASSUME IndexInv, NEW t \in Threads, NEW ver \in Int, Return(t, ver), UNCHANGED table,
         ver \in 0 .. table.ver, th[t].kind = "search" => ver = Seen[t] \/ ver = 0,
         At(t, "hydrate") => th[t].kind = "search"
  PROVE  [Promise!Next]_(Promise!promiseVars)
<1>1. known \in Nat /\ th[t].floor \in Nat
  BY IndexConstants DEF IndexInv, Typed, ThreadRec
<1>2. th'[t] = Idle /\ \A u \in Threads \ {t} : th'[u] = th[u]
  BY DEF IndexInv, Typed, Return
<1>3. Idle.kind = "none" /\ Idle.pc = "idle"
  BY DEF Idle
<1>4. Asked' = [Asked EXCEPT ![t] = -1] /\ Seen' = [Seen EXCEPT ![t] = -1]
  BY <1>2, <1>3 DEF Asked, Seen, At
<1>5. known' = Promise!Newer(ver, known)
  BY DEF Return, Promise!Newer
<1>6. CASE th[t].kind # "search"
  <2>1. Asked' = Asked /\ Seen' = Seen
    BY <1>4, <1>6 DEF Asked, Seen
  <2> QED BY <1>5, <2>1 DEF Promise!Next, Promise!Acknowledge
<1>7. CASE th[t].kind = "search" /\ ver = Seen[t]
  <2>1. Promise!Answer(t)
    BY <1>4, <1>5, <1>7 DEF Promise!Answer, Promise!Forget, Promise!None
  <2> QED BY <2>1 DEF Promise!Next, Promise!End
<1>8. CASE th[t].kind = "search" /\ ver = 0
  <2>1. Asked[t] # -1 /\ known' = known
    BY <1>1, <1>8 DEF Asked, Return
  <2>2. Promise!Refuse(t)
    BY <1>4, <2>1 DEF Promise!Refuse, Promise!Forget, Promise!None
  <2> QED BY <2>2 DEF Promise!Next, Promise!End
<1> QED BY <1>6, <1>7, <1>8

LEMMA StepsAreSearches ==
  IndexInv /\ KindFits /\ [Next]_vars => [Promise!Next]_(Promise!promiseVars)
<1> DEFINE Goal == [Promise!Next]_(Promise!promiseVars)
<1> SUFFICES ASSUME IndexInv, KindFits, [Next]_vars PROVE Goal
  OBVIOUS
<1>. Typed /\ SearchSeesWhatWasKnown' /\ BehindTable'
  BY IndexStep DEF IndexInv
<1>a. /\ table.ver \in Nat /\ known \in Nat
      /\ \A t \in Threads : /\ th[t].floor \in Nat /\ th[t].wrote \in Nat
                            /\ th[t].got.ver \in Int
                            /\ th[t].floor <= table.ver /\ th[t].wrote <= table.ver
  BY IndexConstants, Versions DEF Typed, Tables, ThreadRec, IndexInv, BehindTable
<1>b. \A t \in Threads : At(t, "hydrate") => th[t].kind = "search"
  BY DEF KindFits, At
<1>1. CASE UNCHANGED <<table, known>> /\ Asked' = Asked /\ Seen' = Seen
  BY <1>1 DEF Promise!promiseVars
<1>2. ASSUME NEW t \in Threads, CallSearch(t) PROVE Goal
  <2>1. th[t].kind # "search" /\ At(t, "idle")
    BY <1>2 DEF CallSearch, KindFits
  <2>2. Asked[t] = -1 /\ Asked' = [Asked EXCEPT ![t] = known]
    BY <1>2, <2>1 DEF CallSearch, Asked, Typed, Idle
  <2>3. Seen' = Seen
    BY <1>2, <2>1 DEF CallSearch, Seen, At, Typed, Idle
  <2>4. Promise!Ask(t)
    BY <1>2, <2>2, <2>3 DEF Promise!Ask, Promise!None, CallSearch
  <2> QED BY <2>4 DEF Promise!Next
<1>3. ASSUME NEW t \in Threads, CallWrite(t) PROVE Goal
  <2>1. th[t].kind = "none" /\ At(t, "idle")
    BY <1>3 DEF CallWrite, KindFits
  <2>2. Asked' = Asked /\ Seen' = Seen
    BY <1>3, <2>1 DEF CallWrite, Asked, Seen, At, Typed, Idle, Writes
  <2> QED BY <1>1, <1>3, <2>2 DEF CallWrite
<1>4. ASSUME NEW t \in Threads, TakeConn(t) \/ LockSnapshot(t) \/ DeleteRaw(t) \/ Load(t)
      PROVE  Goal
  <2> DEFINE rec == th'[t]
  <2>1. /\ th' = [th EXCEPT ![t] = rec] /\ rec.kind = th[t].kind /\ rec.floor = th[t].floor
        /\ rec.pc # "hydrate" /\ th[t].pc # "hydrate"
    BY <1>4 DEF TakeConn, LockSnapshot, DeleteRaw, Load, Goto, Typed, ThreadRec, At
  <2>2. UNCHANGED <<table, known>>
    BY <1>4 DEF TakeConn, LockSnapshot, DeleteRaw, Load
  <2> QED BY <1>1, <2>1, <2>2, SameRequest
<1>5. ASSUME NEW t \in Threads, UseCache(t) \/ Fill(t) PROVE Goal
  <2> DEFINE rec == th'[t]
  <2>1. /\ th' = [th EXCEPT ![t] = rec] /\ rec.kind = th[t].kind /\ rec.floor = th[t].floor
        /\ rec.pc = "hydrate" /\ th[t].pc \in Loading
    BY <1>5 DEF UseCache, Fill, Goto, Typed, ThreadRec, At, Loading
  <2>2. UNCHANGED <<table, known>> /\ th[t].kind = "search" /\ th[t].pc # "hydrate"
    BY <1>5, <2>1 DEF UseCache, Fill, KindFits, Loading
  <2>3. rec.got.ver >= rec.floor /\ rec.got.ver <= table.ver /\ rec.got.ver \in Int
    <3>1. rec.got.ver \in Int
      BY TypedStep, Versions DEF Typed, ThreadRec
    <3> QED BY <2>1, <2>2, <3>1 DEF SearchSeesWhatWasKnown, BehindTable, At
  <2>4. rec.got.ver \in th[t].floor .. table.ver
    BY <1>a, <2>1, <2>3
  <2> HIDE DEF rec
  <2> QED BY <2>1, <2>2, <2>4, LookIsPromised
<1>6. ASSUME NEW t \in Threads, Commit(t) PROVE Goal
  <2> DEFINE rec == th'[t]
  <2>1. /\ th' = [th EXCEPT ![t] = rec] /\ rec.kind = th[t].kind /\ rec.floor = th[t].floor
        /\ rec.pc # "hydrate" /\ th[t].pc # "hydrate"
    BY <1>6 DEF Commit, Typed, ThreadRec, At
  <2>2. table'.ver = table.ver + 1 /\ Asked' = Asked /\ Seen' = Seen /\ known' = known
    BY <1>6, <2>1, SameRequest DEF Commit
  <2> QED BY <2>2 DEF Promise!Next, Promise!Write
<1>7. ASSUME NEW t \in Threads, Invalidate(t) PROVE Goal
  <2>1. /\ Return(t, th[t].wrote) /\ UNCHANGED table /\ th[t].kind # "search"
        /\ th[t].wrote \in 0 .. table.ver
    BY <1>7, <1>a DEF Invalidate, Writes
  <2> QED BY <1>a, <1>b, <2>1, ReturnIsPromised
<1>8. ASSUME NEW t \in Threads, WriteFails(t) \/ LoadFails(t) \/ HydrateFails(t) PROVE Goal
  <2>1. Return(t, 0) /\ UNCHANGED table
    BY <1>8 DEF WriteFails, LoadFails, HydrateFails
  <2> QED BY <1>a, <1>b, <2>1, ReturnIsPromised
<1>9. ASSUME NEW t \in Threads, Hydrate(t) PROVE Goal
  <2>1. /\ Return(t, th[t].got.ver) /\ UNCHANGED table /\ At(t, "hydrate")
        /\ th[t].got.ver >= th[t].floor /\ th[t].got.ver <= table.ver
    BY <1>9 DEF Hydrate, IndexInv, BehindTable, SearchSeesWhatWasKnown
  <2>2. th[t].got.ver \in 0 .. table.ver /\ Seen[t] = th[t].got.ver
    BY <1>a, <2>1 DEF Seen
  <2> QED BY <1>a, <1>b, <2>1, <2>2, ReturnIsPromised
<1>10. CASE InsertJob
  BY <1>1, <1>10 DEF InsertJob, Asked, Seen, At
<1>11. CASE CliWrite
  <2>1. table'.ver = table.ver + 1 /\ Asked' = Asked /\ Seen' = Seen /\ known' = known
    BY <1>11 DEF CliWrite, Asked, Seen, At
  <2> QED BY <2>1 DEF Promise!Next, Promise!Write
<1>12. CASE Restart
  <2>1. Asked' = Promise!Nothing /\ Seen' = Promise!Nothing /\ UNCHANGED <<table, known>>
    BY <1>12 DEF Restart, Asked, Seen, At, Idle, Promise!Nothing, Promise!None
  <2> QED BY <2>1 DEF Promise!Next, Promise!ProcessExit
<1>13. CASE UNCHANGED vars
  BY <1>1, <1>13 DEF vars, Asked, Seen, At
<1> QED
  BY <1>2, <1>3, <1>4, <1>5, <1>6, <1>7, <1>8, <1>9, <1>10, <1>11, <1>12, <1>13
  DEF Next, Acquire, Proceed

-----------------------------------------------------------------------------
(* Theorems.                                                               *)

\* The server's index, its mutex and the pool: snapshot is never entered twice, and the
\* statements running at once are no more than SetMaxOpenConns allows.
THEOREM IndexTypeCorrect == Spec => []TypeOK
  BY IndexAlways, InvTyped, PTL

\* For any number of searches, writes, failures and restarts, and with a CLI writing
\* beside them: a search shows no less than what was known when it arrived.
THEOREM SearchNeverGoesBack == Spec => []SearchSeesWhatWasKnown
<1>1. IndexInv => SearchSeesWhatWasKnown
  BY DEF IndexInv
<1> QED BY <1>1, IndexAlways, PTL

\* A client cannot tell the service from one that searches the table itself at some
\* moment of the request: the safety part of SearchesTheTable (the index, the mutex, the
\* pool, the CLI's writes and restarts are steps of SearchPromise or no steps at all).
THEOREM IndexKeepsPromise == Spec => Promise!Init /\ [][Promise!Next]_(Promise!promiseVars)
<1>1. Init => Promise!Init
  BY DEF Init, Promise!Init, Promise!Nothing, Promise!None, Asked, Seen, At, Idle
<1> QED BY <1>1, IndexAlways, KindsAlways, StepsAreSearches, PTL DEF Spec

=============================================================================

------------------------ MODULE AnalysisCacheProofs ------------------------
(***************************************************************************)
(* For any users, postings, contents, models and numbers of requests and   *)
(* edits: an analysis that is served is the configured model's, for this   *)
(* user and posting, from contents current during the request, and no row  *)
(* outlives its user or its posting.                                       *)
(***************************************************************************)
EXTENDS AnalysisCache, TLAPS

ReqRec ==
  [pc : PCs, user : Users \cup {Absent}, job : Jobs \cup {Absent},
   profile : Profiles \cup {Absent}, content : Contents \cup {Absent},
   model : Models \cup {Absent}, answer : Answers \cup {NoAnswer},
   profiles : SUBSET (Profiles \cup {Absent}), contents : SUBSET (Contents \cup {Absent}),
   models : SUBSET Models]

Typed ==
  /\ profile \in [Users -> Profiles \cup {Absent}]
  /\ content \in [Jobs -> Contents \cup {Absent}]
  /\ cache \in [CacheKeys -> CacheRows \cup {NoRow}]
  /\ model \in Models
  /\ req \in [Requests -> ReqRec]

\* A row with a fingerprint was generated for its key and from what it fingerprints.
RowsAreOwn ==
  \A k \in CacheKeys : cache[k] \notin {NoRow, LegacyRow} =>
    cache[k].response = [user |-> k[2], job |-> k[1], model |-> k[3],
                         prompt |-> cache[k].fingerprint]

\* What is current is in the history of every request under way.
HistoryIsCurrent(r) ==
  InFlight(r) =>
    /\ req[r].user \in Users /\ req[r].job \in Jobs
    /\ profile[req[r].user] \in req[r].profiles \cup {Absent}
    /\ content[req[r].job] \in req[r].contents \cup {Absent}
    /\ model \in req[r].models

\* What a request has read is in its history.
ReadsAreHistory(r) ==
  /\ req[r].pc \in {"job", "cache", "generate", "save"} =>
       req[r].profile \in Profiles \cap req[r].profiles
  /\ req[r].pc \in {"cache", "generate", "save"} =>
       /\ req[r].content \in Contents \cap req[r].contents
       /\ req[r].model \in req[r].models

AnswerIsOwn(r) ==
  At(r, "save") =>
    req[r].answer = [user |-> req[r].user, job |-> req[r].job, model |-> req[r].model,
                     prompt |-> Prompt(r)]

\* AnswersAreCurrent for one request.
ServedIsCurrent(r) ==
  At(r, "answered") =>
    LET a == req[r].answer
    IN  /\ a # NoAnswer
        /\ a.user = req[r].user /\ a.job = req[r].job
        /\ a.model \in req[r].models
        /\ a.prompt.profile \in req[r].profiles
        /\ a.prompt.content \in req[r].contents

ReqOk(r) == HistoryIsCurrent(r) /\ ReadsAreHistory(r) /\ AnswerIsOwn(r) /\ ServedIsCurrent(r)

CacheInv ==
  /\ Typed
  /\ RowsAreOwn
  /\ RowsHaveOwners
  /\ \A r \in Requests : ReqOk(r)

-----------------------------------------------------------------------------

\* A request's step leaves what the others know.
LEMMA OthersKeep ==
  ASSUME CacheInv, NEW r \in Requests, UNCHANGED <<profile, content, model>>,
         \A x \in Requests \ {r} : req'[x] = req[x], ReqOk(r)'
  PROVE  \A x \in Requests : ReqOk(x)'
<1>1. \A x \in Requests \ {r} : ReqOk(x)'
  BY DEF CacheInv, ReqOk, HistoryIsCurrent, ReadsAreHistory, AnswerIsOwn, ServedIsCurrent,
         InFlight, At, Prompt
<1> QED BY <1>1

LEMMA CacheInit == Init => CacheInv
<1> SUFFICES ASSUME Init PROVE CacheInv
  OBVIOUS
<1>1. \A r \in Requests : req[r] = NoRequest
  BY DEF Init
<1>2. Typed
  <2>1. NoRequest \in ReqRec
    BY DEF NoRequest, ReqRec, PCs
  <2>2. cache \in [CacheKeys -> CacheRows \cup {NoRow}]
    BY DEF Init, CacheRows
  <2> QED BY <2>1, <2>2 DEF Init, Typed
<1>3. RowsAreOwn
  BY DEF Init, RowsAreOwn
<1>4. RowsHaveOwners
  BY AnalysisConstants DEF Init, RowsHaveOwners, CacheKeys
<1>5. \A r \in Requests : ReqOk(r)
  BY <1>1 DEF NoRequest, ReqOk, HistoryIsCurrent, ReadsAreHistory, AnswerIsOwn,
              ServedIsCurrent, InFlight, At
<1> QED BY <1>2, <1>3, <1>4, <1>5 DEF CacheInv

LEMMA CacheStep == CacheInv /\ [Next]_vars => CacheInv'
<1> SUFFICES ASSUME CacheInv, [Next]_vars PROVE CacheInv'
  OBVIOUS
<1> USE DEF CacheInv
<1>1. CASE UNCHANGED vars
  BY <1>1 DEF vars, Typed, RowsAreOwn, RowsHaveOwners, ReqOk, HistoryIsCurrent,
              ReadsAreHistory, AnswerIsOwn, ServedIsCurrent, InFlight, At, Prompt
<1>2. ASSUME NEW r \in Requests, NEW rec \in ReqRec, req' = [req EXCEPT ![r] = rec],
             UNCHANGED <<profile, content, model>>, ReqOk(r)'
      PROVE  /\ \A x \in Requests : ReqOk(x)'
             /\ cache' = cache => CacheInv'
  <2>1. \A x \in Requests : ReqOk(x)'
    BY <1>2, OthersKeep DEF Typed
  <2>2. ASSUME cache' = cache
        PROVE  Typed' /\ RowsAreOwn' /\ RowsHaveOwners'
    BY <1>2, <2>2 DEF Typed, RowsAreOwn, RowsHaveOwners
  <2> QED BY <2>1, <2>2
<1>3. ASSUME NEW r \in Requests, Arrive(r) PROVE CacheInv'
  <2>1. PICK u \in Users, j \in Jobs :
          req' = [req EXCEPT ![r] = [NoRequest EXCEPT
                    !.pc = "user", !.user = u, !.job = j,
                    !.profiles = {profile[u]}, !.contents = {content[j]}, !.models = {model}]]
    BY <1>3 DEF Arrive
  <2> DEFINE rec == [NoRequest EXCEPT !.pc = "user", !.user = u, !.job = j,
                       !.profiles = {profile[u]}, !.contents = {content[j]}, !.models = {model}]
  <2>2. /\ rec \in ReqRec /\ rec.pc = "user" /\ rec.user = u /\ rec.job = j
        /\ rec.profiles = {profile[u]} /\ rec.contents = {content[j]} /\ rec.models = {model}
    <3>1. /\ {profile[u]} \subseteq Profiles \cup {Absent}
          /\ {content[j]} \subseteq Contents \cup {Absent} /\ {model} \subseteq Models
      BY DEF Typed
    <3>2. NoRequest \in ReqRec
      BY DEF NoRequest, ReqRec, PCs
    <3> QED BY <3>1, <3>2 DEF ReqRec, PCs, NoRequest
  <2>3. req' = [req EXCEPT ![r] = rec] /\ UNCHANGED <<profile, content, model, cache>>
    BY <1>3, <2>1 DEF Arrive
  <2>4. req'[r] = rec
    BY <2>3 DEF Typed
  <2> HIDE DEF rec
  <2>5. ReqOk(r)'
    BY <2>2, <2>3, <2>4 DEF ReqOk, HistoryIsCurrent, ReadsAreHistory, AnswerIsOwn,
                           ServedIsCurrent, At
  <2> QED BY <1>2, <2>2, <2>3, <2>5
<1>4. ASSUME NEW r \in Requests, ReadUser(r) PROVE CacheInv'
  <2> DEFINE p == profile[req[r].user]
             rec == [req[r] EXCEPT !.profile = p, !.pc = IF p = Absent THEN "error" ELSE "job"]
  <2>1. /\ At(r, "user") /\ req' = [req EXCEPT ![r] = rec]
        /\ UNCHANGED <<profile, content, model, cache>>
    BY <1>4 DEF ReadUser
  <2>2. HistoryIsCurrent(r) /\ InFlight(r)
    BY <2>1 DEF ReqOk, InFlight, At
  <2>3. p \in Profiles \cup {Absent} /\ p \in req[r].profiles \cup {Absent}
    BY <2>2 DEF Typed, HistoryIsCurrent
  <2>4. /\ rec \in ReqRec /\ rec.user = req[r].user /\ rec.job = req[r].job /\ rec.profile = p
        /\ rec.pc = IF p = Absent THEN "error" ELSE "job"
        /\ rec.profiles = req[r].profiles /\ rec.contents = req[r].contents
        /\ rec.models = req[r].models
    BY <2>3, ZenonT(60) DEF Typed, ReqRec, PCs
  <2>5. req'[r] = rec
    BY <2>1 DEF Typed
  <2>6. ReqOk(r)'
    BY <2>1, <2>2, <2>3, <2>4, <2>5
    DEF ReqOk, HistoryIsCurrent, ReadsAreHistory, AnswerIsOwn, ServedIsCurrent, InFlight, At
  <2> QED BY <1>2, <2>1, <2>4, <2>6
<1>5. ASSUME NEW r \in Requests, ReadJob(r) PROVE CacheInv'
  <2> DEFINE c == content[req[r].job]
             rec == [req[r] EXCEPT !.content = c, !.model = model,
                                   !.pc = IF c = Absent THEN "error" ELSE "cache"]
  <2>1. /\ At(r, "job") /\ req' = [req EXCEPT ![r] = rec]
        /\ UNCHANGED <<profile, content, model, cache>>
    BY <1>5 DEF ReadJob
  <2>2. HistoryIsCurrent(r) /\ ReadsAreHistory(r) /\ InFlight(r)
    BY <2>1 DEF ReqOk, InFlight, At
  <2>3. c \in Contents \cup {Absent} /\ c \in req[r].contents \cup {Absent}
    BY <2>2 DEF Typed, HistoryIsCurrent
  <2>4. /\ rec \in ReqRec /\ rec.user = req[r].user /\ rec.job = req[r].job
        /\ rec.profile = req[r].profile /\ rec.content = c /\ rec.model = model
        /\ rec.pc = IF c = Absent THEN "error" ELSE "cache"
        /\ rec.profiles = req[r].profiles /\ rec.contents = req[r].contents
        /\ rec.models = req[r].models
    BY <2>3, ZenonT(60) DEF Typed, ReqRec, PCs
  <2>5. req'[r] = rec
    BY <2>1 DEF Typed
  <2>6. ReqOk(r)'
    BY <2>1, <2>2, <2>3, <2>4, <2>5
    DEF ReqOk, HistoryIsCurrent, ReadsAreHistory, AnswerIsOwn, ServedIsCurrent, InFlight, At
  <2> QED BY <1>2, <2>1, <2>4, <2>6
<1>6. ASSUME NEW r \in Requests, ReadCache(r) PROVE CacheInv'
  <2> DEFINE row == cache[Key(r)]
  <2>1. At(r, "cache") /\ UNCHANGED <<profile, content, model, cache>>
    BY <1>6 DEF ReadCache
  <2>2. HistoryIsCurrent(r) /\ ReadsAreHistory(r) /\ InFlight(r)
    BY <2>1 DEF ReqOk, InFlight, At
  <2>3. CASE /\ IsHit(row, Prompt(r))
             /\ req' = [req EXCEPT ![r].answer = row.response, ![r].pc = "answered"]
    <3> DEFINE rec == [req[r] EXCEPT !.answer = row.response, !.pc = "answered"]
    <3>1. /\ req[r].user \in Users /\ req[r].job \in Jobs /\ req[r].model \in Models
          /\ req[r].profile \in Profiles /\ req[r].content \in Contents
      BY <2>1, <2>2, AnalysisConstants DEF HistoryIsCurrent, ReadsAreHistory, Typed, ReqRec, At
    <3>2. Key(r) \in CacheKeys /\ Key(r)[1] = req[r].job /\ Key(r)[2] = req[r].user
          /\ Key(r)[3] = req[r].model
      BY <3>1 DEF Key, CacheKeys
    <3>3. row # LegacyRow
      BY <2>3, <3>1, AnalysisConstants DEF IsHit, LegacyRow, NoPrompt, Prompt
    <3>4. row.response = [user |-> req[r].user, job |-> req[r].job, model |-> req[r].model,
                          prompt |-> Prompt(r)]
      BY <2>3, <3>2, <3>3 DEF RowsAreOwn, IsHit
    <3>5. row.response \in Answers /\ row.response # NoAnswer
      BY <3>1, <3>4, AnalysisConstants DEF Answers, Prompts, Prompt, NoAnswer
    <3>6. /\ rec \in ReqRec /\ rec.pc = "answered" /\ rec.answer = row.response
          /\ rec.user = req[r].user /\ rec.job = req[r].job
          /\ rec.profiles = req[r].profiles /\ rec.contents = req[r].contents
          /\ rec.models = req[r].models
      BY <3>5, ZenonT(60) DEF Typed, ReqRec, PCs
    <3>7. req' = [req EXCEPT ![r] = rec] /\ req'[r] = rec
      BY <2>3 DEF Typed
    <3> HIDE DEF rec, row
    <3>8. ReqOk(r)'
      BY <2>1, <2>2, <3>4, <3>5, <3>6, <3>7
      DEF ReqOk, HistoryIsCurrent, ReadsAreHistory, AnswerIsOwn, ServedIsCurrent, InFlight, At,
          Prompt
    <3> QED BY <1>2, <2>1, <3>6, <3>7, <3>8
  <2>4. CASE Goto(r, "generate")
    <3> DEFINE rec == [req[r] EXCEPT !.pc = "generate"]
    <3>1. /\ req' = [req EXCEPT ![r] = rec] /\ req'[r] = rec /\ rec \in ReqRec
          /\ rec.pc = "generate" /\ rec.user = req[r].user /\ rec.job = req[r].job
          /\ rec.profile = req[r].profile /\ rec.content = req[r].content
          /\ rec.model = req[r].model
          /\ rec.profiles = req[r].profiles /\ rec.contents = req[r].contents
          /\ rec.models = req[r].models
      BY <2>4 DEF Goto, Typed, ReqRec, PCs
    <3> HIDE DEF rec
    <3>2. ReqOk(r)'
      BY <2>1, <2>2, <3>1
      DEF ReqOk, HistoryIsCurrent, ReadsAreHistory, AnswerIsOwn, ServedIsCurrent, InFlight, At
    <3> QED BY <1>2, <2>1, <3>1, <3>2
  <2> QED BY <1>6, <2>3, <2>4 DEF ReadCache
<1>7. ASSUME NEW r \in Requests, NEW pc \in {"error", "answered"}, Goto(r, pc),
             UNCHANGED <<profile, content, model>>, ServedIsCurrent(r)'
      PROVE  /\ \A x \in Requests : ReqOk(x)'
             /\ cache' = cache => CacheInv'
             /\ req' \in [Requests -> ReqRec]
  <2> DEFINE rec == [req[r] EXCEPT !.pc = pc]
  <2>1. req' = [req EXCEPT ![r] = rec] /\ req'[r] = rec /\ rec \in ReqRec /\ rec.pc = pc
    BY <1>7 DEF Goto, Typed, ReqRec, PCs
  <2> HIDE DEF rec
  <2>2. ReqOk(r)'
    BY <1>7, <2>1 DEF ReqOk, HistoryIsCurrent, ReadsAreHistory, AnswerIsOwn, InFlight, At
  <2> QED BY <1>2, <1>7, <2>1, <2>2 DEF Typed
<1>8. ASSUME NEW r \in Requests, Goto(r, "error"), UNCHANGED <<profile, content, model, cache>>
      PROVE  CacheInv'
  <2>1. ServedIsCurrent(r)'
    BY <1>8 DEF Goto, ServedIsCurrent, At, Typed, ReqRec
  <2> QED BY <1>7, <1>8, <2>1
<1>9. ASSUME NEW r \in Requests, Generate(r) PROVE CacheInv'
  <2>1. At(r, "generate") /\ UNCHANGED <<profile, content, model, cache>>
    BY <1>9 DEF Generate
  <2>2. HistoryIsCurrent(r) /\ ReadsAreHistory(r) /\ InFlight(r)
    BY <2>1 DEF ReqOk, InFlight, At
  <2> DEFINE a == Analysis(r)
             rec == [req[r] EXCEPT !.pc = "save", !.answer = a]
  <2>3. CASE req' = [req EXCEPT ![r].pc = "save", ![r].answer = a]
    <3>1. a \in Answers
      BY <2>1, <2>2, AnalysisConstants
      DEF HistoryIsCurrent, ReadsAreHistory, Typed, ReqRec, At, Answers, Prompts, Prompt,
          Analysis
    <3>2. /\ rec \in ReqRec /\ rec.pc = "save" /\ rec.answer = a
          /\ rec.user = req[r].user /\ rec.job = req[r].job
          /\ rec.profile = req[r].profile /\ rec.content = req[r].content
          /\ rec.model = req[r].model
          /\ rec.profiles = req[r].profiles /\ rec.contents = req[r].contents
          /\ rec.models = req[r].models
      BY <3>1, ZenonT(60) DEF Typed, ReqRec, PCs
    <3>3. req' = [req EXCEPT ![r] = rec] /\ req'[r] = rec
      BY <2>3 DEF Typed
    <3> HIDE DEF rec
    <3>4. ReqOk(r)'
      BY <2>1, <2>2, <3>2, <3>3
      DEF ReqOk, HistoryIsCurrent, ReadsAreHistory, AnswerIsOwn, ServedIsCurrent, InFlight, At,
          Prompt, Analysis
    <3> QED BY <1>2, <2>1, <3>2, <3>3, <3>4
  <2> QED BY <1>8, <1>9, <2>1, <2>3 DEF Generate
<1>10. ASSUME NEW r \in Requests, Save(r) PROVE CacheInv'
  <2> DEFINE row == [fingerprint |-> Prompt(r), response |-> req[r].answer]
  <2>1. At(r, "save") /\ UNCHANGED <<profile, content, model>>
    BY <1>10 DEF Save
  <2>2. CASE /\ profile[req[r].user] # Absent /\ content[req[r].job] # Absent
             /\ cache' = [cache EXCEPT ![Key(r)] = row]
             /\ Goto(r, "answered")
    <3>1. HistoryIsCurrent(r) /\ ReadsAreHistory(r) /\ AnswerIsOwn(r) /\ InFlight(r)
      BY <2>1 DEF ReqOk, InFlight, At
    <3>2. /\ req[r].user \in Users /\ req[r].job \in Jobs /\ req[r].model \in Models
          /\ req[r].profile \in Profiles /\ req[r].content \in Contents
      BY <2>1, <3>1, AnalysisConstants DEF HistoryIsCurrent, ReadsAreHistory, Typed, ReqRec, At
    <3>3. Key(r) \in CacheKeys /\ Key(r)[1] = req[r].job /\ Key(r)[2] = req[r].user
          /\ Key(r)[3] = req[r].model
      BY <3>2 DEF Key, CacheKeys
    <3>4. req[r].answer = [user |-> req[r].user, job |-> req[r].job, model |-> req[r].model,
                           prompt |-> Prompt(r)]
      BY <2>1, <3>1 DEF AnswerIsOwn
    <3>5. Prompt(r) \in Prompts /\ req[r].answer \in Answers /\ req[r].answer # NoAnswer
      BY <3>2, <3>4, AnalysisConstants DEF Prompts, Prompt, Answers, NoAnswer
    <3>6. row \in CacheRows
      BY <3>5 DEF CacheRows
    <3>7. cache'[Key(r)] = row /\ \A k \in CacheKeys \ {Key(r)} : cache'[k] = cache[k]
      BY <2>2, <3>3 DEF Typed
    <3>8. ServedIsCurrent(r)'
      <4>1. /\ req'[r].answer = req[r].answer /\ req'[r].user = req[r].user
            /\ req'[r].job = req[r].job /\ req'[r].profiles = req[r].profiles
            /\ req'[r].contents = req[r].contents /\ req'[r].models = req[r].models
        BY <2>2 DEF Goto, Typed, ReqRec
      <4> QED BY <2>1, <3>1, <3>4, <3>5, <4>1 DEF ServedIsCurrent, ReadsAreHistory, Prompt, At
    <3>9. (\A x \in Requests : ReqOk(x)') /\ req' \in [Requests -> ReqRec]
      BY <1>7, <2>1, <2>2, <3>8
    <3>10. Typed'
      BY <2>1, <2>2, <3>6, <3>9 DEF Typed
    <3>11. RowsAreOwn'
      BY <3>3, <3>4, <3>7 DEF RowsAreOwn
    <3>12. RowsHaveOwners'
      BY <2>1, <2>2, <3>3, <3>7 DEF RowsHaveOwners
    <3> QED BY <3>9, <3>10, <3>11, <3>12
  <2> QED BY <1>8, <1>10, <2>1, <2>2 DEF Save
\* What changes beside the requests: fields of a request that it does not see.
<1>11. ASSUME req' \in [Requests -> ReqRec],
              \A r \in Requests :
                /\ req'[r].pc = req[r].pc /\ req'[r].user = req[r].user
                /\ req'[r].job = req[r].job /\ req'[r].profile = req[r].profile
                /\ req'[r].content = req[r].content /\ req'[r].model = req[r].model
                /\ req'[r].answer = req[r].answer /\ req'[r].models = req[r].models
                /\ req[r].profiles \subseteq req'[r].profiles
                /\ req[r].contents \subseteq req'[r].contents
                /\ InFlight(r) =>
                     /\ profile'[req[r].user] \in req'[r].profiles \cup {Absent}
                     /\ content'[req[r].job] \in req'[r].contents \cup {Absent},
              UNCHANGED model
       PROVE  \A r \in Requests : ReqOk(r)'
  <2> TAKE r \in Requests
  <2>1. HistoryIsCurrent(r)'
    BY <1>11 DEF ReqOk, HistoryIsCurrent, InFlight
  <2>2. ReadsAreHistory(r)' /\ AnswerIsOwn(r)'
    BY <1>11 DEF ReqOk, ReadsAreHistory, AnswerIsOwn, Prompt, At
  <2>3. ServedIsCurrent(r)'
    BY <1>11 DEF ReqOk, ServedIsCurrent, At
  <2> QED BY <2>1, <2>2, <2>3 DEF ReqOk
<1>12. \A r \in Requests : InFlight(r) =>
          /\ req[r].user \in Users /\ req[r].job \in Jobs
          /\ profile[req[r].user] \in req[r].profiles \cup {Absent}
          /\ content[req[r].job] \in req[r].contents \cup {Absent}
  BY DEF ReqOk, HistoryIsCurrent
<1>13. CASE EditProfile
  <2>1. PICK u \in Users, p \in Profiles :
          /\ profile[u] \notin {Absent, p}
          /\ profile' = [profile EXCEPT ![u] = p]
          /\ req' = [r \in Requests |->
                      IF req[r].user = u /\ InFlight(r)
                      THEN [req[r] EXCEPT !.profiles = @ \cup {p}] ELSE req[r]]
    BY <1>13 DEF EditProfile
  <2>2. UNCHANGED <<content, cache, model>>
    BY <1>13 DEF EditProfile
  <2>3. req' \in [Requests -> ReqRec]
    BY <2>1, SMTT(40) DEF Typed, ReqRec
  <2>4. \A r \in Requests : ReqOk(r)'
    <3>1. \A r \in Requests :
            /\ req'[r].pc = req[r].pc /\ req'[r].user = req[r].user
            /\ req'[r].job = req[r].job /\ req'[r].profile = req[r].profile
            /\ req'[r].content = req[r].content /\ req'[r].model = req[r].model
            /\ req'[r].answer = req[r].answer /\ req'[r].models = req[r].models
            /\ req'[r].contents = req[r].contents /\ req[r].profiles \subseteq req'[r].profiles
            /\ req[r].user = u /\ InFlight(r) => p \in req'[r].profiles
      BY <2>1 DEF Typed, ReqRec
    <3>2. \A r \in Requests : InFlight(r) => profile'[req[r].user] \in req'[r].profiles \cup {Absent}
      BY <1>12, <2>1, <3>1 DEF Typed
    <3> QED BY <1>11, <1>12, <2>2, <2>3, <3>1, <3>2
  <2>5. Typed' /\ RowsAreOwn'
    BY <2>1, <2>2, <2>3 DEF Typed, RowsAreOwn
  <2>6. RowsHaveOwners'
    BY <2>1, <2>2, AnalysisConstants DEF RowsHaveOwners, Typed
  <2> QED BY <2>4, <2>5, <2>6
<1>14. CASE EditContent
  <2>1. PICK j \in Jobs, c \in Contents :
          /\ content[j] \notin {Absent, c}
          /\ content' = [content EXCEPT ![j] = c]
          /\ req' = [r \in Requests |->
                      IF req[r].job = j /\ InFlight(r)
                      THEN [req[r] EXCEPT !.contents = @ \cup {c}] ELSE req[r]]
    BY <1>14 DEF EditContent
  <2>2. UNCHANGED <<profile, cache, model>>
    BY <1>14 DEF EditContent
  <2>3. req' \in [Requests -> ReqRec]
    BY <2>1 DEF Typed, ReqRec
  <2>4. \A r \in Requests : ReqOk(r)'
    <3>1. \A r \in Requests :
            /\ req'[r].pc = req[r].pc /\ req'[r].user = req[r].user
            /\ req'[r].job = req[r].job /\ req'[r].profile = req[r].profile
            /\ req'[r].content = req[r].content /\ req'[r].model = req[r].model
            /\ req'[r].answer = req[r].answer /\ req'[r].models = req[r].models
            /\ req'[r].profiles = req[r].profiles /\ req[r].contents \subseteq req'[r].contents
            /\ req[r].job = j /\ InFlight(r) => c \in req'[r].contents
      BY <2>1 DEF Typed, ReqRec
    <3>2. \A r \in Requests : InFlight(r) => content'[req[r].job] \in req'[r].contents \cup {Absent}
      BY <1>12, <2>1, <3>1 DEF Typed
    <3> QED BY <1>11, <1>12, <2>2, <2>3, <3>1, <3>2
  <2>5. Typed' /\ RowsAreOwn'
    BY <2>1, <2>2, <2>3 DEF Typed, RowsAreOwn
  <2>6. RowsHaveOwners'
    BY <2>1, <2>2, AnalysisConstants DEF RowsHaveOwners, Typed
  <2> QED BY <2>4, <2>5, <2>6
<1>15. ASSUME \A k \in CacheKeys : cache'[k] \in {cache[k], NoRow},
              cache' \in [CacheKeys -> CacheRows \cup {NoRow}]
       PROVE  RowsAreOwn'
  BY <1>15 DEF RowsAreOwn
<1>16. CASE DeleteUser
  <2>1. PICK u \in Users :
          /\ profile' = [profile EXCEPT ![u] = Absent]
          /\ cache' = [k \in CacheKeys |-> IF k[2] = u THEN NoRow ELSE cache[k]]
    BY <1>16 DEF DeleteUser
  <2>2. UNCHANGED <<content, model, req>>
    BY <1>16 DEF DeleteUser
  <2>3. Typed'
    BY <2>1, <2>2 DEF Typed
  <2>4. RowsAreOwn'
    BY <1>15, <2>1, <2>3 DEF Typed
  <2>5. RowsHaveOwners'
    BY <2>1, <2>2 DEF RowsHaveOwners, Typed, CacheKeys
  <2>6. \A r \in Requests : ReqOk(r)'
    BY <1>11, <1>12, <2>1, <2>2 DEF Typed
  <2> QED BY <2>3, <2>4, <2>5, <2>6
<1>17. CASE DeleteJob
  <2>1. PICK j \in Jobs :
          /\ content' = [content EXCEPT ![j] = Absent]
          /\ cache' = [k \in CacheKeys |-> IF k[1] = j THEN NoRow ELSE cache[k]]
    BY <1>17 DEF DeleteJob
  <2>2. UNCHANGED <<profile, model, req>>
    BY <1>17 DEF DeleteJob
  <2>3. Typed'
    BY <2>1, <2>2 DEF Typed
  <2>4. RowsAreOwn'
    BY <1>15, <2>1, <2>3 DEF Typed
  <2>5. RowsHaveOwners'
    BY <2>1, <2>2 DEF RowsHaveOwners, Typed, CacheKeys
  <2>6. \A r \in Requests : ReqOk(r)'
    BY <1>11, <1>12, <2>1, <2>2 DEF Typed
  <2> QED BY <2>3, <2>4, <2>5, <2>6
<1>18. CASE ClearCache
  <2>1. UNCHANGED <<profile, content, model, req>>
    BY <1>18 DEF ClearCache
  <2>2. /\ \A k \in CacheKeys : cache'[k] \in {cache[k], NoRow}
        /\ cache' \in [CacheKeys -> CacheRows \cup {NoRow}]
    BY <1>18 DEF ClearCache, Typed
  <2>3. Typed' /\ RowsAreOwn' /\ RowsHaveOwners'
    BY <1>15, <2>1, <2>2 DEF Typed, RowsHaveOwners
  <2>4. \A r \in Requests : ReqOk(r)'
    BY <1>11, <1>12, <2>1 DEF Typed
  <2> QED BY <2>3, <2>4
<1>19. CASE Restart
  <2>1. /\ model' \in Models /\ UNCHANGED <<profile, content, cache>>
        /\ req' = [r \in Requests |-> NoRequest]
    BY <1>19 DEF Restart
  <2>2. NoRequest \in ReqRec
    BY DEF NoRequest, ReqRec, PCs
  <2>3. Typed' /\ RowsAreOwn' /\ RowsHaveOwners'
    BY <2>1, <2>2 DEF Typed, RowsAreOwn, RowsHaveOwners
  <2>4. \A r \in Requests : ReqOk(r)'
    BY <2>1 DEF NoRequest, ReqOk, HistoryIsCurrent, ReadsAreHistory, AnswerIsOwn,
                ServedIsCurrent, InFlight, At
  <2> QED BY <2>3, <2>4
<1> QED
  BY <1>1, <1>3, <1>4, <1>5, <1>6, <1>9, <1>10, <1>13, <1>14, <1>16, <1>17, <1>18, <1>19
  DEF Next, Proceed

LEMMA CacheAlways == Spec => []CacheInv
  BY CacheInit, CacheStep, PTL DEF Spec

-----------------------------------------------------------------------------
(* Theorems.                                                               *)

\* Every row of the cache has the shape that Save or an older version wrote, and every
\* request is at a step of Analyze.
THEOREM AnalysisTypeCorrect == Spec => []TypeOK
<1>1. CacheInv => TypeOK
  BY DEF CacheInv, Typed, ReqRec, TypeOK
<1> QED BY <1>1, CacheAlways, PTL

\* However requests overlap with each other, with edits, deletions, clearing and restarts:
\* a served analysis was generated from what was current during its request.
THEOREM AnswersStayCurrent == Spec => []AnswersAreCurrent
<1>1. CacheInv => AnswersAreCurrent
  BY DEF CacheInv, ReqOk, ServedIsCurrent, AnswersAreCurrent
<1> QED BY <1>1, CacheAlways, PTL

\* A save that comes after the deletion of its user or its posting leaves no row.
THEOREM RowsKeepOwners == Spec => []RowsHaveOwners
<1>1. CacheInv => RowsHaveOwners
  BY DEF CacheInv
<1> QED BY <1>1, CacheAlways, PTL

=============================================================================

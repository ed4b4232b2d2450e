--------------------------- MODULE AnalysisCache ---------------------------
(***************************************************************************)
(* The detailed analysis of one posting for one user: read the profile,    *)
(* the posting and the cache, call the language model on a miss, save the  *)
(* answer under (job, user, model) with a fingerprint of the prompt. The   *)
(* reads, the call and the save are separate steps; profiles, postings and *)
(* cache rows change and disappear between them, and requests for one key  *)
(* overlap.                                                                *)
(*                                                                         *)
(* An answer is recorded by what it was generated from. SHA-256 is taken   *)
(* to be injective: the fingerprint is the prompt.                         *)
(***************************************************************************)
EXTENDS Integers, FiniteSets

CONSTANTS
  Users, Jobs,
  Profiles,     \* what BuildProfileText tells apart
  Contents,     \* company, position and full_text of a posting
  Models,       \* GEMINI_MODEL values
  Absent,       \* marks a deleted user, a deleted posting, a missing row
  Requests,     \* bound: requests in flight at once
  MaxEdits,     \* bound: edits, deletions and restarts of a behaviour
  MaxRequests   \* bound: requests of a behaviour

ASSUME AnalysisConstants ==
  Absent \notin Users \cup Jobs \cup Profiles \cup Contents \cup Models

Prompts == [profile : Profiles, content : Contents]

Answers == [user : Users, job : Jobs, model : Models, prompt : Prompts]

\* A row saved before fingerprints existed unmarshals to an empty fingerprint and
\* an empty response.
NoPrompt == [profile |-> Absent, content |-> Absent]
NoAnswer == [user |-> Absent, job |-> Absent, model |-> Absent, prompt |-> NoPrompt]
LegacyRow == [fingerprint |-> NoPrompt, response |-> NoAnswer]

\* A row: the fingerprint and the response saved together.
CacheRows == [fingerprint : Prompts, response : Answers] \cup {LegacyRow}
NoRow == [fingerprint |-> Absent, response |-> Absent]
CacheKeys == Jobs \X Users \X Models

VARIABLES
  profile,   \* users joined with user_specs
  content,   \* silver_jobs
  cache,     \* analysis_cache, by its primary key
  model,     \* the server's GEMINI_MODEL
  req,       \* req[r]: where request r is and what it has read
  edits, made   \* so far (only for the bounds)

vars == <<profile, content, cache, model, req, edits, made>>

PCs == {"idle", "user", "job", "cache", "generate", "save", "answered", "error"}

\* profiles, contents and models: history, what was current at some moment of the
\* request.
NoRequest == [pc |-> "idle", user |-> Absent, job |-> Absent, profile |-> Absent,
              content |-> Absent, model |-> Absent, answer |-> NoAnswer,
              profiles |-> {}, contents |-> {}, models |-> {}]

Init ==
  /\ profile \in [Users -> Profiles]
  /\ content \in [Jobs -> Contents]
  /\ model \in Models
  /\ cache \in {[k \in CacheKeys |-> row] : row \in {NoRow, LegacyRow}}
  /\ req = [r \in Requests |-> NoRequest]
  /\ edits = 0
  /\ made = 0

At(r, pc) == req[r].pc = pc
Goto(r, pc) == req' = [req EXCEPT ![r].pc = pc]
Prompt(r) == [profile |-> req[r].profile, content |-> req[r].content]
Key(r) == <<req[r].job, req[r].user, req[r].model>>

-----------------------------------------------------------------------------
(* Analyze.                                                                *)

Arrive(r) ==
  /\ req[r].pc \in {"idle", "answered", "error"}
  /\ made < MaxRequests
  /\ made' = made + 1
  /\ \E u \in Users, j \in Jobs :
       req' = [req EXCEPT ![r] = [NoRequest EXCEPT
                 !.pc = "user", !.user = u, !.job = j,
                 !.profiles = {profile[u]}, !.contents = {content[j]}, !.models = {model}]]
  /\ UNCHANGED <<profile, content, cache, model, edits>>

\* Mutation: the missing user is not noticed.
ReadUser_NoNotFound(r) ==
  /\ At(r, "user")
  /\ req' = [req EXCEPT ![r].profile = profile[req[r].user], ![r].pc = "job"]
  /\ UNCHANGED <<profile, content, cache, model, edits, made>>

\* users.Info: no user, or a user without a spec, is a 404.
ReadUser(r) ==
  /\ At(r, "user")
  /\ LET p == profile[req[r].user]
     IN  req' = [req EXCEPT ![r].profile = p, ![r].pc = IF p = Absent THEN "error" ELSE "job"]
  /\ UNCHANGED <<profile, content, cache, model, edits, made>>

\* jobs.GetFull; the prompt is then complete, and the model name is read.
ReadJob(r) ==
  /\ At(r, "job")
  /\ LET c == content[req[r].job]
     IN  req' = [req EXCEPT ![r].content = c, ![r].model = model,
                            ![r].pc = IF c = Absent THEN "error" ELSE "cache"]
  /\ UNCHANGED <<profile, content, cache, model, edits, made>>

\* Mutation: any row under the key is a hit.
IsHit_AnyRow(row, prompt) == row # NoRow

IsHit(row, prompt) == row # NoRow /\ row.fingerprint = prompt

ReadCache(r) ==
  /\ At(r, "cache")
  /\ LET row == cache[Key(r)]
     IN  \/ /\ IsHit(row, Prompt(r))
            /\ req' = [req EXCEPT ![r].answer = row.response, ![r].pc = "answered"]
         \/ ~IsHit(row, Prompt(r)) /\ Goto(r, "generate")
  /\ UNCHANGED <<profile, content, cache, model, edits, made>>

\* What the language model makes of the prompt: one request, whose text is decoded.
Analysis(r) ==
  [user |-> req[r].user, job |-> req[r].job, model |-> req[r].model, prompt |-> Prompt(r)]

\* The call fails without a second try: no connection, a status, no candidate, another text.
Generate(r) ==
  /\ At(r, "generate")
  /\ \/ req' = [req EXCEPT ![r].pc = "save", ![r].answer = Analysis(r)]
     \/ Goto(r, "error")
  /\ UNCHANGED <<profile, content, cache, model, edits, made>>

\* Mutation: foreign_keys is off.
Save_NoForeignKeys(r) ==
  /\ At(r, "save")
  /\ cache' = [cache EXCEPT ![Key(r)] = [fingerprint |-> Prompt(r), response |-> req[r].answer]]
  /\ Goto(r, "answered")
  /\ UNCHANGED <<profile, content, model, edits, made>>

\* The upsert breaks a foreign key when the user or the posting is gone: a 500,
\* although the model has answered. The last writer of a key wins.
Save(r) ==
  /\ At(r, "save")
  /\ \/ /\ profile[req[r].user] # Absent /\ content[req[r].job] # Absent
        /\ cache' = [cache EXCEPT ![Key(r)] =
                       [fingerprint |-> Prompt(r), response |-> req[r].answer]]
        /\ Goto(r, "answered")
     \/ Goto(r, "error") /\ UNCHANGED cache
  /\ UNCHANGED <<profile, content, model, edits, made>>

-----------------------------------------------------------------------------
(* What changes meanwhile.                                                 *)

Edit == edits < MaxEdits /\ edits' = edits + 1

InFlight(r) == req[r].pc \notin {"idle", "answered", "error"}

\* UpdateMe or the admin's UpdateUser; never for a user that is gone.
EditProfile ==
  /\ Edit
  /\ \E u \in Users, p \in Profiles :
       /\ profile[u] \notin {Absent, p}
       /\ profile' = [profile EXCEPT ![u] = p]
       /\ req' = [r \in Requests |->
                   IF req[r].user = u /\ InFlight(r)
                   THEN [req[r] EXCEPT !.profiles = @ \cup {p}] ELSE req[r]]
  /\ UNCHANGED <<content, cache, model, made>>

\* Silver stores new contents of the posting.
EditContent ==
  /\ Edit
  /\ \E j \in Jobs, c \in Contents :
       /\ content[j] \notin {Absent, c}
       /\ content' = [content EXCEPT ![j] = c]
       /\ req' = [r \in Requests |->
                   IF req[r].job = j /\ InFlight(r)
                   THEN [req[r] EXCEPT !.contents = @ \cup {c}] ELSE req[r]]
  /\ UNCHANGED <<profile, cache, model, made>>

\* Deletions cascade to the cache, and their ids are never used again.
DeleteUser ==
  /\ Edit
  /\ \E u \in Users :
       /\ profile' = [profile EXCEPT ![u] = Absent]
       /\ cache' = [k \in CacheKeys |-> IF k[2] = u THEN NoRow ELSE cache[k]]
  /\ UNCHANGED <<content, model, req, made>>

DeleteJob ==
  /\ Edit
  /\ \E j \in Jobs :
       /\ content' = [content EXCEPT ![j] = Absent]
       /\ cache' = [k \in CacheKeys |-> IF k[1] = j THEN NoRow ELSE cache[k]]
  /\ UNCHANGED <<profile, model, req, made>>

\* The admin clears the cache, or one posting's and user's rows of every model.
ClearCache ==
  /\ Edit
  /\ \/ cache' = [k \in CacheKeys |-> NoRow]
     \/ \E j \in Jobs, u \in Users :
          cache' = [k \in CacheKeys |-> IF k[1] = j /\ k[2] = u THEN NoRow ELSE cache[k]]
  /\ UNCHANGED <<profile, content, model, req, made>>

\* The server restarts, perhaps with another GEMINI_MODEL; requests are lost.
Restart ==
  /\ Edit
  /\ model' \in Models
  /\ req' = [r \in Requests |-> NoRequest]
  /\ UNCHANGED <<profile, content, cache, made>>

Proceed(r) == ReadUser(r) \/ ReadJob(r) \/ ReadCache(r) \/ Generate(r) \/ Save(r)

Next ==
  \/ \E r \in Requests : Arrive(r) \/ Proceed(r)
  \/ EditProfile \/ EditContent \/ DeleteUser \/ DeleteJob \/ ClearCache \/ Restart

Spec == Init /\ [][Next]_vars

-----------------------------------------------------------------------------
(* Properties.                                                             *)

TypeOK ==
  /\ profile \in [Users -> Profiles \cup {Absent}]
  /\ content \in [Jobs -> Contents \cup {Absent}]
  /\ \A k \in CacheKeys : cache[k] = NoRow \/ cache[k] \in CacheRows
  /\ model \in Models
  /\ \A r \in Requests :
       /\ req[r].pc \in PCs
       /\ req[r].user \in Users \cup {Absent} /\ req[r].job \in Jobs \cup {Absent}
       /\ req[r].profile \in Profiles \cup {Absent}
       /\ req[r].content \in Contents \cup {Absent}
       /\ req[r].model \in Models \cup {Absent}
       /\ req[r].answer \in Answers \cup {NoAnswer}

\* An analysis, from the cache or not, was generated by the configured model for
\* this user and this posting, from a profile and a posting that were both current
\* at some moment of the request: an old answer that a slow request saves late is
\* never served (analysis.go, on the fingerprint).
AnswersAreCurrent ==
  \A r \in Requests : At(r, "answered") =>
    LET a == req[r].answer
    IN  /\ a # NoAnswer
        /\ a.user = req[r].user /\ a.job = req[r].job
        /\ a.model \in req[r].models
        /\ a.prompt.profile \in req[r].profiles
        /\ a.prompt.content \in req[r].contents

\* Every row that outlives its request belongs to a user and a posting that exist:
\* a save that loses the race against a deletion leaves nothing behind.
RowsHaveOwners ==
  \A k \in CacheKeys : cache[k] # NoRow => profile[k[2]] # Absent /\ content[k[1]] # Absent

=============================================================================

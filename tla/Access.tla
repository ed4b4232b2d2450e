------------------------------- MODULE Access -------------------------------
(***************************************************************************)
(* Requests to the API of a server with AUTH_REQUIRED=true, beside the     *)
(* logins and user commands of module Accounts: the guard that looks up    *)
(* the session's user, the admin and owner checks that read the session a  *)
(* second time, and the handler that reads or changes accounts after them. *)
(* Between any two of these steps the session may expire and other calls   *)
(* may delete, create or change users.                                     *)
(*                                                                         *)
(* The routes differ in their checks, not in what the checks protect, so   *)
(* one kind stands for each chain of checks: "users" (GET users), "user"   *)
(* (recommend and analyze), "me", "updateMe", and "admin" (its deletion of *)
(* a user stands for all the routes behind adminGuard).                    *)
(***************************************************************************)
EXTENDS Accounts

CONSTANTS
  Requests,  \* bound: API requests in flight at once
  Admins     \* AUTH_ADMIN_USER_IDS; the server does not start with an id below 1

ASSUME AdminsAssumption == Admins \subseteq Nat \ {0}

VARIABLE req  \* req[r]: the request in flight, or the one answered last

accessVars == <<vars, req>>

Guarded == {"users", "user", "admin"}
ReqKinds == Guarded \cup {"me", "updateMe", "none"}
ReqPCs == {"idle", "auth", "lookup", "permit", "act", "write", "done"}

\* session: the token, as a set of at most one; live: it has not expired; target: the
\* id in the path; scope: the ids the handler was let at; about: the accounts the answer
\* tells of or changed. fresh: history, the session's user existed on arrival.
NoRequest == [kind |-> "none", pc |-> "idle", session |-> {}, live |-> FALSE, target |-> 0,
              scope |-> {}, about |-> {}, fresh |-> FALSE]

AccessInit == Init /\ req = [r \in Requests |-> NoRequest]

ReqAt(r, pc) == req[r].pc = pc
Reject(r) == req' = [req EXCEPT ![r] = NoRequest]

\* The user id of the request's token.
SessionUser(r) == (CHOOSE t \in req[r].session : TRUE).user

\* users.Info joins the spec: a user without one is not found.
Found(id) == Exists(id) /\ id \in specs

Request(r) ==
  /\ ReqAt(r, "idle") \/ ReqAt(r, "done")
  /\ made < MaxCalls
  /\ made' = made + 1
  /\ \E kind \in ReqKinds \ {"none"}, t \in tokens, id \in Ids :
       /\ kind \in {"user", "admin"} \/ id = 1
       /\ req' = [req EXCEPT ![r] =
            [NoRequest EXCEPT !.kind = kind, !.pc = "auth", !.session = {t}, !.live = TRUE,
                              !.target = id, !.fresh = Exists(t.user)]]
  /\ UNCHANGED <<userId, nextId, specs, link, tokens, call, owner>>

\* The session's time is over.
Expire(r) ==
  /\ req[r].pc \in {"auth", "lookup", "permit"}
  /\ req[r].live
  /\ req' = [req EXCEPT ![r].live = FALSE]
  /\ UNCHANGED vars

\* Authenticated, in the guard or in the handlers of me; else 401.
Authenticate(r) ==
  /\ ReqAt(r, "auth")
  /\ \/ /\ req[r].live
        /\ IF req[r].kind \in Guarded
           THEN req' = [req EXCEPT ![r].pc = "lookup"]
           ELSE req' = [req EXCEPT ![r].pc = "act", ![r].scope = {SessionUser(r)}]
     \/ ~req[r].live /\ Reject(r)
  /\ UNCHANGED vars

\* Mutation: the guard trusts the token and does not look the user up.
GuardLookup_TokenOnly(r) ==
  /\ ReqAt(r, "lookup")
  /\ req' = [req EXCEPT ![r].pc = "permit"]
  /\ UNCHANGED vars

\* The guard's Me: an account that is gone is a 401.
GuardLookup(r) ==
  /\ ReqAt(r, "lookup")
  /\ \/ Found(SessionUser(r)) /\ req' = [req EXCEPT ![r].pc = "permit"]
     \/ ~Found(SessionUser(r)) /\ Reject(r)
  /\ UNCHANGED vars

\* Mutation: canAccessUser compares the ids only if the session is still there.
Scope_LapsedPasses(r) ==
  LET admin == SessionUser(r) \in Admins
  IN  CASE req[r].kind = "admin" -> {id \in {req[r].target} : req[r].live /\ admin}
        [] req[r].kind = "user" ->
             {id \in {req[r].target} : req[r].live => admin \/ id = SessionUser(r)}
        [] OTHER -> {id \in Ids : req[r].live /\ (admin \/ id = SessionUser(r))}

\* The session is read again: adminGuard wants an admin, canAccessUser the owner or an
\* admin, listUsers shows an admin everybody and others themselves.
Scope(r) ==
  LET admin == SessionUser(r) \in Admins
      mine == {id \in Ids : req[r].live /\ (admin \/ id = SessionUser(r))}
  IN  CASE req[r].kind = "admin" -> {id \in {req[r].target} : req[r].live /\ admin}
        [] req[r].kind = "user" -> {req[r].target} \cap mine
        [] OTHER -> mine

\* No scope: 403, or the 404 of listUsers.
Permit(r) ==
  /\ ReqAt(r, "permit")
  /\ \/ Scope(r) # {} /\ req' = [req EXCEPT ![r].pc = "act", ![r].scope = Scope(r)]
     \/ Scope(r) = {} /\ Reject(r)
  /\ UNCHANGED vars

Answered(r, ids) == req' = [req EXCEPT ![r].pc = "done", ![r].about = ids]

\* The handler's read: users.Info of the one, or ListSummaries. An id not found is a 404.
Read(r) ==
  /\ ReqAt(r, "act")
  /\ req[r].kind \in {"users", "user", "me"}
  /\ Answered(r, {id \in req[r].scope : Found(id)})
  /\ UNCHANGED vars

\* ops.DeleteUser: 404 or one statement that cascades.
Delete(r) ==
  /\ ReqAt(r, "act")
  /\ req[r].kind = "admin"
  /\ LET gone == {id \in req[r].scope : Exists(id)}
     IN  /\ userId' = [n \in Names |-> IF userId[n] \in gone THEN 0 ELSE userId[n]]
         /\ specs' = specs \ gone
         /\ link' = [p \in Persons |-> IF link[p] \in gone THEN 0 ELSE link[p]]
         /\ Answered(r, gone)
  /\ UNCHANGED <<nextId, tokens, call, made, owner>>

\* UpdateMe's GetByID; an account that is gone is a 404.
FindMe(r) ==
  /\ ReqAt(r, "act")
  /\ req[r].kind = "updateMe"
  /\ \/ Exists(SessionUser(r)) /\ req' = [req EXCEPT ![r].pc = "write"]
     \/ ~Exists(SessionUser(r)) /\ Reject(r)
  /\ UNCHANGED vars

\* UpdateMe's UpsertSpec; the foreign key refuses a user deleted meanwhile (RequestFails).
WriteMe(r) ==
  /\ ReqAt(r, "write")
  /\ Exists(SessionUser(r))
  /\ specs' = specs \cup {SessionUser(r)}
  /\ Answered(r, {SessionUser(r)})
  /\ UNCHANGED <<userId, nextId, link, tokens, call, made, owner>>

\* A statement fails: a 500 without effect.
RequestFails(r) ==
  /\ req[r].pc \in {"lookup", "act", "write"}
  /\ Reject(r)
  /\ UNCHANGED vars

AccessStep(r) ==
  \/ Request(r) \/ Expire(r) \/ Authenticate(r) \/ GuardLookup(r) \/ Permit(r)
  \/ Read(r) \/ Delete(r) \/ FindMe(r) \/ WriteMe(r) \/ RequestFails(r)

AccessNext ==
  \/ Next /\ UNCHANGED req
  \/ \E r \in Requests : AccessStep(r)

AccessSpec == AccessInit /\ [][AccessNext]_accessVars

-----------------------------------------------------------------------------
(* Properties.                                                             *)

\* Whoever sees or changes an account through the API is the person it was created for
\* or holds an admin's account, whatever is deleted, created or runs out between the
\* checks and the handler.
OwnersAndAdminsOnly ==
  \A r \in Requests : \A t \in req[r].session :
    t.user \in Admins \/ \A id \in req[r].about : owner[id] = t.person

\* A session that outlived its account, an admin's too, opens nothing: what arrives
\* after the deletion gets no answer about anyone and changes nothing.
DeletedUsersAreOut ==
  \A r \in Requests : req[r].about # {} => req[r].fresh

=============================================================================

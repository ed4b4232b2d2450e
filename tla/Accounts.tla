------------------------------ MODULE Accounts ------------------------------
(***************************************************************************)
(* Users, their specs, the identities that lead to them and the sessions   *)
(* issued for them: the social login with its automatic sign-up, the       *)
(* profile update of a logged-in user, the admin's and the CLI's user      *)
(* commands, and the seed. Every call is a chain of single statements      *)
(* without a transaction around them, so calls interleave between any two  *)
(* and a failure leaves what was already written.                          *)
(*                                                                         *)
(* A session token is its user id: the signature is taken to be            *)
(* unforgeable, and expiry, which only takes tokens away, is left out.     *)
(***************************************************************************)
EXTENDS Integers, FiniteSets

CONSTANTS
  Persons,   \* (provider, provider_user_id) pairs
  Bases,     \* usernames that usernameFor or the admin come up with
  Base,      \* Base[p]: usernameFor(p)
  TryLimit,  \* names createUser tries before it gives up (99 in the code)
  Calls,     \* bound: calls in flight at once
  MaxIds,    \* bound: users ever created
  MaxCalls   \* bound: calls of a behaviour

ASSUME AccountsConstants == MaxIds \in Nat /\ TryLimit \in Nat \ {0} /\ Base \in [Persons -> Bases]

\* base, base-2, base-3, ...
Names == Bases \X (1 .. TryLimit)

VARIABLES
  userId,   \* users: the id of the row with this username, or 0
  nextId,   \* the AUTOINCREMENT counter of users
  specs,    \* user_specs: user ids
  link,     \* auth_identities: user id per person, or 0
  tokens,   \* session tokens out there, and (history) whose login got them
  call,     \* call[c]: the call in flight and its locals
  made,     \* calls so far (only for MaxCalls)
  owner     \* history: who a user id was created for, as a set of at most one person

vars == <<userId, nextId, specs, link, tokens, call, made, owner>>

Ids == 1 .. MaxIds
Exists(id) == \E n \in Names : userId[n] = id /\ id # 0

Kinds == {"login", "create", "seed", "update", "none"}
PCs == {"idle", "find", "insert", "byName", "byId", "spec", "link", "info"}

\* expect: history, the account the person's identity led to when the login arrived.
Idle == [kind |-> "none", pc |-> "idle", person |-> {}, name |-> <<>>, user |-> 0, expect |-> 0]

Init ==
  /\ userId = [n \in Names |-> 0]
  /\ nextId = 1
  /\ specs = {}
  /\ link = [p \in Persons |-> 0]
  /\ tokens = {}
  /\ call = [c \in Calls |-> Idle]
  /\ made = 0
  /\ owner = [i \in Ids |-> {}]

At(c, pc) == call[c].pc = pc
Goto(c, pc) == call' = [call EXCEPT ![c].pc = pc]
End(c) == call' = [call EXCEPT ![c] = Idle]

-----------------------------------------------------------------------------
(* Calls arrive.                                                           *)

Arrive(c, state) ==
  /\ At(c, "idle")
  /\ made < MaxCalls
  /\ made' = made + 1
  /\ call' = [call EXCEPT ![c] = state]
  /\ UNCHANGED <<userId, nextId, specs, link, tokens, owner>>

\* Login, its provider's Exchange done.
Login(c) ==
  \E p \in Persons :
    Arrive(c, [Idle EXCEPT !.kind = "login", !.pc = "find", !.person = {p},
                           !.name = <<Base[p], 1>>, !.expect = link[p]])

\* CreateUser and seedUsers take any username.
CreateUser(c) ==
  \E n \in Names : Arrive(c, [Idle EXCEPT !.kind = "create", !.pc = "insert", !.name = n])

SeedUser(c) ==
  \E n \in Names : Arrive(c, [Idle EXCEPT !.kind = "seed", !.pc = "insert", !.name = n])

\* UpdateUser takes an id from the URL, UpdateMe the one in its session token.
Update(c) ==
  \E id \in {i \in Ids : i < nextId} \cup {t.user : t \in tokens} :
    Arrive(c, [Idle EXCEPT !.kind = "update", !.pc = "byId", !.user = id])

-----------------------------------------------------------------------------
(* The statements.                                                         *)

\* identities.FindUserID.
FindIdentity(c) ==
  /\ At(c, "find")
  /\ \E p \in call[c].person :
       call' = [call EXCEPT ![c].user = link[p],
                            ![c].pc = IF link[p] # 0 THEN "info" ELSE "insert"]
  /\ UNCHANGED <<userId, nextId, specs, link, tokens, made, owner>>

\* Mutation: a plain INTEGER PRIMARY KEY takes the largest id in use plus one.
NewId_PlainRowid ==
  CHOOSE i \in 1 .. MaxIds + 1 :
    /\ \A n \in Names : userId[n] < i
    /\ i = 1 \/ Exists(i - 1)

NewId == nextId

\* Mutation: the sign-up links the identity before the spec is written.
InsertUser_LinkFirst(c) ==
  /\ At(c, "insert")
  /\ userId[call[c].name] = 0
  /\ NewId <= MaxIds
  /\ userId' = [userId EXCEPT ![call[c].name] = NewId]
  /\ nextId' = nextId + 1
  /\ owner' = [owner EXCEPT ![NewId] = call[c].person]
  /\ call' = [call EXCEPT ![c].user = NewId,
                          ![c].pc = IF call[c].kind = "login" THEN "link" ELSE "spec"]
  /\ UNCHANGED <<specs, link, tokens, made>>

\* users.Insert of a name that is free. A login links the new user after its spec.
InsertUser(c) ==
  /\ At(c, "insert")
  /\ userId[call[c].name] = 0
  /\ NewId <= MaxIds
  /\ userId' = [userId EXCEPT ![call[c].name] = NewId]
  /\ nextId' = nextId + 1
  /\ owner' = [owner EXCEPT ![NewId] = call[c].person]
  /\ call' = [call EXCEPT ![c].user = NewId, ![c].pc = "spec"]
  /\ UNCHANGED <<specs, link, tokens, made>>

\* The name is taken: the login tries the next suffix and gives up after the last,
\* CreateUser answers 409, the seed looks the row up.
NameTaken(c) ==
  /\ At(c, "insert")
  /\ userId[call[c].name] # 0
  /\ CASE call[c].kind = "seed" -> Goto(c, "byName")
       [] call[c].kind = "login" /\ call[c].name[2] < TryLimit ->
            call' = [call EXCEPT ![c].name[2] = @ + 1]
       [] OTHER -> End(c)
  /\ UNCHANGED <<userId, nextId, specs, link, tokens, made, owner>>

\* users.FindByUsername; a row that is gone again fails the seed.
FindByName(c) ==
  /\ At(c, "byName")
  /\ LET id == userId[call[c].name]
     IN  \/ id # 0 /\ call' = [call EXCEPT ![c].user = id, ![c].pc = "spec"]
         \/ id = 0 /\ End(c)
  /\ UNCHANGED <<userId, nextId, specs, link, tokens, made, owner>>

\* users.GetByID; an unknown id is a 404.
FindById(c) ==
  /\ At(c, "byId")
  /\ \/ Exists(call[c].user) /\ Goto(c, "spec")
     \/ ~Exists(call[c].user) /\ End(c)
  /\ UNCHANGED <<userId, nextId, specs, link, tokens, made, owner>>

\* Mutation: foreign_keys is off.
WriteSpec_NoForeignKeys(c) ==
  /\ At(c, "spec")
  /\ specs' = specs \cup {call[c].user}
  /\ IF call[c].kind = "login" THEN Goto(c, "link") ELSE End(c)
  /\ UNCHANGED <<userId, nextId, link, tokens, made, owner>>

\* users.UpsertSpec; the foreign key refuses a user that was deleted meanwhile (Fail).
WriteSpec(c) ==
  /\ At(c, "spec")
  /\ Exists(call[c].user)
  /\ specs' = specs \cup {call[c].user}
  /\ IF call[c].kind = "login" THEN Goto(c, "link") ELSE End(c)
  /\ UNCHANGED <<userId, nextId, link, tokens, made, owner>>

\* Mutation: ON CONFLICT DO UPDATE: the last login of a race wins.
Link_LastWins(c) ==
  /\ At(c, "link")
  /\ Exists(call[c].user)
  /\ link' = [p \in Persons |-> IF p \in call[c].person THEN call[c].user ELSE link[p]]
  /\ Goto(c, "info")
  /\ UNCHANGED <<userId, nextId, specs, tokens, made, owner>>

\* identities.Link: ON CONFLICT DO NOTHING keeps the first link; a new one needs its
\* user (else Fail).
Link(c) ==
  /\ At(c, "link")
  /\ \E p \in call[c].person :
       \/ link[p] # 0 /\ UNCHANGED link
       \/ link[p] = 0 /\ Exists(call[c].user) /\ link' = [link EXCEPT ![p] = call[c].user]
  /\ Goto(c, "info")
  /\ UNCHANGED <<userId, nextId, specs, tokens, made, owner>>

\* userResponse (a user without a spec is a 404), and sessions.Issue.
IssueSession(c) ==
  /\ At(c, "info")
  /\ tokens' = IF Exists(call[c].user) /\ call[c].user \in specs
               THEN tokens \cup {[user |-> call[c].user, person |-> call[c].person]}
               ELSE tokens
  /\ End(c)
  /\ UNCHANGED <<userId, nextId, specs, link, made, owner>>

\* A statement fails or the process dies; the statements before it stay.
Fail(c) ==
  /\ call[c].pc # "idle"
  /\ End(c)
  /\ UNCHANGED <<userId, nextId, specs, link, tokens, made, owner>>

\* The admin's or the CLI's DeleteUser: one statement that cascades. Session tokens
\* are not stored and stay out there.
DeleteUser ==
  /\ made < MaxCalls
  /\ made' = made + 1
  /\ \E id \in Ids :
       /\ Exists(id)
       /\ userId' = [n \in Names |-> IF userId[n] = id THEN 0 ELSE userId[n]]
       /\ specs' = specs \ {id}
       /\ link' = [p \in Persons |-> IF link[p] = id THEN 0 ELSE link[p]]
  /\ UNCHANGED <<nextId, tokens, call, owner>>

Step(c) ==
  \/ Login(c) \/ CreateUser(c) \/ SeedUser(c) \/ Update(c)
  \/ FindIdentity(c) \/ InsertUser(c) \/ NameTaken(c) \/ FindByName(c) \/ FindById(c)
  \/ WriteSpec(c) \/ Link(c) \/ IssueSession(c) \/ Fail(c)

Next == DeleteUser \/ \E c \in Calls : Step(c)

Spec == Init /\ [][Next]_vars

-----------------------------------------------------------------------------
(* Properties.                                                             *)

TypeOK ==
  /\ userId \in [Names -> Ids \cup {0}]
  /\ nextId \in 1 .. MaxIds + 1
  /\ specs \subseteq {i \in Ids : Exists(i)}
  /\ link \in [Persons -> Ids \cup {0}]
  /\ \A t \in tokens : t.user \in Ids /\ t.person \in {{p} : p \in Persons}
  /\ \A c \in Calls :
       /\ call[c].kind \in Kinds /\ call[c].pc \in PCs
       /\ call[c].name \in Names \cup {<<>>}
       /\ call[c].user \in Ids \cup {0} /\ call[c].expect \in Ids \cup {0}
       /\ \A p \in call[c].person : p \in Persons
  /\ owner \in [Ids -> SUBSET Persons]

\* A session never opens someone else's account: as long as its user exists, it is
\* the account that was created for the person who logged in, also after the
\* account was deleted and others have signed up since.
SessionOpensOwnAccount ==
  \A t \in tokens : Exists(t.user) => owner[t.user] = t.person

\* An identity that leads to a user leads to a complete one: the user exists and has
\* the spec that Me, the API guard and the recommendations join with.
LinkedUsersAreComplete ==
  \A p \in Persons : link[p] # 0 => Exists(link[p]) /\ link[p] \in specs

\* A login that arrives once the identity is linked gets that account, unless it is
\* deleted meanwhile, whatever sign-ups of the same identity are still in flight
\* (auth_test.go: logging in again must give the same user).
ReloginIsSameUser ==
  \A c \in Calls : At(c, "info") /\ Exists(call[c].expect) => call[c].user = call[c].expect

=============================================================================

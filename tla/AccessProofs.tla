---------------------------- MODULE AccessProofs ----------------------------
(***************************************************************************)
(* For any persons, calls, requests, ids and admins: a session opens no    *)
(* account but its person's, a linked account is complete, and the guard   *)
(* lets nobody at an account who is neither its owner nor an admin. For    *)
(* any people, tabs and numbers of consent screens and callbacks: the      *)
(* browser is logged in as nobody who has not consented in it.             *)
(***************************************************************************)
EXTENDS Access, LoginFlow, TLAPS

CallRec == [kind : Kinds, pc : PCs, person : SUBSET Persons, name : Names \cup {<<>>},
            user : Ids \cup {0}, expect : Ids \cup {0}]

Token == [user : Ids, person : {{p} : p \in Persons}]

ReqRec == [kind : ReqKinds, pc : ReqPCs, session : SUBSET Token, live : BOOLEAN,
           target : Ids \cup {0}, scope : SUBSET (Ids \cup {0}),
           about : SUBSET (Ids \cup {0}), fresh : BOOLEAN]

\* The ids of users.
Users == {userId[n] : n \in Names} \ {0}

Typed ==
  /\ userId \in [Names -> Ids \cup {0}]
  /\ nextId \in 1 .. MaxIds + 1
  /\ specs \subseteq Ids
  /\ link \in [Persons -> Ids \cup {0}]
  /\ tokens \subseteq Token
  /\ call \in [Calls -> CallRec]
  /\ owner \in [Ids -> SUBSET Persons]

\* Every id that anybody knows was handed out: the next one is new to everybody.
IdsAreOld ==
  /\ \A n \in Names : userId[n] < nextId
  /\ \A p \in Persons : link[p] < nextId
  /\ \A t \in tokens : t.user < nextId
  /\ \A c \in Calls : call[c].user < nextId /\ call[c].expect < nextId

SpecsHaveUsers == specs \subseteq Users

LinksOwn == \A p \in Persons : link[p] # 0 => owner[link[p]] = {p}

TokensOwn == \A t \in tokens : owner[t.user] = t.person

LinksComplete == \A p \in Persons : link[p] # 0 => link[p] \in Users \cap specs

\* What a call knows. A login that was to find the account expect is not past the
\* look-up without it unless the account is gone.
CallOk(c) ==
  /\ call[c].pc \in {"find", "insert", "byName"} => call[c].name \in Names
  /\ call[c].pc \in {"find", "link", "info"} => call[c].kind = "login"
  /\ call[c].pc \in {"byName", "byId"} => call[c].kind # "login"
  /\ call[c].kind = "login" => \E p \in Persons : call[c].person = {p}
  /\ call[c].kind = "login" /\ call[c].pc \in {"spec", "link", "info"} =>
       call[c].user \in Ids /\ owner[call[c].user] = call[c].person
  /\ call[c].pc = "link" /\ call[c].user \in Users => call[c].user \in specs
  /\ call[c].pc = "find" /\ call[c].expect \in Users =>
       \A p \in call[c].person : link[p] = call[c].expect
  /\ call[c].kind = "login" /\ call[c].pc \in {"insert", "spec", "link"} =>
       call[c].expect \notin Users
  /\ call[c].pc = "info" /\ call[c].expect \in Users => call[c].user = call[c].expect

AccountsInv ==
  /\ Typed
  /\ IdsAreOld
  /\ SpecsHaveUsers
  /\ LinksOwn
  /\ TokensOwn
  /\ LinksComplete
  /\ \A c \in Calls : CallOk(c)

-----------------------------------------------------------------------------

\* Nobody brings a user back or takes one's spec alone, no id changes its owner, and a link
\* goes only with its user.
Onward ==
  /\ nextId <= nextId'
  /\ tokens \subseteq tokens'
  /\ \A i \in Ids : i < nextId => (i \in Users' => i \in Users) /\ owner'[i] = owner[i]
  /\ \A i \in specs : i \in Users' => i \in specs'
  /\ \A p \in Persons : link[p] # 0 => link'[p] = link[p] \/ link[p] \notin Users'

LEMMA ExistsIsUser == \A id : Exists(id) <=> id \in Users
  BY DEF Exists, Users

\* Zero is nobody's id.
LEMMA NobodyIsZero == 0 \notin Users /\ 0 \notin Users'
  BY DEF Users

\* A call that does not move stays right.
LEMMA CallStays ==
  ASSUME AccountsInv, Onward, NEW c \in Calls, call'[c] = call[c]
  PROVE  CallOk(c)'
<1> DEFINE k == call[c]
<1>1. /\ k.user \in Ids \cup {0} /\ k.expect \in Ids \cup {0}
      /\ k.person \subseteq Persons
      /\ k.user < nextId /\ k.expect < nextId /\ CallOk(c)
  BY DEF AccountsInv, Typed, CallRec, IdsAreOld
<1>2. k.user \in Users' => k.user \in Users
  BY <1>1, NobodyIsZero DEF Onward
<1>3. k.expect \in Users' => k.expect \in Users
  BY <1>1, NobodyIsZero DEF Onward
<1>4. k.user \in Ids => owner'[k.user] = owner[k.user]
  BY <1>1 DEF Onward
<1>5. k.pc = "find" /\ k.expect \in Users' => \A p \in k.person : link'[p] = k.expect
  BY <1>1, <1>3, NobodyIsZero DEF CallOk, Onward
<1>6. k.pc = "link" /\ k.user \in Users' => k.user \in specs'
  BY <1>1, <1>2 DEF CallOk, Onward
<1> HIDE DEF k
<1>7. k = call[c] /\ k = call'[c]
  BY DEF k
<1> QED BY <1>1, <1>2, <1>3, <1>4, <1>5, <1>6, <1>7 DEF CallOk

\* So the others stay right when one call moves.
LEMMA OneCallMoves ==
  ASSUME AccountsInv, Onward, NEW c \in Calls, NEW k \in CallRec,
         call' = [call EXCEPT ![c] = k], CallOk(c)'
  PROVE  call' \in [Calls -> CallRec] /\ call'[c] = k /\ \A d \in Calls : CallOk(d)'
<1>1. call' \in [Calls -> CallRec] /\ call'[c] = k /\ \A d \in Calls \ {c} : call'[d] = call[d]
  BY DEF AccountsInv, Typed
<1>2. \A d \in Calls : CallOk(d)'
  BY <1>1, CallStays
<1> QED BY <1>1, <1>2

\* A step of call c alone, which leaves the tables as they are.
LEMMA LocalStep ==
  ASSUME AccountsInv, NEW c \in Calls, NEW k \in CallRec,
         call' = [call EXCEPT ![c] = k], k.user < nextId, k.expect < nextId,
         UNCHANGED <<userId, nextId, specs, link, tokens, owner>>, CallOk(c)'
  PROVE  AccountsInv' /\ Onward
<1>1. Onward
  BY DEF Onward, AccountsInv, Typed, Users
<1>2. call' \in [Calls -> CallRec] /\ call'[c] = k /\ \A d \in Calls \ {c} : call'[d] = call[d]
  BY DEF AccountsInv, Typed
<1>3. Typed' /\ IdsAreOld'
  BY <1>2 DEF AccountsInv, Typed, IdsAreOld
<1>4. \A d \in Calls : CallOk(d)'
  BY <1>1, OneCallMoves
<1> QED
  BY <1>1, <1>3, <1>4 DEF AccountsInv, SpecsHaveUsers, LinksOwn, TokensOwn,
                          LinksComplete, Users

LEMMA NextIsPositive == AccountsInv => nextId \in Nat /\ 0 < nextId
  BY AccountsConstants DEF AccountsInv, Typed

\* A call ends.
LEMMA CallEnds ==
  ASSUME AccountsInv, NEW c \in Calls, End(c),
         UNCHANGED <<userId, nextId, specs, link, tokens, owner>>
  PROVE  AccountsInv' /\ Onward
<1>1. /\ Idle \in CallRec /\ Idle.user = 0 /\ Idle.expect = 0
      /\ Idle.pc = "idle" /\ Idle.kind = "none"
  BY DEF Idle, CallRec, Kinds, PCs
<1>2. call'[c] = Idle
  BY DEF End, AccountsInv, Typed
<1>3. CallOk(c)'
  BY <1>1, <1>2 DEF CallOk
<1> QED BY <1>1, <1>3, NextIsPositive, LocalStep DEF End

\* A call goes on to pc with the user it found.
LEMMA CallGoesOn ==
  ASSUME AccountsInv, NEW c \in Calls, NEW pc \in PCs, NEW user \in Ids \cup {0},
         user < nextId, call' = [call EXCEPT ![c].user = user, ![c].pc = pc],
         UNCHANGED <<userId, nextId, specs, link, tokens, owner>>, CallOk(c)'
  PROVE  AccountsInv' /\ Onward
<1>1. PICK k \in CallRec : k = [call[c] EXCEPT !.user = user, !.pc = pc]
  BY DEF AccountsInv, Typed, CallRec
<1>2. call' = [call EXCEPT ![c] = k]
  BY <1>1 DEF AccountsInv, Typed
<1>3. k.user = user /\ k.expect = call[c].expect
  BY <1>1 DEF AccountsInv, Typed, CallRec
<1>4. k.expect < nextId
  BY <1>3 DEF AccountsInv, IdsAreOld
<1> QED BY <1>2, <1>3, <1>4, LocalStep

\* What moves of a call when it moves on to pc.
LEMMA MovedCall ==
  ASSUME AccountsInv, NEW c \in Calls, NEW pc \in PCs,
         Goto(c, pc)
  PROVE  /\ call' = [call EXCEPT ![c] = [call[c] EXCEPT !.pc = pc]]
         /\ call' = [call EXCEPT ![c].user = call[c].user, ![c].pc = pc]
         /\ call'[c].pc = pc /\ call'[c].kind = call[c].kind
         /\ call'[c].person = call[c].person /\ call'[c].name = call[c].name
         /\ call'[c].user = call[c].user /\ call'[c].expect = call[c].expect
         /\ [call[c] EXCEPT !.pc = pc] \in CallRec
         /\ call[c].user \in Ids \cup {0} /\ call[c].expect \in Ids \cup {0}
  BY DEF AccountsInv, Typed, CallRec, Goto

-----------------------------------------------------------------------------

LEMMA ArriveStep ==
  ASSUME AccountsInv, NEW c \in Calls, Login(c) \/ CreateUser(c) \/ SeedUser(c) \/ Update(c)
  PROVE  AccountsInv' /\ Onward
<1> USE NextIsPositive
<1>0. Idle \in CallRec /\ Idle.user = 0 /\ Idle.expect = 0
  BY DEF Idle, CallRec, Kinds, PCs
<1>1. CASE Login(c)
  <2>1. PICK p \in Persons :
          Arrive(c, [Idle EXCEPT !.kind = "login", !.pc = "find", !.person = {p},
                                 !.name = <<Base[p], 1>>, !.expect = link[p]])
    BY <1>1 DEF Login
  <2>2. link[p] \in Ids \cup {0} /\ link[p] < nextId
    BY DEF AccountsInv, Typed, IdsAreOld
  <2>3. <<Base[p], 1>> \in Names
    BY AccountsConstants DEF Names
  <2>4. PICK k \in CallRec :
          /\ k = [Idle EXCEPT !.kind = "login", !.pc = "find", !.person = {p},
                              !.name = <<Base[p], 1>>, !.expect = link[p]]
          /\ k.kind = "login" /\ k.pc = "find" /\ k.person = {p} /\ k.name \in Names
          /\ k.expect = link[p] /\ k.user = 0
    <3>1. [Idle EXCEPT !.kind = "login", !.pc = "find", !.person = {p},
                              !.name = <<Base[p], 1>>, !.expect = link[p]] \in CallRec
      BY <1>0, <2>2, <2>3 DEF CallRec, Kinds, PCs
    <3> QED BY <1>0, <3>1 DEF CallRec
  <2>5. call' = [call EXCEPT ![c] = k] /\ UNCHANGED <<userId, nextId, specs, link, tokens, owner>>
    BY <2>1, <2>4 DEF Arrive
  <2>6. call'[c] = k
    BY <2>5 DEF AccountsInv, Typed
  <2>7. CallOk(c)'
    BY <2>4, <2>5, <2>6 DEF CallOk
  <2> QED BY <2>2, <2>4, <2>5, <2>7, LocalStep
<1>2. CASE CreateUser(c) \/ SeedUser(c)
  <2>1. PICK n \in Names, kind \in {"create", "seed"} :
          Arrive(c, [Idle EXCEPT !.kind = kind, !.pc = "insert", !.name = n])
    BY <1>2 DEF CreateUser, SeedUser
  <2>2. PICK k \in CallRec :
          /\ k = [Idle EXCEPT !.kind = kind, !.pc = "insert", !.name = n]
          /\ k.kind = kind /\ k.pc = "insert" /\ k.name = n /\ k.expect = 0 /\ k.user = 0
    <3>1. [Idle EXCEPT !.kind = kind, !.pc = "insert", !.name = n] \in CallRec
      BY <1>0 DEF CallRec, Kinds, PCs
    <3> QED BY <1>0, <3>1 DEF CallRec
  <2>3. call' = [call EXCEPT ![c] = k] /\ UNCHANGED <<userId, nextId, specs, link, tokens, owner>>
    BY <2>1, <2>2 DEF Arrive
  <2>4. call'[c] = k
    BY <2>3 DEF AccountsInv, Typed
  <2>5. CallOk(c)'
    BY <2>2, <2>4 DEF CallOk
  <2> QED BY <2>2, <2>3, <2>5, LocalStep
<1>3. CASE Update(c)
  <2>1. PICK id \in {i \in Ids : i < nextId} \cup {t.user : t \in tokens} :
          Arrive(c, [Idle EXCEPT !.kind = "update", !.pc = "byId", !.user = id])
    BY <1>3 DEF Update
  <2>2. id \in Ids /\ id < nextId
    BY DEF AccountsInv, Typed, Token, IdsAreOld
  <2>3. PICK k \in CallRec :
          /\ k = [Idle EXCEPT !.kind = "update", !.pc = "byId", !.user = id]
          /\ k.kind = "update" /\ k.pc = "byId" /\ k.expect = 0 /\ k.user = id
    <3>1. [Idle EXCEPT !.kind = "update", !.pc = "byId", !.user = id] \in CallRec
      BY <1>0, <2>2 DEF CallRec, Kinds, PCs
    <3> QED BY <1>0, <3>1 DEF CallRec
  <2>4. call' = [call EXCEPT ![c] = k] /\ UNCHANGED <<userId, nextId, specs, link, tokens, owner>>
    BY <2>1, <2>3 DEF Arrive
  <2>5. call'[c] = k
    BY <2>4 DEF AccountsInv, Typed
  <2>6. CallOk(c)'
    BY <2>3, <2>5 DEF CallOk
  <2> QED BY <2>2, <2>3, <2>4, <2>6, LocalStep
<1> QED BY <1>1, <1>2, <1>3

LEMMA LookupStep ==
  ASSUME AccountsInv, NEW c \in Calls, FindIdentity(c) \/ FindByName(c) \/ FindById(c)
  PROVE  AccountsInv' /\ Onward
<1>0. CallOk(c) /\ call \in [Calls -> CallRec]
  BY DEF AccountsInv, Typed
<1>1. CASE FindIdentity(c)
  <2>1. PICK p \in Persons :
          /\ call[c].pc = "find" /\ call[c].kind = "login" /\ call[c].person = {p}
          /\ call' = [call EXCEPT ![c].user = link[p],
                                  ![c].pc = IF link[p] # 0 THEN "info" ELSE "insert"]
    <3>1. call[c].pc = "find" /\ call[c].kind = "login"
      BY <1>0, <1>1 DEF FindIdentity, At, CallOk
    <3>2. PICK p \in Persons : call[c].person = {p}
      BY <1>0, <3>1 DEF CallOk
    <3> QED BY <1>1, <3>1, <3>2 DEF FindIdentity
  <2>2. link[p] \in Ids \cup {0} /\ link[p] < nextId
    BY DEF AccountsInv, Typed, IdsAreOld
  <2>3. PICK pc \in PCs : pc = IF link[p] # 0 THEN "info" ELSE "insert"
    BY DEF PCs
  <2>4. /\ call'[c].pc = pc /\ call'[c].kind = "login" /\ call'[c].person = {p}
        /\ call'[c].name = call[c].name /\ call'[c].user = link[p]
        /\ call'[c].expect = call[c].expect
    BY <1>0, <2>1, <2>3 DEF CallRec
  <2>5. UNCHANGED <<userId, nextId, specs, link, tokens, owner>> /\ Users' = Users
    BY <1>1 DEF FindIdentity, Users
  <2>6. link[p] # 0 => link[p] \in Ids /\ owner[link[p]] = {p}
    BY <2>2 DEF AccountsInv, LinksOwn
  <2>7. call[c].expect \in Users => link[p] = call[c].expect
    BY <1>0, <2>1 DEF CallOk
  <2>8. call[c].name \in Names
    BY <1>0, <2>1 DEF CallOk
  <2>9. CallOk(c)'
    BY <2>3, <2>4, <2>5, <2>6, <2>7, <2>8, NobodyIsZero DEF CallOk
  <2> QED BY <2>1, <2>2, <2>3, <2>5, <2>9, CallGoesOn
<1>2. CASE FindByName(c)
  <2>1. call[c].pc = "byName" /\ UNCHANGED <<userId, nextId, specs, link, tokens, owner>>
    BY <1>2 DEF FindByName, At
  <2>2. call[c].name \in Names /\ call[c].kind # "login"
    BY <1>0, <2>1 DEF CallOk
  <2>3. CASE End(c)
    BY <2>1, <2>3, CallEnds
  <2>4. CASE ~End(c)
    <3>1. PICK id \in Ids \cup {0} :
            id < nextId /\ call' = [call EXCEPT ![c].user = id, ![c].pc = "spec"]
      BY <1>2, <2>2, <2>4 DEF FindByName, AccountsInv, Typed, IdsAreOld
    <3>2. call'[c].pc = "spec" /\ call'[c].kind = call[c].kind
      BY <1>0, <3>1 DEF CallRec
    <3>3. CallOk(c)'
      BY <2>2, <3>2 DEF CallOk
    <3>4. "spec" \in PCs
      BY DEF PCs
    <3> QED BY <2>1, <3>1, <3>3, <3>4, CallGoesOn
  <2> QED BY <2>3, <2>4
<1>3. CASE FindById(c)
  <2>1. call[c].pc = "byId" /\ UNCHANGED <<userId, nextId, specs, link, tokens, owner>>
    BY <1>3 DEF FindById, At
  <2>2. CASE End(c)
    BY <2>1, <2>2, CallEnds
  <2>3. CASE Goto(c, "spec")
    <3>1. "spec" \in PCs
      BY DEF PCs
    <3>2. CallOk(c)'
      BY <1>0, <2>1, <2>3, <3>1, MovedCall DEF CallOk
    <3>3. call[c].user < nextId
      BY DEF AccountsInv, IdsAreOld
    <3>4. /\ call[c].user \in Ids \cup {0}
          /\ call' = [call EXCEPT ![c].user = call[c].user, ![c].pc = "spec"]
      BY <2>3, <3>1, MovedCall
    <3> QED BY <2>1, <3>1, <3>2, <3>3, <3>4, CallGoesOn
  <2> QED BY <1>3, <2>2, <2>3 DEF FindById
<1> QED BY <1>1, <1>2, <1>3

\* A new user gets an id that nobody has ever known.
LEMMA InsertStep ==
  ASSUME AccountsInv, NEW c \in Calls, InsertUser(c)
  PROVE  AccountsInv' /\ Onward
<1>0. /\ CallOk(c) /\ call \in [Calls -> CallRec] /\ call[c] \in CallRec
      /\ nextId \in Ids /\ nextId' = nextId + 1 /\ NewId = nextId
      /\ UNCHANGED <<specs, link, tokens>>
  BY AccountsConstants DEF AccountsInv, Typed, InsertUser, NewId, Ids
<1>1. /\ call[c].pc = "insert" /\ call[c].name \in Names
      /\ userId' = [userId EXCEPT ![call[c].name] = nextId]
      /\ owner' = [owner EXCEPT ![nextId] = call[c].person]
      /\ call' = [call EXCEPT ![c].user = nextId, ![c].pc = "spec"]
  BY <1>0 DEF InsertUser, At, CallOk
<1>2. PICK k \in CallRec :
        /\ call' = [call EXCEPT ![c] = k] /\ k.pc = "spec" /\ k.user = nextId
        /\ k.kind = call[c].kind /\ k.person = call[c].person /\ k.name = call[c].name
        /\ k.expect = call[c].expect
  <2>1. [call[c] EXCEPT !.user = nextId, !.pc = "spec"] \in CallRec
    BY <1>0 DEF CallRec, PCs
  <2>2. call' = [call EXCEPT ![c] = [call[c] EXCEPT !.user = nextId, !.pc = "spec"]]
    BY <1>0, <1>1
  <2> QED BY <1>0, <2>1, <2>2 DEF CallRec
<1>3. call' \in [Calls -> CallRec] /\ call'[c] = k /\ \A d \in Calls \ {c} : call'[d] = call[d]
  BY <1>0, <1>2
<1>4. userId' \in [Names -> Ids \cup {0}] /\ owner' \in [Ids -> SUBSET Persons]
  BY <1>0, <1>1 DEF AccountsInv, Typed, CallRec
<1>5. owner'[nextId] = call[c].person /\ \A i \in Ids : i # nextId => owner'[i] = owner[i]
  BY <1>0, <1>1 DEF AccountsInv, Typed
<1>6. Users' \subseteq Users \cup {nextId} /\ Users \subseteq Users' /\ nextId \notin Users
  <2>1. userId[call[c].name] = 0
    BY DEF InsertUser
  <2>2. \A n \in Names : userId'[n] = IF n = call[c].name THEN nextId ELSE userId[n]
    BY <1>1 DEF AccountsInv, Typed
  <2>3. \A n \in Names : userId[n] # nextId
    BY <1>0 DEF AccountsInv, IdsAreOld, Typed, Ids
  <2> QED BY <1>1, <2>1, <2>2, <2>3 DEF Users
<1>7. nextId \in Nat /\ \A i \in Ids : i \in Nat
  BY NextIsPositive DEF Ids
<1>8. Onward
  <2>1. nextId <= nextId' /\ \A i \in Ids : i < nextId => i # nextId
    BY <1>0, <1>7
  <2>2. \A i \in Ids : i < nextId => (i \in Users' => i \in Users) /\ owner'[i] = owner[i]
    BY <1>5, <1>6, <2>1, Zenon
  <2> QED BY <1>0, <2>1, <2>2 DEF Onward
<1>9. Typed'
  BY <1>0, <1>3, <1>4, AccountsConstants DEF AccountsInv, Typed, Ids, Token
<1>10. IdsAreOld'
  <2>1. nextId < nextId' /\ \A i \in Ids \cup {0} : i < nextId => i < nextId'
    BY <1>0, <1>7
  <2>2. \A n \in Names : userId'[n] < nextId'
    <3>1. \A n \in Names : userId'[n] = IF n = call[c].name THEN nextId ELSE userId[n]
      BY <1>1 DEF AccountsInv, Typed
    <3>2. \A n \in Names : userId[n] \in Ids \cup {0} /\ userId[n] < nextId
      BY DEF AccountsInv, IdsAreOld, Typed
    <3> QED BY <2>1, <3>1, <3>2
  <2>3. \A p \in Persons : link'[p] < nextId'
    BY <1>0, <2>1 DEF AccountsInv, IdsAreOld, Typed
  <2>4. \A t \in tokens' : t.user < nextId'
    BY <1>0, <2>1 DEF AccountsInv, IdsAreOld, Typed, Token
  <2>5. \A d \in Calls : call'[d].user < nextId' /\ call'[d].expect < nextId'
    <3>1. call'[c].user < nextId' /\ call'[c].expect < nextId'
      <4>1. call[c].expect < nextId /\ call[c].expect \in Ids \cup {0}
        BY <1>0 DEF AccountsInv, IdsAreOld, CallRec
      <4> QED BY <1>2, <1>3, <2>1, <4>1
    <3>2. ASSUME NEW d \in Calls \ {c}
          PROVE  call'[d].user < nextId' /\ call'[d].expect < nextId'
      <4>1. call[d] \in CallRec /\ call[d].user < nextId /\ call[d].expect < nextId
        BY <1>0 DEF AccountsInv, IdsAreOld
      <4> QED BY <1>3, <2>1, <4>1 DEF CallRec
    <3> QED BY <3>1, <3>2
  <2> QED BY <2>2, <2>3, <2>4, <2>5 DEF IdsAreOld
<1>11. SpecsHaveUsers' /\ LinksComplete'
  BY <1>0, <1>6 DEF AccountsInv, SpecsHaveUsers, LinksComplete
<1>12. LinksOwn'
  <2>1. \A p \in Persons : link[p] # 0 => link[p] \in Ids /\ link[p] # nextId
    BY <1>0, <1>7 DEF AccountsInv, IdsAreOld, Typed
  <2> QED BY <1>0, <1>5, <2>1 DEF AccountsInv, LinksOwn
<1>13. TokensOwn'
  BY <1>0, <1>5, <1>7 DEF AccountsInv, TokensOwn, IdsAreOld, Typed, Token
<1>14. CallOk(c)'
  <2>1. call[c].expect < nextId /\ call[c].expect \in Ids \cup {0}
    BY <1>0 DEF AccountsInv, IdsAreOld, CallRec
  <2>2. call[c].kind = "login" => call[c].expect \notin Users'
    BY <1>0, <1>1, <1>6, <1>7, <2>1 DEF CallOk
  <2> QED BY <1>0, <1>1, <1>2, <1>3, <1>5, <2>2 DEF CallOk
<1>15. \A d \in Calls : CallOk(d)'
  BY <1>2, <1>8, <1>14, OneCallMoves
<1> QED BY <1>8, <1>9, <1>10, <1>11, <1>12, <1>13, <1>15 DEF AccountsInv

LEMMA NameTakenStep ==
  ASSUME AccountsInv, NEW c \in Calls, NameTaken(c)
  PROVE  AccountsInv' /\ Onward
<1>0. /\ CallOk(c) /\ call[c] \in CallRec /\ call[c].pc = "insert" /\ call[c].name \in Names
      /\ UNCHANGED <<userId, nextId, specs, link, tokens, owner>> /\ Users' = Users
  BY DEF AccountsInv, Typed, NameTaken, At, CallOk, Users
<1>1. CASE call[c].kind = "seed"
  <2>1. Goto(c, "byName") /\ "byName" \in PCs
    BY <1>1 DEF NameTaken, PCs
  <2>2. CallOk(c)'
    BY <1>0, <1>1, <2>1, MovedCall DEF CallOk
  <2>3. call[c].user < nextId /\ call[c].expect < nextId
    BY DEF AccountsInv, IdsAreOld
  <2>4. /\ call[c].user \in Ids \cup {0}
        /\ call' = [call EXCEPT ![c].user = call[c].user, ![c].pc = "byName"]
    BY <2>1, MovedCall
  <2> QED BY <1>0, <2>1, <2>2, <2>3, <2>4, CallGoesOn
<1>2. CASE call[c].kind = "login" /\ call[c].name[2] < TryLimit
  <2>1. call' = [call EXCEPT ![c].name[2] = @ + 1]
    BY <1>2 DEF NameTaken
  <2>2. PICK b \in Bases, i \in 1 .. TryLimit : call[c].name = <<b, i>>
    BY <1>0 DEF Names
  <2>3. PICK m \in Names : m = <<b, i + 1>>
    <3>1. i < TryLimit
      BY <1>2, <2>2
    <3>2. i + 1 \in 1 .. TryLimit
      BY <3>1, AccountsConstants
    <3> QED BY <3>2 DEF Names
  <2>4. [call[c].name EXCEPT ![2] = @ + 1] = m
    BY <2>2, <2>3
  <2>5. call' = [call EXCEPT ![c] = [call[c] EXCEPT !.name = m]]
    BY <1>0, <2>1, <2>4 DEF AccountsInv, Typed
  <2>6. PICK k \in CallRec :
          /\ k = [call[c] EXCEPT !.name = m] /\ k.name \in Names
          /\ k.pc = "insert" /\ k.kind = "login" /\ k.person = call[c].person
          /\ k.user = call[c].user /\ k.expect = call[c].expect
    <3>1. [call[c] EXCEPT !.name = m] \in CallRec
      BY <1>0 DEF CallRec
    <3> QED BY <1>0, <1>2, <3>1 DEF CallRec
  <2>7. call'[c] = k
    BY <2>5, <2>6 DEF AccountsInv, Typed
  <2>8. CallOk(c)'
    BY <1>0, <1>2, <2>6, <2>7 DEF CallOk
  <2>9. k.user < nextId /\ k.expect < nextId
    BY <2>6 DEF AccountsInv, IdsAreOld
  <2> QED BY <1>0, <2>5, <2>6, <2>8, <2>9, LocalStep
<1>3. CASE call[c].kind # "seed" /\ ~(call[c].kind = "login" /\ call[c].name[2] < TryLimit)
  BY <1>0, <1>3, CallEnds DEF NameTaken
<1> QED BY <1>1, <1>2, <1>3

\* A spec for a user that exists, by a call or by UpdateMe.
LEMMA SpecAdded ==
  ASSUME AccountsInv, NEW id \in Users, specs' = specs \cup {id},
         UNCHANGED <<userId, nextId, link, tokens, owner>>
  PROVE  /\ Onward /\ Users' = Users
         /\ call' = call => AccountsInv'
         /\ call' \in [Calls -> CallRec] /\ (\A d \in Calls : CallOk(d)')
            /\ (\A d \in Calls : call'[d].user < nextId /\ call'[d].expect < nextId)
              => AccountsInv'
<1>1. Users' = Users /\ Users \subseteq Ids
  BY DEF Users, AccountsInv, Typed
<1>2. Onward
  BY <1>1 DEF Onward, AccountsInv, Typed
<1>3. SpecsHaveUsers' /\ LinksOwn' /\ TokensOwn' /\ LinksComplete'
  BY <1>1 DEF AccountsInv, SpecsHaveUsers, LinksOwn, TokensOwn, LinksComplete
<1>4. ASSUME call' \in [Calls -> CallRec], \A d \in Calls : CallOk(d)',
             \A d \in Calls : call'[d].user < nextId /\ call'[d].expect < nextId
      PROVE  AccountsInv'
  BY <1>1, <1>3, <1>4 DEF AccountsInv, Typed, IdsAreOld
<1>5. ASSUME call' = call PROVE AccountsInv'
  <2>1. \A d \in Calls : CallOk(d)'
    BY <1>2, <1>5, CallStays
  <2> QED BY <1>4, <1>5, <2>1 DEF AccountsInv, Typed, IdsAreOld
<1> QED BY <1>1, <1>2, <1>4, <1>5

LEMMA WriteSpecStep ==
  ASSUME AccountsInv, NEW c \in Calls, WriteSpec(c)
  PROVE  AccountsInv' /\ Onward
<1>0. /\ CallOk(c) /\ call[c].pc = "spec" /\ call[c].user \in Users
      /\ specs' = specs \cup {call[c].user}
      /\ UNCHANGED <<userId, nextId, link, tokens, owner>>
  BY ExistsIsUser DEF AccountsInv, WriteSpec, At
<1>1. Onward /\ Users' = Users
  BY <1>0, SpecAdded
<1>2. PICK k \in CallRec :
        /\ call' = [call EXCEPT ![c] = k] /\ CallOk(c)'
        /\ k.user < nextId /\ k.expect < nextId
  <2>1. CASE call[c].kind = "login"
    <3>1. Goto(c, "link") /\ "link" \in PCs
      BY <2>1 DEF WriteSpec, PCs
    <3>2. CallOk(c)'
      BY <1>0, <1>1, <2>1, <3>1, MovedCall DEF CallOk
    <3>3. PICK k \in CallRec :
            /\ call' = [call EXCEPT ![c] = k]
            /\ k.user = call[c].user /\ k.expect = call[c].expect
      <4>1. call[c] \in CallRec
        BY DEF AccountsInv, Typed
      <4>2. /\ [call[c] EXCEPT !.pc = "link"] \in CallRec
            /\ call' = [call EXCEPT ![c] = [call[c] EXCEPT !.pc = "link"]]
        BY <3>1, MovedCall
      <4> QED BY <4>1, <4>2 DEF CallRec
    <3> QED BY <3>2, <3>3 DEF AccountsInv, IdsAreOld
  <2>2. CASE call[c].kind # "login"
    <3>1. End(c)
      BY <2>2 DEF WriteSpec
    <3>2. Idle \in CallRec /\ Idle.user = 0 /\ Idle.expect = 0 /\ Idle.pc = "idle" /\ Idle.kind = "none"
      BY DEF Idle, CallRec, Kinds, PCs
    <3>3. call'[c] = Idle
      BY <3>1 DEF End, AccountsInv, Typed
    <3>4. CallOk(c)'
      BY <3>2, <3>3 DEF CallOk
    <3> QED BY <3>1, <3>2, <3>4, NextIsPositive DEF End
  <2> QED BY <2>1, <2>2
<1>3. call' \in [Calls -> CallRec] /\ \A d \in Calls : CallOk(d)'
  BY <1>1, <1>2, OneCallMoves
<1>4. \A d \in Calls : call'[d].user < nextId /\ call'[d].expect < nextId
  BY <1>2 DEF AccountsInv, Typed, IdsAreOld
<1> QED BY <1>0, <1>1, <1>3, <1>4, SpecAdded

LEMMA LinkStep ==
  ASSUME AccountsInv, NEW c \in Calls, Link(c)
  PROVE  AccountsInv' /\ Onward
<1>0. /\ CallOk(c) /\ call[c].pc = "link" /\ call[c].kind = "login" /\ Goto(c, "info")
      /\ UNCHANGED <<userId, nextId, specs, tokens, owner>> /\ Users' = Users
      /\ "info" \in PCs
  BY DEF AccountsInv, Link, At, CallOk, Users, PCs
<1>1. PICK p \in Persons :
        /\ call[c].person = {p}
        /\ \/ link[p] # 0 /\ link' = link
           \/ link[p] = 0 /\ call[c].user \in Users /\ link' = [link EXCEPT ![p] = call[c].user]
  <2>1. PICK p \in Persons : call[c].person = {p}
    BY <1>0 DEF CallOk
  <2> QED BY <2>1, ExistsIsUser DEF Link
<1>2. call[c].user \in Ids /\ call[c].user < nextId /\ owner[call[c].user] = {p}
  BY <1>0, <1>1 DEF CallOk, AccountsInv, IdsAreOld
<1>3. call[c].user \in Users => call[c].user \in specs
  BY <1>0 DEF CallOk
<1>4. CallOk(c)'
  BY <1>0, MovedCall DEF CallOk
<1>5. link' \in [Persons -> Ids \cup {0}]
  BY <1>1, <1>2 DEF AccountsInv, Typed
<1>6. \A q \in Persons :
        link'[q] = link[q] \/ (q = p /\ link[p] = 0 /\ call[c].user \in Users /\ link'[q] = call[c].user)
  BY <1>1 DEF AccountsInv, Typed
<1>7. Onward
  BY <1>0, <1>6 DEF Onward, AccountsInv, Typed
<1>8. PICK k \in CallRec :
        /\ call' = [call EXCEPT ![c] = k]
        /\ k.user = call[c].user /\ k.expect = call[c].expect
  <2>1. call[c] \in CallRec
    BY DEF AccountsInv, Typed
  <2> QED BY <1>0, <2>1, MovedCall DEF CallRec
<1>9. call' \in [Calls -> CallRec] /\ \A d \in Calls : CallOk(d)'
  BY <1>4, <1>7, <1>8, OneCallMoves
<1>10. Typed' /\ IdsAreOld'
  <2>1. Typed'
    BY <1>0, <1>5, <1>9 DEF AccountsInv, Typed
  <2>2. \A q \in Persons : link'[q] < nextId
    BY <1>2, <1>6 DEF AccountsInv, IdsAreOld
  <2>3. \A d \in Calls : call'[d].user < nextId /\ call'[d].expect < nextId
    BY <1>8 DEF AccountsInv, Typed, IdsAreOld
  <2> QED BY <1>0, <2>1, <2>2, <2>3 DEF AccountsInv, IdsAreOld
<1>11. LinksOwn' /\ LinksComplete'
  BY <1>0, <1>2, <1>3, <1>6 DEF AccountsInv, LinksOwn, LinksComplete
<1> QED
  BY <1>0, <1>7, <1>9, <1>10, <1>11 DEF AccountsInv, SpecsHaveUsers, TokensOwn

LEMMA IssueStep ==
  ASSUME AccountsInv, NEW c \in Calls, IssueSession(c)
  PROVE  AccountsInv' /\ Onward
<1>0. /\ CallOk(c) /\ call[c].pc = "info" /\ call[c].kind = "login" /\ End(c)
      /\ UNCHANGED <<userId, nextId, specs, link, owner>> /\ Users' = Users
  BY DEF AccountsInv, IssueSession, At, CallOk, Users
<1>1. PICK p \in Persons : call[c].person = {p}
  BY <1>0 DEF CallOk
<1>2. call[c].user \in Ids /\ call[c].user < nextId /\ owner[call[c].user] = {p}
  BY <1>0, <1>1 DEF CallOk, AccountsInv, IdsAreOld
<1>3. tokens \subseteq tokens' /\ tokens' \subseteq tokens \cup {[user |-> call[c].user, person |-> {p}]}
  BY <1>1 DEF IssueSession
<1>4. [user |-> call[c].user, person |-> {p}] \in Token
  BY <1>2 DEF Token
<1>5. Onward
  BY <1>0, <1>3 DEF Onward, AccountsInv, Typed
<1>6. /\ Idle \in CallRec /\ Idle.user = 0 /\ Idle.expect = 0
      /\ Idle.pc = "idle" /\ Idle.kind = "none"
  BY DEF Idle, CallRec, Kinds, PCs
<1>7. call'[c] = Idle
  BY <1>0 DEF End, AccountsInv, Typed
<1>8. CallOk(c)'
  BY <1>6, <1>7 DEF CallOk
<1>9. call' \in [Calls -> CallRec] /\ \A d \in Calls : CallOk(d)'
  BY <1>0, <1>5, <1>6, <1>8, OneCallMoves DEF End
<1>10. Typed' /\ TokensOwn'
  <2>1. Typed'
    BY <1>0, <1>3, <1>4, <1>9 DEF AccountsInv, Typed
  <2>2. \A t \in tokens' : owner[t.user] = t.person
    <3>1. ASSUME NEW t \in tokens', t \notin tokens PROVE owner[t.user] = t.person
      <4>1. t = [user |-> call[c].user, person |-> {p}]
        BY <1>3, <3>1
      <4> QED BY <1>2, <4>1
    <3> QED BY <3>1 DEF AccountsInv, TokensOwn
  <2> QED BY <1>0, <2>1, <2>2 DEF TokensOwn
<1>11. IdsAreOld'
  <2>1. \A d \in Calls : call'[d].user < nextId /\ call'[d].expect < nextId
    BY <1>0, <1>6, NextIsPositive DEF End, AccountsInv, Typed, IdsAreOld
  <2> QED BY <1>0, <1>2, <1>3, <2>1 DEF AccountsInv, IdsAreOld
<1> QED
  BY <1>0, <1>5, <1>9, <1>10, <1>11 DEF AccountsInv, SpecsHaveUsers, LinksOwn, LinksComplete

\* Deleting users, by DeleteUser or by an admin's request: all or nothing of each.
LEMMA UsersRemoved ==
  ASSUME AccountsInv, NEW gone,
         userId' = [n \in Names |-> IF userId[n] \in gone THEN 0 ELSE userId[n]],
         specs' = specs \ gone,
         link' = [p \in Persons |-> IF link[p] \in gone THEN 0 ELSE link[p]],
         UNCHANGED <<nextId, tokens, call, owner>>
  PROVE  AccountsInv' /\ Onward
<1>1. Users' = Users \ gone
  BY DEF Users
<1>2. Onward
  BY <1>1 DEF Onward, AccountsInv, Typed
<1>3. \A d \in Calls : CallOk(d)'
  BY <1>2, CallStays
<1>4. Typed' /\ IdsAreOld'
  BY NextIsPositive DEF AccountsInv, Typed, IdsAreOld
<1>5. SpecsHaveUsers' /\ LinksOwn' /\ TokensOwn' /\ LinksComplete'
  BY <1>1 DEF AccountsInv, SpecsHaveUsers, LinksOwn, TokensOwn, LinksComplete
<1> QED BY <1>2, <1>3, <1>4, <1>5 DEF AccountsInv

LEMMA AccountsStep ==
  ASSUME AccountsInv, [Next]_vars
  PROVE  AccountsInv' /\ Onward
<1>1. CASE DeleteUser
  <2>1. PICK id \in Ids :
          /\ userId' = [n \in Names |-> IF userId[n] = id THEN 0 ELSE userId[n]]
          /\ specs' = specs \ {id}
          /\ link' = [p \in Persons |-> IF link[p] = id THEN 0 ELSE link[p]]
    BY <1>1 DEF DeleteUser
  <2>2. /\ userId' = [n \in Names |-> IF userId[n] \in {id} THEN 0 ELSE userId[n]]
        /\ link' = [p \in Persons |-> IF link[p] \in {id} THEN 0 ELSE link[p]]
    BY <2>1
  <2> QED BY <1>1, <2>1, <2>2, UsersRemoved DEF DeleteUser
<1>2. ASSUME NEW c \in Calls, Fail(c) PROVE AccountsInv' /\ Onward
  BY <1>2, CallEnds DEF Fail
<1>3. CASE UNCHANGED vars
  <2>1. UNCHANGED <<userId, nextId, specs, link, tokens, call, owner>> /\ Users' = Users
    BY <1>3 DEF vars, Users
  <2>2. Onward
    BY <2>1 DEF Onward, AccountsInv, Typed
  <2>3. \A d \in Calls : CallOk(d)'
    BY <2>1, <2>2, CallStays
  <2> QED BY <2>1, <2>2, <2>3 DEF AccountsInv, Typed, IdsAreOld, SpecsHaveUsers, LinksOwn,
                                  TokensOwn, LinksComplete
<1> QED
  BY <1>1, <1>2, <1>3, ArriveStep, LookupStep, InsertStep, NameTakenStep, WriteSpecStep,
     LinkStep, IssueStep
  DEF Next, Step

-----------------------------------------------------------------------------
(* Requests.                                                               *)

\* The scope of a request is its own account, or its session is an admin's; and whoever
\* passed the guard, or was answered about anybody, had an account on arrival.
ReqOk(r) ==
  /\ req[r].pc = "idle" => req[r].session = {}
  /\ req[r].pc # "idle" => \E t \in tokens : req[r].session = {t}
  /\ req[r].pc \in {"lookup", "permit"} => req[r].kind \in Guarded
  /\ req[r].session = {} => req[r].about = {}
  /\ \A t \in req[r].session :
       /\ ~req[r].fresh => t.user \notin Users
       /\ t.user \in Admins \/ req[r].scope \cup req[r].about \subseteq {t.user}
       /\ req[r].kind \in Guarded /\ req[r].pc \in {"permit", "act"} => req[r].fresh
       /\ req[r].kind \notin Guarded /\ req[r].pc = "act" => req[r].scope \subseteq {t.user}
       /\ req[r].about # {} => req[r].fresh

ReqInv == req \in [Requests -> ReqRec] /\ \A r \in Requests : ReqOk(r)

AccessInv == AccountsInv /\ ReqInv

LEMMA ReqStays ==
  ASSUME AccountsInv, ReqInv, Onward, NEW r \in Requests, req'[r] = req[r]
  PROVE  ReqOk(r)'
<1> DEFINE q == req[r]
<1>1. q \in ReqRec /\ ReqOk(r) /\ q = req'[r]
  BY DEF ReqInv
<1>2. \A t \in tokens : t.user \in Users' => t.user \in Users
  BY DEF AccountsInv, Typed, IdsAreOld, Token, Onward
<1>3. q.session # {} => q.pc # "idle"
  BY <1>1 DEF ReqOk
<1>4. \A t \in q.session : t \in tokens
  BY <1>1, <1>3 DEF ReqOk
<1>5. q.pc # "idle" => \E t \in tokens' : q.session = {t}
  BY <1>1 DEF ReqOk, Onward
<1> HIDE DEF q
<1>6. q = req[r]
  BY DEF q
<1> QED BY <1>1, <1>2, <1>4, <1>5, <1>6 DEF ReqOk

LEMMA ReqMoves ==
  ASSUME AccountsInv, ReqInv, Onward, NEW r \in Requests, NEW q \in ReqRec,
         req' = [req EXCEPT ![r] = q], ReqOk(r)'
  PROVE  ReqInv'
<1>1. req' \in [Requests -> ReqRec] /\ \A x \in Requests \ {r} : req'[x] = req[x]
  BY DEF ReqInv
<1>2. \A x \in Requests \ {r} : ReqOk(x)'
  BY <1>1, ReqStays
<1> QED BY <1>1, <1>2 DEF ReqInv

LEMMA ReqRejected ==
  ASSUME AccountsInv, ReqInv, Onward, NEW r \in Requests, Reject(r)
  PROVE  ReqInv'
<1>1. /\ NoRequest \in ReqRec /\ NoRequest.pc = "idle" /\ NoRequest.session = {}
      /\ NoRequest.about = {}
  BY DEF NoRequest, ReqRec, ReqKinds, ReqPCs
<1>2. req'[r] = NoRequest
  BY DEF Reject, ReqInv
<1>3. ReqOk(r)'
  BY <1>1, <1>2 DEF ReqOk
<1> QED BY <1>1, <1>3, ReqMoves DEF Reject

\* The token of a request on its way.
LEMMA SessionIs ==
  ASSUME AccountsInv, ReqInv, NEW r \in Requests, req[r].pc # "idle"
  PROVE  \E t \in tokens : /\ req[r].session = {t} /\ SessionUser(r) = t.user
                           /\ t.user \in Ids
<1>1. PICK t \in tokens : req[r].session = {t}
  BY DEF ReqInv, ReqOk
<1>2. (CHOOSE x \in {t} : TRUE) = t
  OBVIOUS
<1>3. t.user \in Ids
  BY DEF AccountsInv, Typed, Token
<1> QED BY <1>1, <1>2, <1>3 DEF SessionUser

LEMMA UnchangedAccounts ==
  ASSUME AccountsInv, UNCHANGED vars
  PROVE  AccountsInv' /\ Onward /\ Users' = Users /\ tokens' = tokens
<1>1. AccountsInv' /\ Onward
  BY AccountsStep
<1> QED BY <1>1 DEF vars, Users

LEMMA CheckStep ==
  ASSUME AccountsInv, ReqInv, NEW r \in Requests,
         Expire(r) \/ Authenticate(r) \/ GuardLookup(r) \/ Permit(r)
  PROVE  AccessInv'
<1>0. /\ AccountsInv' /\ Onward /\ Users' = Users /\ tokens' = tokens
      /\ req[r] \in ReqRec /\ ReqOk(r) /\ req \in [Requests -> ReqRec] /\ req[r].pc # "idle"
  BY UnchangedAccounts DEF Expire, Authenticate, GuardLookup, Permit, ReqAt, ReqInv
<1>1. PICK t \in tokens : /\ req[r].session = {t} /\ SessionUser(r) = t.user
                          /\ t.user \in Ids
  BY <1>0, SessionIs
<1>2. CASE Reject(r)
  BY <1>0, <1>2, ReqRejected DEF AccessInv
<1>3. CASE Expire(r)
  <2>1. PICK q \in ReqRec :
          /\ req' = [req EXCEPT ![r] = q] /\ q.kind = req[r].kind /\ q.pc = req[r].pc
          /\ q.session = req[r].session /\ q.scope = req[r].scope /\ q.about = req[r].about
          /\ q.fresh = req[r].fresh
    <3>1. [req[r] EXCEPT !.live = FALSE] \in ReqRec
      BY <1>0 DEF ReqRec
    <3>2. req' = [req EXCEPT ![r] = [req[r] EXCEPT !.live = FALSE]]
      BY <1>0, <1>3 DEF Expire
    <3> QED BY <1>0, <3>1, <3>2 DEF ReqRec
  <2>2. req'[r] = q
    BY <1>0, <2>1
  <2>3. ReqOk(r)'
    BY <1>0, <2>1, <2>2 DEF ReqOk
  <2> QED BY <1>0, <2>1, <2>3, ReqMoves DEF AccessInv
<1>4. CASE Authenticate(r) /\ ~Reject(r)
  <2>1. PICK q \in ReqRec :
          /\ req' = [req EXCEPT ![r] = q] /\ q.kind = req[r].kind
          /\ q.session = req[r].session /\ q.about = req[r].about /\ q.fresh = req[r].fresh
          /\ \/ q.pc = "lookup" /\ q.kind \in Guarded /\ q.scope = req[r].scope
             \/ q.pc = "act" /\ q.kind \notin Guarded /\ q.scope = {t.user}
    <3>1. CASE req[r].kind \in Guarded
      <4>1. [req[r] EXCEPT !.pc = "lookup"] \in ReqRec
        BY <1>0 DEF ReqRec, ReqPCs
      <4>2. req' = [req EXCEPT ![r] = [req[r] EXCEPT !.pc = "lookup"]]
        BY <1>0, <1>4, <3>1 DEF Authenticate
      <4> QED BY <1>0, <3>1, <4>1, <4>2 DEF ReqRec
    <3>2. CASE req[r].kind \notin Guarded
      <4>1. [req[r] EXCEPT !.pc = "act", !.scope = {t.user}] \in ReqRec
        BY <1>0, <1>1 DEF ReqRec, ReqPCs
      <4>2. req' = [req EXCEPT ![r] = [req[r] EXCEPT !.pc = "act", !.scope = {t.user}]]
        BY <1>0, <1>1, <1>4, <3>2 DEF Authenticate
      <4> QED BY <1>0, <3>2, <4>1, <4>2 DEF ReqRec
    <3> QED BY <3>1, <3>2
  <2>2. req'[r] = q
    BY <1>0, <2>1
  <2>3. ReqOk(r)'
    BY <1>0, <1>1, <2>1, <2>2 DEF ReqOk
  <2> QED BY <1>0, <2>1, <2>3, ReqMoves DEF AccessInv
<1>5. CASE GuardLookup(r) /\ ~Reject(r)
  <2>1. req' = [req EXCEPT ![r].pc = "permit"] /\ t.user \in Users /\ req[r].pc = "lookup"
    BY <1>1, <1>5, ExistsIsUser DEF GuardLookup, Found, ReqAt
  <2>2. PICK q \in ReqRec :
          /\ req' = [req EXCEPT ![r] = q] /\ q.kind = req[r].kind /\ q.pc = "permit"
          /\ q.session = req[r].session /\ q.scope = req[r].scope /\ q.about = req[r].about
          /\ q.fresh = req[r].fresh
    <3>1. [req[r] EXCEPT !.pc = "permit"] \in ReqRec
      BY <1>0 DEF ReqRec, ReqPCs
    <3>2. req' = [req EXCEPT ![r] = [req[r] EXCEPT !.pc = "permit"]]
      BY <1>0, <2>1
    <3> QED BY <1>0, <3>1, <3>2 DEF ReqRec
  <2>3. req'[r] = q
    BY <1>0, <2>2
  <2>4. ReqOk(r)'
    BY <1>0, <1>1, <2>1, <2>2, <2>3 DEF ReqOk
  <2> QED BY <1>0, <2>2, <2>4, ReqMoves DEF AccessInv
<1>6. CASE Permit(r) /\ ~Reject(r)
  <2>1. req[r].pc = "permit" /\ req' = [req EXCEPT ![r].pc = "act", ![r].scope = Scope(r)]
    BY <1>6 DEF Permit, ReqAt
  <2>2. t.user \in Admins \/ Scope(r) \subseteq {t.user}
    BY <1>0, <1>1 DEF Scope
  <2>3. Scope(r) \subseteq Ids \cup {0}
    <3>1. req[r].target \in Ids \cup {0}
      BY <1>0 DEF ReqRec
    <3> QED BY <3>1 DEF Scope
  <2>4. PICK q \in ReqRec :
          /\ req' = [req EXCEPT ![r] = q] /\ q.kind = req[r].kind /\ q.pc = "act"
          /\ q.session = req[r].session /\ q.scope = Scope(r) /\ q.about = req[r].about
          /\ q.fresh = req[r].fresh
    <3>1. [req[r] EXCEPT !.pc = "act", !.scope = Scope(r)] \in ReqRec
      BY <1>0, <2>3 DEF ReqRec, ReqPCs
    <3>2. req' = [req EXCEPT ![r] = [req[r] EXCEPT !.pc = "act", !.scope = Scope(r)]]
      BY <1>0, <2>1
    <3> QED BY <1>0, <3>1, <3>2 DEF ReqRec
  <2>5. req'[r] = q
    BY <1>0, <2>4
  <2>6. ReqOk(r)'
    BY <1>0, <1>1, <2>1, <2>2, <2>4, <2>5 DEF ReqOk
  <2> QED BY <1>0, <2>4, <2>6, ReqMoves DEF AccessInv
<1> QED BY <1>2, <1>3, <1>4, <1>5, <1>6

\* A request is answered about ids that belong to its session's user, or to an admin's
\* view, and only when its user had an account on arrival.
LEMMA AnswerStep ==
  ASSUME AccountsInv, ReqInv, Onward, NEW r \in Requests, NEW ids, NEW t \in tokens,
         req[r].session = {t}, Answered(r, ids), ids \subseteq Ids \cup {0},
         t.user \in Admins \/ ids \subseteq {t.user},
         ids # {} => req[r].fresh
  PROVE  ReqInv'
<1>0. req[r] \in ReqRec /\ ReqOk(r) /\ req \in [Requests -> ReqRec]
  BY DEF ReqInv
<1>1. PICK q \in ReqRec :
        /\ req' = [req EXCEPT ![r] = q] /\ q.kind = req[r].kind /\ q.pc = "done"
        /\ q.session = req[r].session /\ q.scope = req[r].scope /\ q.about = ids
        /\ q.fresh = req[r].fresh
  <2>1. [req[r] EXCEPT !.pc = "done", !.about = ids] \in ReqRec
    BY <1>0 DEF ReqRec, ReqPCs
  <2>2. req' = [req EXCEPT ![r] = [req[r] EXCEPT !.pc = "done", !.about = ids]]
    BY <1>0 DEF Answered
  <2> QED BY <1>0, <2>1, <2>2 DEF ReqRec
<1>2. req'[r] = q
  BY <1>0, <1>1
<1>3. t \in tokens' /\ (t.user \in Users' => t.user \in Users)
  BY DEF Onward, AccountsInv, Typed, IdsAreOld, Token
<1>4. ReqOk(r)'
  BY <1>0, <1>1, <1>2, <1>3 DEF ReqOk
<1> QED BY <1>1, <1>4, ReqMoves

LEMMA RequestStep ==
  ASSUME AccountsInv, ReqInv, NEW r \in Requests, Request(r)
  PROVE  AccessInv'
<1>1. /\ UNCHANGED <<userId, nextId, specs, link, tokens, call, owner>> /\ Users' = Users
  BY DEF Request, Users
<1>2. Onward
  BY <1>1 DEF Onward, AccountsInv, Typed
<1>3. AccountsInv'
  <2>1. \A d \in Calls : CallOk(d)'
    BY <1>1, <1>2, CallStays
  <2> QED BY <1>1, <2>1 DEF AccountsInv, Typed, IdsAreOld, SpecsHaveUsers, LinksOwn, TokensOwn,
                            LinksComplete
<1>4. PICK kind \in ReqKinds \ {"none"}, t \in tokens, id \in Ids :
        req' = [req EXCEPT ![r] =
                 [NoRequest EXCEPT !.kind = kind, !.pc = "auth", !.session = {t}, !.live = TRUE,
                                   !.target = id, !.fresh = Exists(t.user)]]
  BY DEF Request
<1>5. PICK fresh \in BOOLEAN : fresh = Exists(t.user) /\ (fresh <=> t.user \in Users)
  <2>1. Exists(t.user) \in BOOLEAN
    BY DEF Exists
  <2> QED BY <2>1, ExistsIsUser
<1>6. PICK q \in ReqRec :
        /\ req' = [req EXCEPT ![r] = q] /\ q.kind = kind /\ q.pc = "auth"
        /\ q.session = {t} /\ q.scope = {} /\ q.about = {} /\ q.fresh = fresh
  <2>1. NoRequest \in ReqRec /\ NoRequest.scope = {} /\ NoRequest.about = {}
    BY DEF NoRequest, ReqRec, ReqKinds, ReqPCs
  <2>2. t \in Token
    BY DEF AccountsInv, Typed
  <2>3. [NoRequest EXCEPT !.kind = kind, !.pc = "auth", !.session = {t}, !.live = TRUE,
                          !.target = id, !.fresh = fresh] \in ReqRec
    BY <2>1, <2>2 DEF ReqRec, ReqPCs
  <2> QED BY <1>4, <1>5, <2>1, <2>3 DEF ReqRec
<1>7. req'[r] = q
  BY <1>6 DEF ReqInv
<1>8. ReqOk(r)'
  BY <1>1, <1>5, <1>6, <1>7 DEF ReqOk
<1> QED BY <1>2, <1>3, <1>6, <1>8, ReqMoves DEF AccessInv

LEMMA HandlerStep ==
  ASSUME AccountsInv, ReqInv, NEW r \in Requests,
         Read(r) \/ Delete(r) \/ FindMe(r) \/ WriteMe(r) \/ RequestFails(r)
  PROVE  AccessInv'
<1>0. /\ req[r] \in ReqRec /\ ReqOk(r) /\ req \in [Requests -> ReqRec] /\ req[r].pc # "idle"
  BY DEF Read, Delete, FindMe, WriteMe, RequestFails, ReqAt, ReqInv
<1>1. PICK t \in tokens : /\ req[r].session = {t} /\ SessionUser(r) = t.user
                          /\ t.user \in Ids
  BY <1>0, SessionIs
<1>2. t.user \in Users => req[r].fresh
  BY <1>0, <1>1 DEF ReqOk
<1>3. CASE Read(r)
  <2>1. AccountsInv' /\ Onward /\ req[r].pc = "act"
    BY <1>3, UnchangedAccounts DEF Read, ReqAt
  <2>2. PICK ids : Answered(r, ids) /\ ids \subseteq req[r].scope /\ ids \subseteq Users
    BY <1>3, ExistsIsUser DEF Read, Found
  <2>3. ids \subseteq Ids \cup {0} /\ (t.user \in Admins \/ ids \subseteq {t.user})
    BY <1>0, <1>1, <2>2 DEF ReqOk, ReqRec
  <2>4. ids # {} => req[r].fresh
    BY <1>0, <1>1, <1>2, <2>1, <2>2 DEF ReqOk
  <2> QED BY <1>1, <2>1, <2>2, <2>3, <2>4, AnswerStep DEF AccessInv
<1>4. CASE Delete(r)
  <2>1. PICK gone :
          /\ gone \subseteq req[r].scope /\ Answered(r, gone)
          /\ userId' = [n \in Names |-> IF userId[n] \in gone THEN 0 ELSE userId[n]]
          /\ specs' = specs \ gone
          /\ link' = [p \in Persons |-> IF link[p] \in gone THEN 0 ELSE link[p]]
    BY <1>4 DEF Delete
  <2>2. AccountsInv' /\ Onward
    BY <1>4, <2>1, UsersRemoved DEF Delete
  <2>3. gone \subseteq Ids \cup {0} /\ (t.user \in Admins \/ gone \subseteq {t.user}) /\ req[r].fresh
    BY <1>0, <1>1, <1>4, <2>1 DEF ReqOk, ReqRec, Delete, ReqAt, Guarded
  <2> QED BY <1>1, <2>1, <2>2, <2>3, AnswerStep DEF AccessInv
<1>5. CASE FindMe(r) /\ ~Reject(r)
  <2>1. AccountsInv' /\ Onward /\ Users' = Users /\ tokens' = tokens
    BY <1>5, UnchangedAccounts DEF FindMe
  <2>2. PICK q \in ReqRec :
          /\ req' = [req EXCEPT ![r] = q] /\ q.kind = req[r].kind /\ q.pc = "write"
          /\ q.session = req[r].session /\ q.scope = req[r].scope /\ q.about = req[r].about
          /\ q.fresh = req[r].fresh
    <3>1. [req[r] EXCEPT !.pc = "write"] \in ReqRec
      BY <1>0 DEF ReqRec, ReqPCs
    <3>2. req' = [req EXCEPT ![r] = [req[r] EXCEPT !.pc = "write"]]
      BY <1>0, <1>5 DEF FindMe
    <3> QED BY <1>0, <3>1, <3>2 DEF ReqRec
  <2>3. req'[r] = q
    BY <1>0, <2>2
  <2>4. ReqOk(r)'
    BY <1>0, <1>1, <2>1, <2>2, <2>3 DEF ReqOk
  <2> QED BY <2>1, <2>2, <2>4, ReqMoves DEF AccessInv
<1>6. CASE WriteMe(r)
  <2>1. /\ t.user \in Users /\ specs' = specs \cup {t.user} /\ Answered(r, {t.user})
        /\ UNCHANGED <<userId, nextId, link, tokens, call, owner>>
    BY <1>1, <1>6, ExistsIsUser DEF WriteMe
  <2>2. AccountsInv' /\ Onward
    BY <2>1, SpecAdded
  <2> QED BY <1>1, <1>2, <2>1, <2>2, AnswerStep DEF AccessInv
<1>7. CASE Reject(r) /\ (FindMe(r) \/ RequestFails(r))
  BY <1>7, UnchangedAccounts, ReqRejected DEF AccessInv, FindMe, RequestFails
<1> QED BY <1>3, <1>4, <1>5, <1>6, <1>7 DEF RequestFails

-----------------------------------------------------------------------------

LEMMA AccessStarts == AccessInit => AccessInv
<1> SUFFICES ASSUME AccessInit PROVE AccessInv
  OBVIOUS
<1>1. /\ Idle \in CallRec /\ Idle.user = 0 /\ Idle.expect = 0
      /\ Idle.pc = "idle" /\ Idle.kind = "none"
  BY DEF Idle, CallRec, Kinds, PCs
<1>2. call \in [Calls -> CallRec] /\ \A c \in Calls : call[c] = Idle
  BY <1>1 DEF AccessInit, Init
<1>3. /\ NoRequest \in ReqRec /\ NoRequest.pc = "idle" /\ NoRequest.session = {}
      /\ NoRequest.about = {}
  BY DEF NoRequest, ReqRec, ReqKinds, ReqPCs
<1>4. \A c \in Calls : CallOk(c)
  BY <1>1, <1>2 DEF CallOk
<1>5. Typed
  BY <1>2, AccountsConstants DEF AccessInit, Init, Typed
<1>6. IdsAreOld
  BY <1>1, <1>2 DEF AccessInit, Init, IdsAreOld
<1>7. SpecsHaveUsers /\ LinksOwn /\ TokensOwn /\ LinksComplete
  BY DEF AccessInit, Init, SpecsHaveUsers, LinksOwn, TokensOwn, LinksComplete
<1>8. ReqInv
  BY <1>3 DEF AccessInit, ReqInv, ReqOk
<1> QED BY <1>4, <1>5, <1>6, <1>7, <1>8 DEF AccessInv, AccountsInv

LEMMA AccessKeeps == AccessInv /\ [AccessNext]_accessVars => AccessInv'
<1> SUFFICES ASSUME AccessInv, [AccessNext]_accessVars PROVE AccessInv'
  OBVIOUS
<1> USE DEF AccessInv
<1>1. CASE UNCHANGED req /\ [Next]_vars
  <2>1. AccountsInv' /\ Onward
    BY <1>1, AccountsStep
  <2>2. \A r \in Requests : ReqOk(r)'
    BY <1>1, <2>1, ReqStays
  <2> QED BY <1>1, <2>1, <2>2 DEF ReqInv
<1>2. ASSUME NEW r \in Requests, AccessStep(r) PROVE AccessInv'
  BY <1>2, RequestStep, CheckStep, HandlerStep DEF AccessStep
<1> QED BY <1>1, <1>2 DEF AccessNext, accessVars

LEMMA AccessInvariant == AccessSpec => []AccessInv
  BY AccessStarts, AccessKeeps, PTL DEF AccessSpec

\* The tables, tokens and calls keep their types, and every spec has its user (the foreign
\* key of user_specs and its cascade).
THEOREM AccountsTypeCorrect == AccessSpec => []TypeOK
<1>1. AccessInv => TypeOK
  <2> SUFFICES ASSUME AccessInv PROVE TypeOK
    OBVIOUS
  <2>1. specs \subseteq {i \in Ids : Exists(i)}
    BY ExistsIsUser DEF AccessInv, AccountsInv, Typed, SpecsHaveUsers
  <2>2. \A t \in tokens : t.user \in Ids /\ t.person \in {{p} : p \in Persons}
    BY DEF AccessInv, AccountsInv, Typed, Token
  <2>3. \A c \in Calls :
          /\ call[c].kind \in Kinds /\ call[c].pc \in PCs
          /\ call[c].name \in Names \cup {<<>>}
          /\ call[c].user \in Ids \cup {0} /\ call[c].expect \in Ids \cup {0}
          /\ \A p \in call[c].person : p \in Persons
    BY DEF AccessInv, AccountsInv, Typed, CallRec
  <2> QED BY <2>1, <2>2, <2>3 DEF TypeOK, AccessInv, AccountsInv, Typed
<1> QED BY <1>1, AccessInvariant, PTL

\* No session opens someone else's account, whatever is deleted and created after its
\* login (users.id is AUTOINCREMENT, 001_init.sql).
THEOREM SessionsAreOwn == AccessSpec => []SessionOpensOwnAccount
<1>1. AccessInv => SessionOpensOwnAccount
  BY DEF AccessInv, AccountsInv, TokensOwn, SessionOpensOwnAccount
<1> QED BY <1>1, AccessInvariant, PTL

\* An identity leads to a user with a spec or to none, although the sign-up is three
\* statements that fail and race one by one (auth.go, createUser).
THEOREM LinkedAreComplete == AccessSpec => []LinkedUsersAreComplete
<1>1. AccessInv => LinkedUsersAreComplete
  BY ExistsIsUser DEF AccessInv, AccountsInv, LinksComplete, LinkedUsersAreComplete
<1> QED BY <1>1, AccessInvariant, PTL

\* A login with an account gets it, whatever sign-ups of its identity are in flight
\* (identities.go, Link keeps the first).
THEOREM ReloginsAreSame == AccessSpec => []ReloginIsSameUser
<1>1. AccessInv => ReloginIsSameUser
  BY ExistsIsUser DEF AccessInv, AccountsInv, CallOk, At, ReloginIsSameUser
<1> QED BY <1>1, AccessInvariant, PTL

\* The API shows and changes an account only for its owner and for admins, although it
\* reads the session twice and the table in between (server.go, guard, canAccessUser).
THEOREM GuardsProtect == AccessSpec => []OwnersAndAdminsOnly
<1>1. AccessInv => OwnersAndAdminsOnly
  <2> SUFFICES ASSUME AccessInv, NEW r \in Requests, NEW t \in req[r].session,
                      t.user \notin Admins, NEW id \in req[r].about
               PROVE  owner[id] = t.person
    BY DEF OwnersAndAdminsOnly
  <2>1. ReqOk(r) /\ req[r].session # {}
    BY DEF AccessInv, ReqInv
  <2>2. t \in tokens /\ id = t.user
    BY <2>1 DEF ReqOk
  <2> QED BY <2>2 DEF AccessInv, AccountsInv, TokensOwn
<1> QED BY <1>1, AccessInvariant, PTL

\* A token of a deleted account opens nothing (server.go, the guard's Me).
THEOREM DeletedStayOut == AccessSpec => []DeletedUsersAreOut
<1>1. AccessInv => DeletedUsersAreOut
  BY DEF AccessInv, ReqInv, ReqOk, DeletedUsersAreOut
<1> QED BY <1>1, AccessInvariant, PTL

-----------------------------------------------------------------------------
(* Login: the consent screens and callbacks of a browser.                  *)

Consenters == People \cup {Stranger, Nobody}

Visit == [pc : {"none", "callback", "exchange", "answer"}, state : Int, cookie : 0 .. MaxLogins,
          code : Consenters]

LoginTyped ==
  /\ begun \in 0 .. MaxLogins
  /\ stateJar \in 0 .. begun
  /\ consent \in [Attempts -> People \cup {Nobody}]
  /\ visit \in [Visits -> Visit]

Consented == inApp \cup {consent[a] : a \in Attempts}

\* A callback with a state of this browser has the code of that state's screen, or none:
\* a screen is consented to once. What passed the check has a code consented to here.
VisitOk(v) ==
  /\ visit[v].pc = "callback" /\ visit[v].state \in Attempts =>
       visit[v].code \in {Nobody, consent[visit[v].state]}
  /\ visit[v].pc \in {"exchange", "answer"} => visit[v].code \in Consented \ {Nobody}

LoginInv == LoginTyped /\ (\A v \in Visits : VisitOk(v)) /\ SessionIsFromOwnConsent

-----------------------------------------------------------------------------

\* More consent changes nothing for those who have it.
LEMMA ConsentGrows ==
  ASSUME LoginInv, NEW v \in Visits, visit'[v] = visit[v],
         inApp \subseteq inApp',
         \A a \in Attempts : consent[a] \in {Nobody, consent'[a]}
  PROVE  VisitOk(v)'
  BY DEF LoginInv, VisitOk, Consented

LEMMA LoginStart == LoginInit => LoginInv
  BY LoginFlowConstants
  DEF LoginInit, LoginInv, LoginTyped, Visit, Consenters, NoVisit, NoState, VisitOk,
      SessionIsFromOwnConsent

LEMMA LoginStep == LoginInv /\ [LoginNext]_loginVars => LoginInv'
<1> SUFFICES ASSUME LoginInv, [LoginNext]_loginVars PROVE LoginInv'
  OBVIOUS
<1> USE LoginFlowConstants
<1>t. LoginTyped
  BY DEF LoginInv
<1>c. ASSUME inApp \subseteq inApp', \A a \in Attempts : consent[a] \in {Nobody, consent'[a]},
             UNCHANGED sessionJar
      PROVE  SessionIsFromOwnConsent'
  BY <1>c DEF LoginInv, SessionIsFromOwnConsent
\* A step of one visit.
<1>v. ASSUME NEW v \in Visits, NEW rec \in Visit, visit' = [visit EXCEPT ![v] = rec],
             UNCHANGED <<begun, stateJar, consent>>, inApp \subseteq inApp', VisitOk(v)'
      PROVE  LoginTyped' /\ \A w \in Visits : VisitOk(w)'
  <2>1. LoginTyped'
    BY <1>t, <1>v DEF LoginTyped
  <2>2. \A w \in Visits \ {v} : visit'[w] = visit[w]
    BY <1>t, <1>v DEF LoginTyped
  <2> QED BY <1>v, <2>1, <2>2, ConsentGrows
<1>n. NoVisit \in Visit /\ NoVisit.pc = "none"
  BY DEF NoVisit, Visit, NoState, Consenters
<1>1. CASE UNCHANGED loginVars
  BY <1>1 DEF loginVars, LoginInv, LoginTyped, VisitOk, Consented, SessionIsFromOwnConsent
<1>2. CASE OpenLogin \/ StateExpires
  <2>1. LoginTyped' /\ UNCHANGED <<visit, consent, inApp, sessionJar>>
    BY <1>t, <1>2 DEF OpenLogin, StateExpires, LoginTyped, NoState
  <2> QED BY <1>c, <2>1, ConsentGrows DEF LoginInv
<1>3. CASE Logout
  BY <1>3 DEF Logout, LoginInv, LoginTyped, VisitOk, Consented, SessionIsFromOwnConsent
<1>4. ASSUME NEW a \in Attempts, Consent(a) PROVE LoginInv'
  <2>1. PICK p \in People : consent' = [consent EXCEPT ![a] = p]
    BY <1>4 DEF Consent
  <2>2. consent[a] = Nobody /\ UNCHANGED <<begun, stateJar, sessionJar, inApp, visit>>
    BY <1>4 DEF Consent
  <2>3. LoginTyped' /\ \A b \in Attempts : consent[b] \in {Nobody, consent'[b]}
    BY <1>t, <2>1, <2>2 DEF LoginTyped
  <2> QED BY <1>c, <2>2, <2>3, ConsentGrows DEF LoginInv
<1>5. ASSUME NEW v \in Visits, NEW callback \in Visit, Send(v, callback), inApp \subseteq inApp',
             callback.pc = "callback" /\ callback.state \in Attempts =>
               callback.code = consent[callback.state],
             callback.pc \in {"callback", "exchange"},
             callback.pc = "exchange" => callback.code \in inApp' \cap People
      PROVE  LoginInv'
  <2>1. /\ visit' = [visit EXCEPT ![v] = callback] /\ visit'[v] = callback
        /\ UNCHANGED <<begun, stateJar, sessionJar, consent>>
    BY <1>t, <1>5 DEF Send, LoginTyped
  <2>2. VisitOk(v)'
    BY <1>5, <2>1 DEF VisitOk, Consented
  <2> QED BY <1>c, <1>v, <1>5, <2>1, <2>2 DEF LoginInv
<1>6. ASSUME NEW v \in Visits, NEW a \in Attempts, Callback(v, a) PROVE LoginInv'
  <2> DEFINE callback == [pc |-> "callback", state |-> a, cookie |-> stateJar, code |-> consent[a]]
  <2>1. callback \in Visit
    BY <1>t DEF Visit, LoginTyped, Attempts, Consenters
  <2>2. /\ Send(v, callback) /\ UNCHANGED inApp /\ callback.pc = "callback"
        /\ callback.state = a /\ callback.code = consent[a]
    BY <1>6 DEF Callback
  <2> HIDE DEF callback
  <2> QED BY <1>5, <2>1, <2>2
<1>7. ASSUME NEW v \in Visits, StrangeCallback(v) PROVE LoginInv'
  <2>1. PICK state \in {NoState, Foreign} :
          Send(v, [pc |-> "callback", state |-> state, cookie |-> stateJar, code |-> Stranger])
    BY <1>7 DEF StrangeCallback
  <2> DEFINE callback == [pc |-> "callback", state |-> state, cookie |-> stateJar, code |-> Stranger]
  <2>2. callback \in Visit /\ callback.state \notin Attempts /\ callback.pc = "callback"
    BY <1>t DEF Visit, LoginTyped, Attempts, Consenters, NoState, Foreign
  <2>3. Send(v, callback) /\ UNCHANGED inApp
    BY <1>7, <2>1 DEF StrangeCallback
  <2> HIDE DEF callback
  <2> QED BY <1>5, <2>2, <2>3
<1>8. ASSUME NEW v \in Visits, TossCallback(v) PROVE LoginInv'
  <2>1. PICK p \in People : /\ Send(v, [NoVisit EXCEPT !.pc = "exchange", !.code = p])
                            /\ inApp' = inApp \cup {p}
    BY <1>8 DEF TossCallback
  <2> DEFINE callback == [NoVisit EXCEPT !.pc = "exchange", !.code = p]
  <2>2. callback \in Visit /\ callback.pc = "exchange" /\ callback.code = p
    BY <1>n DEF Visit, NoVisit, Consenters
  <2>3. Send(v, callback)
    BY <2>1
  <2> HIDE DEF callback
  <2> QED BY <1>5, <2>1, <2>2, <2>3
\* Whatever ends a visit.
<1>9. ASSUME NEW v \in Visits, visit' = [visit EXCEPT ![v] = NoVisit],
              UNCHANGED <<begun, stateJar, consent, inApp>>, SessionIsFromOwnConsent'
       PROVE  LoginInv'
  <2>1. VisitOk(v)'
    BY <1>t, <1>n, <1>9 DEF VisitOk, LoginTyped
  <2> QED BY <1>v, <1>n, <1>9, <2>1 DEF LoginInv
<1>10. ASSUME NEW v \in Visits, CheckState(v) PROVE LoginInv'
  <2>1. visit[v].pc = "callback" /\ UNCHANGED <<begun, stateJar, sessionJar, consent, inApp>>
    BY <1>10 DEF CheckState
  <2>2. CASE StateMatches(v) /\ visit[v].code # Nobody
    <3> DEFINE rec == [visit[v] EXCEPT !.pc = "exchange"]
    <3>1. /\ rec \in Visit /\ rec.pc = "exchange" /\ rec.code = visit[v].code
          /\ visit' = [visit EXCEPT ![v] = rec] /\ visit'[v] = rec
      BY <1>t, <1>10, <2>2 DEF CheckState, LoginTyped, Visit
    <3>2. visit[v].state \in Attempts
      BY <1>t, <2>2 DEF StateMatches, NoState, LoginTyped, Visit, Attempts
    <3>3. visit[v].code = consent[visit[v].state]
      BY <2>1, <2>2, <3>2 DEF LoginInv, VisitOk
    <3> HIDE DEF rec
    <3>4. VisitOk(v)'
      BY <2>1, <2>2, <3>1, <3>2, <3>3 DEF VisitOk, Consented
    <3> QED BY <1>c, <1>v, <2>1, <3>1, <3>4 DEF LoginInv
  <2>3. CASE ~(StateMatches(v) /\ visit[v].code # Nobody)
    <3>1. visit' = [visit EXCEPT ![v] = NoVisit]
      BY <1>10, <2>3 DEF CheckState
    <3> QED BY <1>c, <1>9, <2>1, <3>1
  <2> QED BY <2>2, <2>3
<1>11. ASSUME NEW v \in Visits, Exchange(v) PROVE LoginInv'
  <2> DEFINE rec == [visit[v] EXCEPT !.pc = "answer"]
  <2>1. /\ visit[v].pc = "exchange" /\ UNCHANGED <<begun, stateJar, sessionJar, consent, inApp>>
        /\ rec \in Visit /\ rec.pc = "answer" /\ rec.code = visit[v].code
        /\ visit' = [visit EXCEPT ![v] = rec] /\ visit'[v] = rec
    BY <1>t, <1>11 DEF Exchange, LoginTyped, Visit
  <2> HIDE DEF rec
  <2>2. VisitOk(v)'
    BY <2>1 DEF LoginInv, VisitOk, Consented
  <2> QED BY <1>c, <1>v, <2>1, <2>2 DEF LoginInv
<1>12. ASSUME NEW v \in Visits, ExchangeFails(v) PROVE LoginInv'
  BY <1>c, <1>9, <1>12 DEF ExchangeFails
<1>13. ASSUME NEW v \in Visits, SessionArrives(v) PROVE LoginInv'
  <2>1. visit[v].pc = "answer" /\ sessionJar' = visit[v].code
        /\ visit' = [visit EXCEPT ![v] = NoVisit]
        /\ UNCHANGED <<begun, stateJar, consent, inApp>>
    BY <1>13 DEF SessionArrives
  <2>2. SessionIsFromOwnConsent'
    BY <2>1 DEF LoginInv, VisitOk, Consented, SessionIsFromOwnConsent
  <2> QED BY <1>9, <2>1, <2>2
<1> QED
  BY <1>1, <1>2, <1>3, <1>4, <1>6, <1>7, <1>8, <1>10, <1>11, <1>12, <1>13 DEF LoginNext

-----------------------------------------------------------------------------
(* Theorem.                                                                *)

\* However many tabs overlap, whatever expires or is opened again, and from wherever a
\* callback address comes: the session belongs to somebody who consented in this browser.
THEOREM SessionFromOwnConsent == LoginSpec => []SessionIsFromOwnConsent
<1>1. LoginInv => SessionIsFromOwnConsent
  BY DEF LoginInv
<1> QED BY <1>1, LoginStart, LoginStep, PTL DEF LoginSpec
=============================================================================

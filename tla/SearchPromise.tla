---------------------------- MODULE SearchPromise ----------------------------
(***************************************************************************)
(* What a client of the recommendation service may rely on, without the    *)
(* index, its mutex and the pool: a request looks at one table state, at   *)
(* least as new as everything that was acknowledged or shown to anybody    *)
(* before the request arrived, and each request ends.                      *)
(***************************************************************************)
EXTENDS Integers

CONSTANT Clients

None == -1

VARIABLES
  latest,  \* the number of writes the table has taken
  known,   \* the newest of them that a client has been told of
  asked,   \* asked[c]: known when the client's request arrived, or None
  seen     \* seen[c]: the table state the request has looked at, or None

promiseVars == <<latest, known, asked, seen>>

Newer(m, n) == IF m > n THEN m ELSE n

Nothing == [c \in Clients |-> None]

Init == latest = 0 /\ known = 0 /\ asked = Nothing /\ seen = Nothing

Write == latest' = latest + 1 /\ UNCHANGED <<known, asked, seen>>

\* A writer is told that its write is in.
Acknowledge ==
  /\ \E ver \in 0 .. latest : known' = Newer(ver, known)
  /\ UNCHANGED <<latest, asked, seen>>

Ask(c) ==
  /\ asked[c] = None
  /\ asked' = [asked EXCEPT ![c] = known]
  /\ UNCHANGED <<latest, known, seen>>

\* SearchTopK scans one table state.
Look(c) ==
  /\ asked[c] # None /\ seen[c] = None
  /\ \E ver \in asked[c] .. latest : seen' = [seen EXCEPT ![c] = ver]
  /\ UNCHANGED <<latest, known, asked>>

Forget(c) ==
  /\ asked' = [asked EXCEPT ![c] = None]
  /\ seen' = [seen EXCEPT ![c] = None]
  /\ UNCHANGED latest

Answer(c) ==
  /\ seen[c] # None
  /\ known' = Newer(seen[c], known)
  /\ Forget(c)

\* The request ends with an error.
Refuse(c) ==
  /\ asked[c] # None
  /\ Forget(c)
  /\ UNCHANGED known

ProcessExit ==
  /\ asked' = Nothing /\ seen' = Nothing
  /\ UNCHANGED <<latest, known>>

End(c) == Answer(c) \/ Refuse(c)

Next ==
  \/ Write \/ Acknowledge \/ ProcessExit
  \/ \E c \in Clients : Ask(c) \/ Look(c) \/ End(c)

Spec == Init /\ [][Next]_promiseVars /\ \A c \in Clients : WF_promiseVars(End(c))
=============================================================================

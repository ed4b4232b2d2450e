----------------------------- MODULE LoginFlow -----------------------------
(***************************************************************************)
(* One browser that logs in: the two cookies of its jar, the consent       *)
(* screens open in its tabs, and the callbacks on their way to the server  *)
(* and back. Tabs overlap, answers arrive in any order, a callback address *)
(* may be opened again or come from elsewhere, and the state cookie runs   *)
(* out. The provider's and the database's part of a login is one step with *)
(* an outcome: module Accounts has its statements.                         *)
(***************************************************************************)
EXTENDS Integers

CONSTANTS
  People,     \* who may consent in this browser
  Stranger,   \* whose callback address may reach it from another browser
  MaxLogins,  \* bound: consent screens opened
  Visits,     \* bound: callbacks on their way at once
  MaxVisits   \* bound: callbacks of a behaviour

NoState == 0      \* no state cookie, no state in an address
Foreign == -1     \* a state given to another browser
Nobody == "nobody"
Attempts == 1 .. MaxLogins

ASSUME LoginFlowConstants ==
  Stranger \notin People /\ Nobody \notin People \cup {Stranger} /\ MaxLogins \in Nat

VARIABLES
  begun,      \* consent screens opened so far; the n-th has the state n
  stateJar,   \* the state cookie
  sessionJar, \* whose session the session cookie carries
  consent,    \* consent[a]: who consented on the a-th screen
  inApp,      \* who consented in the Toss app's own dialog
  visit,      \* visit[v]: a callback and where it is
  visits      \* callbacks so far (only for MaxVisits)

loginVars == <<begun, stateJar, sessionJar, consent, inApp, visit, visits>>

NoVisit == [pc |-> "none", state |-> NoState, cookie |-> NoState, code |-> Nobody]

LoginInit ==
  /\ begun = 0
  /\ stateJar = NoState
  /\ sessionJar = Nobody
  /\ consent = [a \in Attempts |-> Nobody]
  /\ inApp = {}
  /\ visit = [v \in Visits |-> NoVisit]
  /\ visits = 0

\* authLogin: a fresh state in the cookie and in the redirect; a screen opened before in
\* another tab loses its cookie.
OpenLogin ==
  /\ begun < MaxLogins
  /\ begun' = begun + 1
  /\ stateJar' = begun + 1
  /\ UNCHANGED <<sessionJar, consent, inApp, visit, visits>>

\* MaxAge of the state cookie.
StateExpires ==
  /\ stateJar # NoState
  /\ stateJar' = NoState
  /\ UNCHANGED <<begun, sessionJar, consent, inApp, visit, visits>>

Consent(a) ==
  /\ a <= begun
  /\ consent[a] = Nobody
  /\ \E p \in People : consent' = [consent EXCEPT ![a] = p]
  /\ UNCHANGED <<begun, stateJar, sessionJar, inApp, visit, visits>>

Send(v, callback) ==
  /\ visit[v].pc = "none"
  /\ visits < MaxVisits
  /\ visits' = visits + 1
  /\ visit' = [visit EXCEPT ![v] = callback]
  /\ UNCHANGED <<begun, stateJar, sessionJar, consent>>

\* The provider sends a tab to the callback, with a code or, refused, without one; a
\* reload sends it again. The request carries the jar of that moment.
Callback(v, a) ==
  /\ a <= begun
  /\ Send(v, [pc |-> "callback", state |-> a, cookie |-> stateJar, code |-> consent[a]])
  /\ UNCHANGED inApp

\* A callback address of another browser's login, or one without a state.
StrangeCallback(v) ==
  /\ \E state \in {NoState, Foreign} :
       Send(v, [pc |-> "callback", state |-> state, cookie |-> stateJar, code |-> Stranger])
  /\ UNCHANGED inApp

\* The Toss app hands its code to the page, which posts it: there is no state.
TossCallback(v) ==
  \E p \in People :
    /\ Send(v, [NoVisit EXCEPT !.pc = "exchange", !.code = p])
    /\ inApp' = inApp \cup {p}

\* Mutation: an absent cookie equals an absent state.
StateMatches_Empty(v) == visit[v].cookie = visit[v].state

StateMatches(v) == visit[v].cookie # NoState /\ visit[v].cookie = visit[v].state

\* authCallback: another state or no code is a 400.
CheckState(v) ==
  /\ visit[v].pc = "callback"
  /\ IF StateMatches(v) /\ visit[v].code # Nobody
     THEN visit' = [visit EXCEPT ![v].pc = "exchange"]
     ELSE visit' = [visit EXCEPT ![v] = NoVisit]
  /\ UNCHANGED <<begun, stateJar, sessionJar, consent, inApp, visits>>

\* Exchange asks the provider for an access token and with it for the user who consented
\* to the code; Login answers with that user's session.
Exchange(v) ==
  /\ visit[v].pc = "exchange"
  /\ visit' = [visit EXCEPT ![v].pc = "answer"]
  /\ UNCHANGED <<begun, stateJar, sessionJar, consent, inApp, visits>>

\* Either request fails or is refused (a code is good once), the user has no id, or Login
\* fails: the answer sets no cookie.
ExchangeFails(v) ==
  /\ visit[v].pc = "exchange"
  /\ visit' = [visit EXCEPT ![v] = NoVisit]
  /\ UNCHANGED <<begun, stateJar, sessionJar, consent, inApp, visits>>

\* The answer arrives. Nothing takes the state cookie away.
SessionArrives(v) ==
  /\ visit[v].pc = "answer"
  /\ sessionJar' = visit[v].code
  /\ visit' = [visit EXCEPT ![v] = NoVisit]
  /\ UNCHANGED <<begun, stateJar, consent, inApp, visits>>

\* authLogout needs no session and clears the cookie; so does its MaxAge.
Logout ==
  /\ sessionJar # Nobody
  /\ sessionJar' = Nobody
  /\ UNCHANGED <<begun, stateJar, consent, inApp, visit, visits>>

LoginNext ==
  \/ OpenLogin \/ StateExpires \/ Logout
  \/ \E a \in Attempts : Consent(a) \/ \E v \in Visits : Callback(v, a)
  \/ \E v \in Visits :
       \/ StrangeCallback(v) \/ TossCallback(v)
       \/ CheckState(v) \/ Exchange(v) \/ ExchangeFails(v) \/ SessionArrives(v)

LoginSpec == LoginInit /\ [][LoginNext]_loginVars

-----------------------------------------------------------------------------
(* Properties.                                                             *)

\* Whoever the browser is logged in as has consented in this browser, on a screen the
\* browser itself opened or in the Toss app, however its tabs overlap, run out of time
\* or are reloaded (ARCHITECTURE.md: the state cookie ties the callback to its login).
SessionIsFromOwnConsent ==
  sessionJar # Nobody => sessionJar \in inApp \cup {consent[a] : a \in Attempts}

=============================================================================

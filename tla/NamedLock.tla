----------------------------- MODULE NamedLock -----------------------------
(***************************************************************************)
(* What the admin service promises about its background tasks, without the *)
(* map, the mutex and the goroutines: a name is held by at most one task,  *)
(* a holder always lets go, and a restart lets everything go.              *)
(***************************************************************************)
CONSTANTS Names, Tasks

VARIABLE holders   \* holders[n]: the tasks running under name n

Init == holders = [n \in Names |-> {}]

Acquire(n, t) ==
  /\ holders[n] = {}
  /\ holders' = [holders EXCEPT ![n] = {t}]

Release(n) ==
  /\ holders[n] # {}
  /\ holders' = [holders EXCEPT ![n] = {}]

ProcessExit == holders' = [n \in Names |-> {}]

Next ==
  \/ \E n \in Names : Release(n) \/ \E t \in Tasks : Acquire(n, t)
  \/ ProcessExit

Spec == Init /\ [][Next]_holders /\ \A n \in Names : WF_holders(Release(n))
=============================================================================

----------------------------- MODULE MCAccounts -----------------------------
(* Small instances of Accounts and Access for TLC. *)
EXTENDS Access, TLC

CONSTANTS p1, p2, c1, c2

\* Two persons whose identities yield the same username.
MCBases == {"user"}
MCBase == [p \in {p1, p2} |-> "user"]

CallSymmetry == Permutations({c1, c2})
=============================================================================

--------------------------- MODULE MCCommandLine ---------------------------
(* Lines that follow the usage text of `users set`, for TLC. *)
EXTENDS CommandLine

\* The arguments of the usage text, each in the forms the flag package knows.
Username == {<<Word("kim")>>}
Job == {<<Name("--job"), Word("backend")>>, <<Assigned("--job", "backend")>>}
Years == {<<>>, <<Name("--years"), Word("3")>>}

MCLines ==
  UNION {{u \o j \o y, j \o u \o y, y \o j \o u} : u \in Username, j \in Job, y \in Years}
=============================================================================

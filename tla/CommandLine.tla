----------------------------- MODULE CommandLine -----------------------------
(***************************************************************************)
(* `mentoai users set`: how the command takes its arguments apart before   *)
(* it reaches CreateUser. splitPositional sorts the tokens into flags and  *)
(* positional arguments, the flag package parses what it is given, and the *)
(* command refuses a line without a username or a job.                     *)
(*                                                                         *)
(* A token is a flag, possibly with its value after an equals sign, or a   *)
(* word: a username or the value of a flag.                                *)
(***************************************************************************)
EXTENDS Integers, Sequences

CONSTANT Lines   \* the argument lists that are tried

ValueFlags == {"--job", "--years", "--skills"}
Name(flag) == [flag |-> flag, value |-> ""]
Assigned(flag, word) == [flag |-> flag, value |-> word]
Word(word) == [flag |-> "", value |-> word]

IsFlag(token) == token.flag # ""

VARIABLES
  args,      \* the tokens after `users set`
  stage,     \* "split", "parse", "check", "refused" or "accepted"
  i,         \* the token the loop looks at
  flags,     \* first result of splitPositional
  words,     \* second result of splitPositional
  parsed,    \* the values of the flags
  username

vars == <<args, stage, i, flags, words, parsed, username>>

Init ==
  /\ args \in Lines
  /\ stage = "split"
  /\ i = 1
  /\ flags = <<>>
  /\ words = <<>>
  /\ parsed = [flag \in ValueFlags |-> ""]
  /\ username = ""

\* A flag takes the next token with it, unless its value is part of it.
TakesNext(token) == token.flag \in ValueFlags /\ token.value = "" /\ i < Len(args)

SplitFlag ==
  /\ stage = "split"
  /\ i <= Len(args)
  /\ IsFlag(args[i])
  /\ flags' = flags \o SubSeq(args, i, IF TakesNext(args[i]) THEN i + 1 ELSE i)
  /\ i' = IF TakesNext(args[i]) THEN i + 2 ELSE i + 1
  /\ UNCHANGED <<args, stage, words, parsed, username>>

SplitWord ==
  /\ stage = "split"
  /\ i <= Len(args)
  /\ ~IsFlag(args[i])
  /\ words' = Append(words, args[i])
  /\ i' = i + 1
  /\ UNCHANGED <<args, stage, flags, parsed, username>>

\* The caller's names for the two results: positional, rest := splitPositional(...).
positional == flags
rest == words

Split ==
  /\ stage = "split"
  /\ i > Len(args)
  /\ stage' = "parse"
  /\ i' = 1
  /\ UNCHANGED <<args, flags, words, parsed, username>>

\* FlagSet.Parse goes up to the first token that is no flag; a flag without its value
\* ends the process (ExitOnError).
ParseFlag ==
  /\ stage = "parse"
  /\ i <= Len(rest)
  /\ IsFlag(rest[i])
  /\ LET token == rest[i]
     IN  \/ /\ token.value # ""
            /\ parsed' = [parsed EXCEPT ![token.flag] = token.value]
            /\ i' = i + 1
            /\ UNCHANGED stage
         \/ /\ token.value = "" /\ i < Len(rest)
            /\ parsed' = [parsed EXCEPT ![token.flag] = rest[i + 1].value]
            /\ i' = i + 2
            /\ UNCHANGED stage
         \/ /\ token.value = "" /\ i = Len(rest)
            /\ stage' = "refused"
            /\ UNCHANGED <<parsed, i>>
  /\ UNCHANGED <<args, flags, words, username>>

\* The username is the first positional argument.
Parsed ==
  /\ stage = "parse"
  /\ ~(i <= Len(rest) /\ IsFlag(rest[i]))
  /\ stage' = "check"
  /\ username' = IF positional = <<>> THEN ""
                 ELSE IF IsFlag(positional[1]) THEN positional[1].flag
                 ELSE positional[1].value
  /\ UNCHANGED <<args, i, flags, words, parsed>>

\* Without a username or a job the command prints its usage; else it goes on to
\* CreateUser.
Check ==
  /\ stage = "check"
  /\ stage' = IF username = "" \/ parsed["--job"] = "" THEN "refused" ELSE "accepted"
  /\ UNCHANGED <<args, i, flags, words, parsed, username>>

Next == SplitFlag \/ SplitWord \/ Split \/ ParseFlag \/ Parsed \/ Check

Spec == Init /\ [][Next]_vars

\* A line that follows the usage text (a username, --job with its value, the other flags
\* before or behind) is not refused (main.go: "users set USERNAME --job ...").
UsageIsAccepted == stage # "refused"
=============================================================================

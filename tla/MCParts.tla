------------------------------ MODULE MCParts ------------------------------
(***************************************************************************)
(* Specifications that share no variable, in one run: a behaviour runs one *)
(* of them and leaves the others at a fixed initial state.                 *)
(***************************************************************************)
EXTENDS Ranking, SilverBuild, Startup, Collect, EmbedBatch, LoginFlow

\* Ranking: worse than nothing, and scores below, inside and above the clamp.
MCSims == {-20, 55, 99}
MCTopKs == {-1, 1, 2}

\* Startup: a key with two lines between other lines, and one that has none; the shell
\* exports nothing, or the other key.
MCLine(key, val) == [key |-> key, val |-> val]
MCInitialFiles ==
  {<<MCLine("model", 1), MCLine("other", 8), MCLine("model", 2), MCLine("other", 9)>>}
MCExports == {[key \in Keys |-> Unset], [key \in Keys |-> IF key = "dim" THEN 1 ELSE Unset]}

\* Collect: a page and a half with an entry without id, another order that moves postings
\* across the page border, a listing that shrank; a page of Work24 with an unreadable row.
MCListings == {<<"w1", "noId", "w2", "w3">>, <<"w2", "w3", "w1">>, <<"w3">>, <<>>}
MCRowLists == {<<"noId", "e1">>}

VARIABLE part

RankingIdle == table = <<>> /\ zeroQuery = FALSE /\ k = 1 /\ RankingInit
SilverIdle == records = <<>> /\ SilverInit
EmbedIdle == pending = <<1>> /\ EmbedInit
CollectIdle == listing = <<>> /\ CollectInit
LoginIdle == LoginInit
StartupIdle == env = NoFile /\ shell = [key \in Keys |-> Unset] /\ StartupInit

MCInit ==
  \/ /\ part = "ranking" /\ RankingInit
     /\ SilverIdle /\ StartupIdle /\ CollectIdle /\ EmbedIdle /\ LoginIdle
  \/ /\ part = "silver" /\ SilverInit
     /\ RankingIdle /\ StartupIdle /\ CollectIdle /\ EmbedIdle /\ LoginIdle
  \/ /\ part = "startup" /\ StartupInit
     /\ RankingIdle /\ SilverIdle /\ CollectIdle /\ EmbedIdle /\ LoginIdle
  \/ /\ part = "collect" /\ CollectInit
     /\ RankingIdle /\ SilverIdle /\ StartupIdle /\ EmbedIdle /\ LoginIdle
  \/ /\ part = "embed" /\ EmbedInit
     /\ RankingIdle /\ SilverIdle /\ StartupIdle /\ CollectIdle /\ LoginIdle
  \/ /\ part = "login" /\ LoginInit
     /\ RankingIdle /\ SilverIdle /\ StartupIdle /\ CollectIdle /\ EmbedIdle

MCNext ==
  /\ \/ /\ part = "ranking" /\ RankingNext
        /\ UNCHANGED <<silverVars, startupVars, collectVars, embedVars, loginVars>>
     \/ /\ part = "silver" /\ SilverNext
        /\ UNCHANGED <<rankingVars, startupVars, collectVars, embedVars, loginVars>>
     \/ /\ part = "startup" /\ StartupNext
        /\ UNCHANGED <<rankingVars, silverVars, collectVars, embedVars, loginVars>>
     \/ /\ part = "collect" /\ CollectNext
        /\ UNCHANGED <<rankingVars, silverVars, startupVars, embedVars, loginVars>>
     \/ /\ part = "embed" /\ EmbedNext
        /\ UNCHANGED <<rankingVars, silverVars, startupVars, collectVars, loginVars>>
     \/ /\ part = "login" /\ LoginNext
        /\ UNCHANGED <<rankingVars, silverVars, startupVars, collectVars, embedVars>>
  /\ UNCHANGED part

MCSpec ==
  /\ MCInit
  /\ [][MCNext]_<<part, rankingVars, silverVars, startupVars, collectVars, embedVars, loginVars>>
=============================================================================

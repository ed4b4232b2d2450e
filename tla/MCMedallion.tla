---------------------------- MODULE MCMedallion ----------------------------
(* Small instances of Medallion for TLC. *)
EXTENDS Medallion, TLC

CONSTANTS j1, j2, plain, edited, relocated, junk, small, large, other

\* relocated differs from plain only in columns that are not embedded.
MCFullText == (plain :> "text1") @@ (relocated :> "text1") @@ (edited :> "text2")
                @@ (junk :> "text3")

\* small and large are one model at two dimensions; other is another model.
MCModelKey == (small :> "gemini:a") @@ (large :> "gemini:a") @@ (other :> "gemini:b")
MCDim == (small :> 1) @@ (large :> 2) @@ (other :> 2)

DistinctModels == {small, other}
DistinctKeys == [e \in DistinctModels |-> MCModelKey[e]]
DistinctDims == [e \in DistinctModels |-> MCDim[e]]

OneModel == {small, large}
OneModelKeys == [e \in OneModel |-> MCModelKey[e]]
OneModelDims == [e \in OneModel |-> MCDim[e]]

TwoTexts == {plain, edited}
TwoTextsMap == [p \in TwoTexts |-> MCFullText[p]]
OneText == {plain}
OneTextMap == [p \in OneText |-> MCFullText[p]]
AllTexts == {plain, edited, relocated, junk}
GoodTexts == {plain, edited, relocated}

AllSlots == {"pipeline", "cron", "embedding_rebuild", "embedding_switch", "delete_job", "cli"}

KeySymmetry == Permutations({j1, j2})
=============================================================================

CONSTANTS
  j1 = j1
  j2 = j2
  plain = plain
  edited = edited
  relocated = relocated
  junk = junk
  small = small
  large = large
  other = other
  NoPayload = NoPayload
  Keys = {j1}
  Payloads <- OneText
  Usable <- OneText
  FullText <- OneTextMap
  Embedders <- OneModel
  ModelKey <- OneModelKeys
  Dim <- OneModelDims
  DefaultDim = 2
  Initial = small
  Slots = {"pipeline", "embedding_switch"}
  MaxActive = 2
  MaxStarts = 3
  MaxCrashes = 0
SPECIFICATION Spec
CHECK_DEADLOCK FALSE
INVARIANT SettledForeignVectorsArePending

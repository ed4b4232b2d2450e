CONSTANTS
  j1 = j1
  j2 = j2
  plain = plain
  edited = edited
  relocated = relocated
  junk = junk
  small = small
  large = large
  other = other
  NoPayload = NoPayload
  Keys = {j1, j2}
  Payloads <- OneText
  Usable <- OneText
  FullText <- OneTextMap
  Embedders <- DistinctModels
  ModelKey <- DistinctKeys
  Dim <- DistinctDims
  DefaultDim = 2
  Initial = small
  Slots = {"pipeline", "cron", "embedding_rebuild", "embedding_switch", "delete_job", "cli"}
  MaxActive = 3
  MaxStarts = 3
  MaxCrashes = 1
SPECIFICATION Spec
CHECK_DEADLOCK FALSE
INVARIANTS
  TypeOK
  VectorOfItsOwnPosting
  ForeignVectorsArePending
  DeletedStaysDeleted
SYMMETRY KeySymmetry

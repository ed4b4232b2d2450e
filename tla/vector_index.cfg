CONSTANTS
  t1 = t1
  t2 = t2
  t3 = t3
  Ids = {1, 2}
  Threads = {t1, t2}
  Pool = 1
  CliWrites = TRUE
  MaxWrites = 2
  MaxFailures = 1
SPECIFICATION Spec
INVARIANTS
  TypeOK
  SearchSeesWhatWasKnown
PROPERTIES
  CallsEnd
  SearchesTheTable

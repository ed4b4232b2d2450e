CONSTANTS
  t1 = t1
  t2 = t2
  t3 = t3
  Ids = {1}
  Threads = {t1}
  Pool = 1
  CliWrites = TRUE
  MaxWrites = 2
  MaxFailures = 0
SPECIFICATION Spec
INVARIANT SettledIndexIsTable

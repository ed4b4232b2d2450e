CONSTANTS
  p1 = p1
  p2 = p2
  c1 = c1
  c2 = c2
  Persons = {p1, p2}
  Bases <- MCBases
  Base <- MCBase
  TryLimit = 2
  Calls = {c1, c2}
  MaxIds = 3
  MaxCalls = 5
  Requests = {r1}
  Admins = {1}
SPECIFICATION AccessSpec
CHECK_DEADLOCK FALSE
INVARIANTS
  TypeOK
  SessionOpensOwnAccount
  LinkedUsersAreComplete
  ReloginIsSameUser
  OwnersAndAdminsOnly
  DeletedUsersAreOut
SYMMETRY CallSymmetry

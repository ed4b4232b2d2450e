CONSTANTS
  u1 = u1
  u2 = u2
  j1 = j1
  p1 = p1
  p2 = p2
  c1 = c1
  c2 = c2
  m1 = m1
  m2 = m2
  r1 = r1
  r2 = r2
  absent = absent
  Users = {u1, u2}
  Jobs = {j1}
  Profiles = {p1, p2}
  Contents = {c1, c2}
  Models = {m1, m2}
  Absent = absent
  Requests = {r1, r2}
  MaxEdits = 2
  MaxRequests = 3
SPECIFICATION Spec
CHECK_DEADLOCK FALSE
INVARIANTS
  TypeOK
  AnswersAreCurrent
  RowsHaveOwners
SYMMETRY RequestSymmetry

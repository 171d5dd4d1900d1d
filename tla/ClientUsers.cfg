\* Users that come and leave one at a time, and iterations meanwhile.
CONSTANTS
  u1 = u1
  u2 = u2
  u3 = u3
  i1 = i1
  Users = {u1, u2, u3}
  Iterators = {i1}
  Threads = {u1, u2, u3, i1}
  NoUser = NoUser
  Owners = {u1}
  Meanwhile = TRUE
  Together = FALSE
  MinInt = 0
SPECIFICATION Spec
INVARIANTS
  ListIntact
PROPERTY RightOnesCalled
CHECK_DEADLOCK FALSE

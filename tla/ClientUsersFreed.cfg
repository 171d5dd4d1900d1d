\* A user that leaves during an iteration.
CONSTANTS
  u1 = u1
  u2 = u2
  u3 = u3
  i1 = i1
  Users = {u1}
  Iterators = {i1}
  Threads = {u1, i1}
  NoUser = NoUser
  Owners = {u1}
  Meanwhile = TRUE
  Together = TRUE
  MinInt = 0
SPECIFICATION Spec
INVARIANT NoFreedUser
CHECK_DEADLOCK FALSE

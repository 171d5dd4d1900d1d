\* A session, which the second connection may join.
CONSTANTS
  c1 = c1
  c2 = c2
  h1 = h1
  Conns = {c1, c2}
  Handlers = {h1}
  NoHandler = NoHandler
  Unset = Unset
  Joiners = {c2}
SPECIFICATION FairSpec
INVARIANTS
  ListedLives
  NoneLeft
  NoOrphan
  AloneInOrder
PROPERTY EndsOrWaits
CHECK_DEADLOCK FALSE

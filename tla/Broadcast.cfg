\* Two threads that write and two users that come, move, reply and leave.
CONSTANTS
  u1 = u1
  u2 = u2
  session = session
  channel = channel
  Users = {u1, u2}
  Writers = {session, channel}
  NoThread = NoThread
  Length = 2
  Capacity = 1
  MaxBegun = 2
SPECIFICATION FairSpec
INVARIANTS
  LogWhole
  SameForAll
PROPERTY WritesEnd
CHECK_DEADLOCK FALSE

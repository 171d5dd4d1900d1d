\* Users that type, move the mouse or resize, two sessions.
CONSTANTS
  u1 = u1
  ShiftL = ShiftL
  ShiftR = ShiftR
  lowerA = lowerA
  upperA = upperA
  NumLock = NumLock
  KP1 = KP1
  num = num
  left = left
  Users = {u1}
  Keys = {ShiftL, ShiftR, lowerA, upperA, NumLock, KP1}
  Locks = {num}
  Keymap <- EnUs
  LockFlags <- EnUsLocks
  MaxHeld = 2
  NoSize = NoSize
  Sizes <- Asked
  FirstSize <- First
  IntMax = 2147483647
  Resolution = 96
  MinSize = 200
  MaxSize = 8192
  Buttons = {left}
  MaxSessions = 2
  Plans <- Planned
SPECIFICATION FairSpec
INVARIANTS
  InLockAlive
  KeysRestored
  PrerequisitesHeld
  RequestFits
  ResizeDone
PROPERTY
  SessionEnds
CHECK_DEADLOCK FALSE

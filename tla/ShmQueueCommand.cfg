\* The command channel: multi_read = false, streamlined = false; two threads
\* of the service write commands, the client process reads them.
CONSTANTS
  w1 = w1
  w2 = w2
  NoWriter = NoWriter
  Writers = {w1, w2}
  MaxSize = 2
  PacketSize = 2
  Streamlined = FALSE
  MultiRead = FALSE
  WriteCounts = {1, 2, 3}
  ReadCounts = {1, 3}
  MaxBytes = 5
  MaxResets = 0
SPECIFICATION FairSpec
INVARIANTS
  TypeOK
  RingInv
PROPERTIES
  NoWriteDuringRead
  FifoSafe
  FifoLive
  MessagesKept

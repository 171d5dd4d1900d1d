\* The user channel: multi_read = true, streamlined = true, as long as no more
\* bytes are outstanding than the reader's buffer holds.
CONSTANTS
  w1 = w1
  w2 = w2
  NoWriter = NoWriter
  Writers = {w1, w2}
  MaxSize = 3
  PacketSize = 2
  Streamlined = TRUE
  MultiRead = TRUE
  WriteCounts = {1, 3}
  ReadCounts = {7}
  MaxBytes = 6
  MaxResets = 0
SPECIFICATION Spec
INVARIANT InOrder

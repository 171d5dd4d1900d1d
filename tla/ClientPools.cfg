\* The buffers of a client and its streams, which two threads allocate: the
\* client thread and that of a static channel.
CONSTANTS
  h1 = h1
  h2 = h2
  h3 = h3
  t1 = t1
  t2 = t2
  Handles = {h1, h2, h3}
  Kind = "buffer"
  MinSize = 2
  StreamThreads = {t1, t2}
  MaxStreams = 2
SPECIFICATION SpecClient
SYMMETRY HandleSymmetry
INVARIANTS
  UniqueIndex
  Conserved
  WithinMaximum
  NotTakenTwice
  OpenIsIndexed

---------------------------- MODULE ClientPools -----------------------------
(***************************************************************************)
(* The pools of one client: its buffers (the variables of Layers), which   *)
(* any thread that draws allocates, and its output streams (Streams).      *)
(* Each pool has its own lock, so their operations come in any order.      *)
(***************************************************************************)
EXTENDS Layers

CONSTANTS
  MaxStreams,     \* GUAC_CLIENT_MAX_STREAMS
  StreamThreads   \* the threads that allocate and free streams

VARIABLES
  streamsActive, streamsNext, streamsFree,  \* __stream_pool
  streamIndex, open, streamPc, slot, raced  \* as in Streams

streamVars == <<streamsActive, streamsNext, streamsFree, streamIndex, open,
                streamPc, slot, raced>>

Output == INSTANCE Streams WITH
  Kind <- "client_stream", MinSize <- 0, active <- streamsActive,
  next_value <- streamsNext, free_ints <- streamsFree, index <- streamIndex,
  Threads <- StreamThreads, pc <- streamPc

(* guac_client_alloc                                                       *)
InitClient == InitLayers /\ Output!Init

NextClient == \/ NextLayers /\ UNCHANGED streamVars
              \/ Output!Next /\ UNCHANGED layerVars

SpecClient == InitClient /\ [][NextClient]_<<layerVars, streamVars>>

-----------------------------------------------------------------------------
\* The types of the variables.
TypesOK == LayersTypeOK /\ Output!TypeOK

\* client.c:108: "Refuse to allocate beyond maximum". It does not hold with two
\* threads: the test at line 109 is outside of the lock of the pool.
NoneBeyondMaximum == Output!InArray

\* stream.h:35: "The index of this stream." It does not hold with two threads:
\* a stream is marked closed (line 133) after its slot was given back.
StreamsIndexed == Output!OpenIsIndexed

\* Two threads can allocate the streams of a client. What goes wrong then goes
\* wrong in the two windows that raced records and nowhere else: otherwise no
\* stream is allocated beyond the maximum,
WithinMaximum == TypesOK /\ (~raced => Output!InArray)

\* no slot is handed out while a stream is open in it or another thread has it,
NotTakenTwice == ~raced => Output!NotTakenTwice

\* and an open stream has the index of its slot, although it is written, read
\* and closed outside of the lock.
OpenIsIndexed == ~raced => Output!OpenIsIndexed
=============================================================================

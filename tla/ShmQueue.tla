------------------------------ MODULE ShmQueue ------------------------------
(***************************************************************************)
(* One direction of a shared-memory guac_socket: the ring of packets that  *)
(* the service and a client process share (socket-shared-memory.c, the     *)
(* LOCKING_NORMAL_QUEUE implementation), the guac_socket_write() loop that *)
(* fills it and the select/read loop that empties it.                      *)
(*                                                                         *)
(* Any number of threads write (Writers); a queue has one reading thread.  *)
(* Writers hold queue_mutex exclusively for a whole write_handler call,    *)
(* the reader holds it sharably for a whole read_handler call, so a step   *)
(* is one iteration of a handler's loop; only the unlocked accesses (the   *)
(* first test of select_handler, queue_clear) can come in between.         *)
(*                                                                         *)
(* Byte number k of the stream is the number k: what a packet buffer holds *)
(* tells which bytes they are.                                             *)
(***************************************************************************)
EXTENDS Naturals, Sequences

CONSTANTS
  MaxSize,      \* queue_max_size: packets in the ring
  PacketSize,   \* queue_packet_size: bytes of a packet
  Streamlined,  \* a write goes on filling the last packet written
  MultiRead,    \* a read takes bytes of several packets
  Writers,      \* the threads that write to this queue
  NoWriter,     \* nobody: the mutex is not held exclusively
  WriteCounts,  \* sizes a thread passes to guac_socket_write
  ReadCounts,   \* sizes the reader passes to guac_socket_read
  MaxBytes,     \* bound: bytes written in a behaviour
  MaxResets     \* bound: guac_socket_reset calls in a behaviour

ASSUME SizeAssumption == MaxSize \in Nat \ {0} /\ PacketSize \in Nat \ {0}
ASSUME ModeAssumption == Streamlined \in BOOLEAN /\ MultiRead \in BOOLEAN
ASSUME WriterAssumption == NoWriter \notin Writers
ASSUME CountAssumption ==
  /\ WriteCounts \subseteq Nat \ {0}
  /\ ReadCounts \subseteq Nat \ {0}
  /\ MaxBytes \in Nat /\ MaxResets \in Nat

VARIABLES
  \* the region shared by the two processes
  queue_current_size, queue_read_marker, queue_write_marker,
  current_read_byte,     \* per packet: offset of the first byte not read yet
  current_packet_size,   \* per packet: bytes not read yet
  packet_buffer,         \* per packet: the bytes at each offset
  \* queue_mutex
  exclusive,             \* the writer that holds it exclusively, or NoWriter
  \* writing threads
  unwritten,             \* bytes guac_socket_write still has to write
  left,                  \* bytes this write_handler call still has to copy
  allocated_packets,     \* pushes this write_handler call still has to make
  \* the reading thread
  reader,                \* where it is in its select / read loop
  readLeft,              \* bytes the read_handler call may still take
  \* history
  begun,                 \* bytes read before this read_handler call
  sent,                  \* bytes accepted so far
  delivered,             \* bytes read so far, in order
  ends,                  \* the last byte of every completed guac_socket_write
  resets                 \* guac_socket_reset calls so far

queueVars  == <<queue_current_size, queue_read_marker, queue_write_marker,
                current_read_byte, current_packet_size, packet_buffer>>
writerVars == <<unwritten, left, allocated_packets>>
readerVars == <<reader, readLeft, begun>>
vars == <<queueVars, exclusive, writerVars, readerVars, sent,
          delivered, ends, resets>>

Slots == 0 .. MaxSize - 1
\* Offsets a packet's copy can touch; only those below PacketSize are its own.
Offsets == 0 .. 2 * PacketSize - 1

\* (marker + 1) % queue_max_size
Advance(marker) == (marker + 1) % MaxSize

\* queue_empty
Empty == queue_current_size = 0

\* queue_free_size
FreeSize == MaxSize - queue_current_size

MinOf(a, b) == IF a <= b THEN a ELSE b

\* min(ceil(count / packet size), free size): the pushes a write may make
MutantIgnoresFree(count) == (count + PacketSize - 1) \div PacketSize
Allocated(count) ==
  MinOf((count + PacketSize - 1) \div PacketSize, FreeSize)

-----------------------------------------------------------------------------
(* queue_create: an empty ring; the threads have not called anything yet.  *)
Init ==
  /\ queue_current_size = 0
  /\ queue_read_marker = 0
  /\ queue_write_marker = 0
  /\ current_read_byte = [i \in Slots |-> 0]
  /\ current_packet_size = [i \in Slots |-> 0]
  /\ packet_buffer = [i \in Slots |-> [o \in Offsets |-> 0]]
  /\ exclusive = NoWriter
  /\ unwritten = [w \in Writers |-> 0]
  /\ left = [w \in Writers |-> 0]
  /\ allocated_packets = [w \in Writers |-> 0]
  /\ reader = "loop"
  /\ readLeft = 0
  /\ begun = 0
  /\ sent = 0
  /\ delivered = << >>
  /\ ends = {}
  /\ resets = 0

(* The reader holds queue_mutex sharably: it is inside read_handler.       *)
shared == reader \in {"reading", "peeking", "done"}

(* A scoped_lock on queue_mutex is granted; a sharable one would not wait  *)
(* for the reader.                                                         *)
MutantSharableWrite == exclusive = NoWriter
CanLockExclusive == exclusive = NoWriter /\ ~shared

(* notify_all on queue_condition: a waiting reader is woken.               *)
Notified == IF reader = "waiting" THEN "woken" ELSE reader

-----------------------------------------------------------------------------
(* A thread calls guac_socket_write with a whole buffer.                   *)
Call(w) ==
  /\ unwritten[w] = 0
  /\ \E n \in WriteCounts :
       /\ sent + n <= MaxBytes
       /\ unwritten' = [unwritten EXCEPT ![w] = n]
  /\ UNCHANGED <<queueVars, exclusive, left, allocated_packets,
                 readerVars, sent, delivered, ends, resets>>

(* write_handler when the ring is full: the reader is notified, nothing is *)
(* written, and guac_socket_write tries again.                             *)
WriteFull(w) ==
  /\ unwritten[w] > 0
  /\ CanLockExclusive
  /\ Allocated(unwritten[w]) = 0
  /\ reader' = Notified
  /\ UNCHANGED <<queueVars, exclusive, writerVars, readLeft, begun, sent,
                 delivered, ends, resets>>

(* write_handler takes the mutex and computes how many packets it may use. *)
WriteBegin(w) ==
  /\ unwritten[w] > 0
  /\ CanLockExclusive
  /\ Allocated(unwritten[w]) > 0
  /\ exclusive' = w
  /\ left' = [left EXCEPT ![w] = unwritten[w]]
  /\ allocated_packets' =
       [allocated_packets EXCEPT ![w] = Allocated(unwritten[w])]
  /\ UNCHANGED <<queueVars, unwritten, readerVars, sent, delivered,
                 ends, resets>>

(* start_push: where the next bytes go.  In streamlined mode the marker    *)
(* stays on a packet until its size says that it is full.                  *)
PushSlot ==
  IF Streamlined /\ current_packet_size[queue_write_marker] = PacketSize
  THEN Advance(queue_write_marker)
  ELSE queue_write_marker

(* Sizes and offsets of packet i when write_handler starts to fill it.     *)
StartRead(i) == IF Streamlined THEN current_read_byte[i] ELSE 0
StartSize(i) == IF Streamlined THEN current_packet_size[i] ELSE 0

(* Bytes that one iteration copies into packet i.                          *)
PushCount(w, i) == MinOf(left[w], PacketSize - StartSize(i))

(* end_push: the marker leaves the packet unless streamlined.              *)
MutantKeepsMarker(i) == i
NextWriteMarker(i) == IF Streamlined THEN i ELSE Advance(i)

(* One iteration of the loop of write_handler: start_push, copy, end_push. *)
Push(w) ==
  LET i == PushSlot
      size == PushCount(w, i)
      at == StartRead(i) + StartSize(i)
  IN  /\ exclusive = w /\ allocated_packets[w] > 0
      /\ current_read_byte' = [current_read_byte EXCEPT ![i] = StartRead(i)]
      /\ current_packet_size' =
           [current_packet_size EXCEPT ![i] = StartSize(i) + size]
      /\ packet_buffer' = [packet_buffer EXCEPT ![i] =
           [o \in Offsets |-> IF at <= o /\ o < at + size
                              THEN sent + (o - at) + 1
                              ELSE packet_buffer[i][o]]]
      /\ queue_current_size' = queue_current_size + 1
      /\ queue_write_marker' = NextWriteMarker(i)
      /\ left' = [left EXCEPT ![w] = left[w] - size]
      /\ allocated_packets' =
           [allocated_packets EXCEPT ![w] = allocated_packets[w] - 1]
      /\ sent' = sent + size
      /\ UNCHANGED <<queue_read_marker, exclusive, unwritten,
                     readerVars, delivered, ends, resets>>

(* End of write_handler: notify, unlock, and guac_socket_write advances.   *)
WriteEnd(w) ==
  /\ exclusive = w /\ allocated_packets[w] = 0
  /\ exclusive' = NoWriter
  /\ unwritten' = [unwritten EXCEPT ![w] = left[w]]
  /\ left' = [left EXCEPT ![w] = 0]
  /\ ends' = IF left[w] = 0 THEN ends \union {sent} ELSE ends
  /\ reader' = Notified
  /\ UNCHANGED <<queueVars, allocated_packets, readLeft, begun, sent,
                 delivered, resets>>

-----------------------------------------------------------------------------
(* select_handler tests the ring before it locks anything.                 *)
SelectCheck ==
  /\ reader = "loop"
  /\ reader' = IF Empty THEN "selecting" ELSE "ready"
  /\ UNCHANGED <<queueVars, exclusive, writerVars, readLeft, begun, sent,
                 delivered, ends, resets>>

(* It takes the mutex sharably and timed_wait releases it at once.         *)
SelectWait ==
  /\ reader = "selecting"
  /\ exclusive = NoWriter
  /\ reader' = "waiting"
  /\ UNCHANGED <<queueVars, exclusive, writerVars, readLeft, begun, sent,
                 delivered, ends, resets>>

\* A wait in place of the timed_wait.
MutantNoDeadline == FALSE /\ UNCHANGED vars

(* timed_wait reaches its deadline: select returns 0 and is called again.  *)
SelectTimeout ==
  /\ reader = "waiting"
  /\ exclusive = NoWriter
  /\ reader' = "loop"
  /\ UNCHANGED <<queueVars, exclusive, writerVars, readLeft, begun, sent,
                 delivered, ends, resets>>

(* timed_wait was notified: the mutex is taken again, the ring tested.     *)
SelectWoken ==
  /\ reader = "woken"
  /\ exclusive = NoWriter
  /\ reader' = IF Empty THEN "loop" ELSE "ready"
  /\ UNCHANGED <<queueVars, exclusive, writerVars, readLeft, begun, sent,
                 delivered, ends, resets>>

(* read_handler takes the mutex sharably; an empty ring returns 0.         *)
ReadBegin ==
  /\ reader = "ready"
  /\ exclusive = NoWriter
  /\ \/ /\ Empty
        /\ reader' = "loop"
        /\ UNCHANGED <<readLeft, begun>>
     \/ /\ ~Empty
        /\ reader' = IF MultiRead THEN "reading" ELSE "peeking"
        /\ readLeft' \in ReadCounts
        /\ begun' = Len(delivered)
  /\ UNCHANGED <<queueVars, exclusive, writerVars, sent, delivered, ends, resets>>

(* The condition of the loop of multi_packet_read.                         *)
ReadMore ==
  /\ reader = "reading"
  /\ readLeft > 0 /\ ~Empty
  /\ reader' = "peeking"
  /\ UNCHANGED <<queueVars, exclusive, writerVars, readLeft, begun, sent,
                 delivered, ends, resets>>

(* The packet popped is the last one that is counted.                      *)
MutantNeverRestarts == FALSE
Emptied == queue_current_size = 1

(* queue_pop: the packet is reset, the marker advances, and an emptied     *)
(* ring starts again from slot 0.                                          *)
Pop(i) ==
  /\ current_read_byte' = [current_read_byte EXCEPT ![i] = 0]
  /\ current_packet_size' = [current_packet_size EXCEPT ![i] = 0]
  /\ queue_current_size' = queue_current_size - 1
  /\ IF Emptied
     THEN queue_read_marker' = 0 /\ queue_write_marker' = 0
     ELSE /\ queue_read_marker' = Advance(i)
          /\ UNCHANGED queue_write_marker

(* Bytes that one iteration of a read takes from packet i.                 *)
MutantReadsBeyond(i) == readLeft
ReadCount(i) == MinOf(readLeft, current_packet_size[i])

(* A packet is popped once all of it is read, not after every read.        *)
UsedUp(i, size) == size = current_packet_size[i]

(* A single packet read ends with its packet.                              *)
MutantReadsOn == "reading"
AfterPacket == IF MultiRead THEN "reading" ELSE "done"

(* One iteration of multi_packet_read, or the only one of                  *)
(* single_packet_read: peek, copy, and pop when the packet is used up.     *)
ReadPacket ==
  LET i == queue_read_marker
      size == ReadCount(i)
  IN  /\ reader = "peeking" /\ ~Empty
      /\ delivered' = delivered \o
           [k \in 1 .. size |-> packet_buffer[i][current_read_byte[i] + k - 1]]
      /\ readLeft' = readLeft - size
      /\ IF UsedUp(i, size)
         THEN Pop(i)
         ELSE /\ current_read_byte' =
                   [current_read_byte EXCEPT ![i] = @ + size]
              /\ current_packet_size' =
                   [current_packet_size EXCEPT ![i] = @ - size]
              /\ UNCHANGED <<queue_current_size, queue_read_marker,
                             queue_write_marker>>
      /\ reader' = AfterPacket
      /\ UNCHANGED <<packet_buffer, exclusive, writerVars, begun, sent,
                     ends, resets>>

(* The read loop is over: the mutex is released and the bytes go on.       *)
ReadEnd ==
  /\ \/ reader = "done"
     \/ reader = "reading" /\ (Empty \/ readLeft = 0)
  /\ reader' = "loop"
  /\ readLeft' = 0 /\ begun' = 0
  /\ UNCHANGED <<queueVars, exclusive, writerVars, sent, delivered, ends, resets>>

(* The handlers dereference what peek returns: NULL for an empty ring.     *)
NullPeek ==
  /\ reader = "peeking" /\ Empty
  /\ reader' = "crashed"
  /\ UNCHANGED <<queueVars, exclusive, writerVars, readLeft, begun, sent,
                 delivered, ends, resets>>

-----------------------------------------------------------------------------
(* reset_handler: queue_clear empties the ring without taking the mutex,   *)
(* then the reader is notified.  What was in the ring is dropped.          *)
Reset ==
  /\ resets < MaxResets
  /\ resets' = resets + 1
  /\ queue_current_size' = 0
  /\ queue_read_marker' = 0
  /\ queue_write_marker' = 0
  /\ current_read_byte' = [i \in Slots |-> 0]
  /\ current_packet_size' = [i \in Slots |-> 0]
  /\ reader' = Notified
  /\ UNCHANGED <<packet_buffer, exclusive, writerVars, readLeft, begun,
                 sent, delivered, ends>>

WriterNext == \E w \in Writers :
  Call(w) \/ WriteFull(w) \/ WriteBegin(w) \/ Push(w) \/ WriteEnd(w)

ReaderNext ==
  \/ SelectCheck \/ SelectWait \/ SelectTimeout \/ SelectWoken
  \/ ReadBegin \/ ReadMore \/ ReadPacket \/ ReadEnd

Next == WriterNext \/ ReaderNext

\* The channel while both ends are open.
Spec == Init /\ [][Next]_vars

\* Threads keep running: nothing else is assumed of the scheduler.
Fairness ==
  /\ WF_vars(ReaderNext)
  /\ \A w \in Writers :
       WF_vars(WriteFull(w) \/ WriteBegin(w) \/ Push(w) \/ WriteEnd(w))

FairSpec == Spec /\ Fairness

\* The channel when an end may be reset while the other one is in use.
ResetNext == Next \/ Reset \/ NullPeek
ResetSpec == Init /\ [][ResetNext]_vars
-----------------------------------------------------------------------------
ReaderStates == {"loop", "selecting", "waiting", "woken", "ready", "reading",
                 "peeking", "done", "crashed"}

\* The types of the variables.
TypeOK ==
  /\ queue_current_size \in 0 .. MaxSize
  /\ queue_read_marker \in Slots /\ queue_write_marker \in Slots
  /\ current_read_byte \in [Slots -> Nat]
  /\ current_packet_size \in [Slots -> 0 .. PacketSize]
  /\ packet_buffer \in [Slots -> [Offsets -> Nat]]
  /\ exclusive \in Writers \union {NoWriter}
  /\ unwritten \in [Writers -> Nat] /\ left \in [Writers -> Nat]
  /\ allocated_packets \in [Writers -> Nat]
  /\ reader \in ReaderStates /\ readLeft \in Nat /\ begun \in Nat
  /\ sent \in Nat /\ delivered \in Seq(Nat)
  /\ ends \subseteq Nat /\ resets \in Nat

\* Bytes of a packet never lie outside its buffer: start_push is to leave a
\* packet that has no room for more.
PacketInBounds == \A i \in Slots :
  current_read_byte[i] + current_packet_size[i] <= PacketSize

\* Everything read so far is what was written, in order, each byte once.
InOrder == \A k \in 1 .. Len(delivered) : delivered[k] = k

\* "We read as much as we can according to the buffer size" (socket-shared-memory.c:2931): a reader
\* that finds the ring empty has been given every byte that was accepted. In a
\* streamlined ring that is read in part it does not hold: a packet that is
\* filled further is counted again and popped once (lines 3076 and 2952).
EmptyMeansDrained ==
  Empty /\ exclusive = NoWriter => sent = Len(delivered)

-----------------------------------------------------------------------------
(* Why a ring that is not streamlined is in order: the inductive invariant.*)

\* The slot of the j-th packet that waits to be read.
At(j) == IF queue_read_marker + j < MaxSize
         THEN queue_read_marker + j
         ELSE queue_read_marker + j - MaxSize

\* The number of the next byte to be read from packet i.
NextByte(i) == packet_buffer[i][current_read_byte[i]]

\* Readers and writers exclude each other, and a write never asks for more
\* packets than are free, nor for one it has no byte for.
LockInv ==
  /\ shared => exclusive = NoWriter
  /\ reader = "peeking" => readLeft > 0
  /\ exclusive # NoWriter =>
       LET a == allocated_packets[exclusive]
       IN  /\ a <= FreeSize
           /\ a > 0 => (a - 1) * PacketSize < left[exclusive]

\* The write marker is queue_current_size packets ahead of the read marker.
MarkerInv ==
  queue_write_marker =
    IF queue_read_marker + queue_current_size < MaxSize
    THEN queue_read_marker + queue_current_size
    ELSE queue_read_marker + queue_current_size - MaxSize

\* Packet i has bytes, inside its buffer, in sequence.
PacketOK(i) ==
  /\ current_packet_size[i] > 0
  /\ current_read_byte[i] + current_packet_size[i] <= PacketSize
  /\ NextByte(i) + current_packet_size[i] <= sent + 1
  /\ \A o \in Offsets :
       current_read_byte[i] <= o
         /\ o < current_read_byte[i] + current_packet_size[i]
       => packet_buffer[i][o] = NextByte(i) + (o - current_read_byte[i])

\* So has every packet that waits to be read.
PacketInv == \A j \in 0 .. queue_current_size - 1, i \in Slots :
  i = At(j) => PacketOK(i)

\* The waiting packets are contiguous, from the byte after the last one
\* delivered to the last one accepted.
ChainInv ==
  /\ queue_current_size = 0 => sent = Len(delivered)
  /\ queue_current_size > 0 =>
       /\ NextByte(queue_read_marker) = Len(delivered) + 1
       /\ \A i \in Slots : i = At(queue_current_size - 1) =>
            NextByte(i) + current_packet_size[i] = sent + 1
  /\ \A j \in 0 .. queue_current_size - 2, i, k \in Slots :
       i = At(j) /\ k = At(j + 1) =>
         NextByte(k) = NextByte(i) + current_packet_size[i]

\* All of it.
RingInv == LockInv /\ MarkerInv /\ PacketInv /\ ChainInv /\ InOrder

\* Nobody touches a packet or a marker while a read has the mutex.
NoWriteDuringRead ==
  [][shared => UNCHANGED <<queueVars, sent>> \/ ReadPacket]_vars

\* A read never goes past the end of a message, although several threads write
\* and a message that finds the ring nearly full is written in pieces; and a
\* message of at most a packet is taken whole by a read that begins with it
\* and asks for a packet: one command is never taken for a part of another.
MessagesKept == [][ReadEnd =>
  LET asked == readLeft + Len(delivered) - begun
      later == {e \in ends : e > begun}
  IN  /\ \A e \in later : Len(delivered) <= e
      /\ \A e \in later :
           /\ begun \in ends \union {0}
           /\ e - begun <= PacketSize /\ asked >= PacketSize
           /\ \A f \in later : e <= f
           => Len(delivered) = e]_vars

Fifo == INSTANCE ByteFifo

\* The ring is a reliable ordered byte stream.
FifoSafe == Fifo!SafeSpec

\* ... on which no accepted byte is withheld for ever, although a reader can
\* start to wait just after the notification it needed.
FifoLive == Fifo!Spec

-----------------------------------------------------------------------------
(* What one would expect, and the code does not keep: see README.md.       *)

\* select gives up only when there is nothing to read.
TimeoutMeansNoData == [][SelectTimeout => Empty]_vars

\* A packet that was seen to be there is there when it is dereferenced.
NoNullPeek == reader # "crashed"
=============================================================================

--------------------------- MODULE ShmQueueProofs ---------------------------
(***************************************************************************)
(* A ring that is not streamlined is a reliable ordered byte stream, for   *)
(* every queue size, packet size, set of writers and set of request sizes. *)
(***************************************************************************)
EXTENDS ShmQueue, SequenceTheorems, TLAPS

\* The marker arithmetic of the ring: (x + 1) % queue_max_size wraps to 0.
LEMMA AdvanceWraps ==
  ASSUME NEW x \in Slots
  PROVE  Advance(x) = IF x + 1 = MaxSize THEN 0 ELSE x + 1
  BY SizeAssumption DEF Advance, Slots

\* The packets a write asks for: never more than are free, and it has at
\* least one byte for the last of them.
LEMMA AllocatedBound ==
  ASSUME NEW c \in Nat \ {0}, queue_current_size \in 0 .. MaxSize,
         Allocated(c) > 0
  PROVE  /\ Allocated(c) \in Nat
         /\ Allocated(c) <= FreeSize
         /\ (Allocated(c) - 1) * PacketSize < c
<1> DEFINE k == (c + PacketSize - 1) \div PacketSize
<1>1. k \in Nat /\ k * PacketSize <= c + PacketSize - 1
  BY SizeAssumption
<1>2. FreeSize \in Nat
  BY SizeAssumption DEF FreeSize
<1>3. Allocated(c) \in Nat /\ Allocated(c) <= k /\ Allocated(c) <= FreeSize
  <2> HIDE DEF k
  <2>1. Allocated(c) = MinOf(k, FreeSize)
    BY DEF Allocated, k
  <2> QED BY <1>1, <1>2, <2>1 DEF MinOf
<1> HIDE DEF k
<1> DEFINE a == Allocated(c)
           d == k - a
<1>4. a \in Nat /\ d \in Nat /\ a > 0 /\ a <= FreeSize
  BY <1>1, <1>3
<1>5. k * PacketSize = (a - 1) * PacketSize + d * PacketSize + PacketSize
  <2>1. k = (a - 1) + d + 1
    BY <1>1, <1>4
  <2>2. ((a - 1) + d + 1) * PacketSize
          = (a - 1) * PacketSize + d * PacketSize + PacketSize
    <3> HIDE DEF a, d
    <3> QED BY <1>4, SizeAssumption
  <2> QED BY <2>1, <2>2
<1>6. d * PacketSize \in Nat /\ (a - 1) * PacketSize \in Nat
  <2> HIDE DEF a, d
  <2> QED BY <1>4, SizeAssumption
<1> QED BY <1>1, <1>4, <1>5, <1>6, SizeAssumption

\* The invariant that is inductive: the types and the shape of the ring.
Inv == TypeOK /\ RingInv

\* A new queue satisfies the invariant.
LEMMA InitInv == Init => Inv
<1> SUFFICES ASSUME Init PROVE Inv
  OBVIOUS
<1> USE SizeAssumption, CountAssumption DEF Init, Slots, Offsets
<1>1. TypeOK
  <2>1. /\ current_read_byte \in [Slots -> Nat]
        /\ current_packet_size \in [Slots -> 0 .. PacketSize]
        /\ packet_buffer \in [Slots -> [Offsets -> Nat]]
    OBVIOUS
  <2>2. delivered \in Seq(Nat) /\ ends \subseteq Nat
    OBVIOUS
  <2> QED BY <2>1, <2>2 DEF TypeOK, ReaderStates
<1>2. LockInv
  BY WriterAssumption DEF LockInv, shared
<1>3. MarkerInv /\ PacketInv /\ ChainInv /\ InOrder
  BY DEF MarkerInv, PacketInv, ChainInv, InOrder
<1> QED BY <1>1, <1>2, <1>3 DEF Inv, RingInv

\* The invariant reads nothing but the ring, the mutex, the call of the
\* writer that holds it and the streams: what leaves those alone keeps it.
LEMMA RingUntouched ==
  ASSUME RingInv,
         UNCHANGED <<queueVars, sent, delivered>>,
         LockInv'
  PROVE  RingInv'
  BY DEF RingInv, MarkerInv, PacketInv, ChainInv, InOrder, At, NextByte,
         PacketOK, queueVars

\* The steps of the writers that do not fill a packet.
LEMMA WriterQuietSteps ==
  ASSUME Inv, NEW w \in Writers,
         Call(w) \/ WriteFull(w) \/ WriteBegin(w) \/ WriteEnd(w)
  PROVE  Inv'
<1> USE SizeAssumption, CountAssumption, WriterAssumption
<1>1. CASE Call(w)
  <2>1. TypeOK'
    BY <1>1 DEF Inv, TypeOK, Call, queueVars, readerVars
  <2>2. LockInv'
    BY <1>1 DEF Inv, RingInv, LockInv, shared, Call, queueVars, readerVars, FreeSize
  <2> QED BY <1>1, <2>1, <2>2, RingUntouched DEF Inv, Call
<1>2. CASE WriteFull(w)
  <2>1. TypeOK'
    BY <1>2 DEF Inv, TypeOK, WriteFull, queueVars, writerVars, Notified,
                ReaderStates
  <2>2. LockInv'
    BY <1>2 DEF Inv, TypeOK, RingInv, LockInv, shared, WriteFull, queueVars,
                writerVars, Notified, FreeSize
  <2> QED BY <1>2, <2>1, <2>2, RingUntouched DEF Inv, WriteFull
<1>3. CASE WriteBegin(w)
  <2>1. /\ Allocated(unwritten[w]) \in Nat
        /\ Allocated(unwritten[w]) <= FreeSize
        /\ (Allocated(unwritten[w]) - 1) * PacketSize < unwritten[w]
    BY <1>3, AllocatedBound DEF WriteBegin, Inv, TypeOK
  <2>2. TypeOK'
    BY <1>3, <2>1 DEF Inv, TypeOK, WriteBegin, queueVars, readerVars
  <2>3. LockInv'
    <3>1. /\ exclusive' = w
          /\ allocated_packets'[w] = Allocated(unwritten[w])
          /\ left'[w] = unwritten[w]
          /\ FreeSize' = FreeSize
      BY <1>3 DEF WriteBegin, Inv, TypeOK, queueVars, FreeSize
    <3>2. UNCHANGED <<reader, readLeft>> /\ ~shared
      BY <1>3 DEF WriteBegin, readerVars, CanLockExclusive
    <3> QED BY <2>1, <3>1, <3>2 DEF LockInv, Inv, RingInv, shared
  <2> QED BY <1>3, <2>2, <2>3, RingUntouched DEF Inv, WriteBegin
<1>4. CASE WriteEnd(w)
  <2>1. TypeOK'
    BY <1>4 DEF Inv, TypeOK, WriteEnd, queueVars, Notified, ReaderStates
  <2>2. LockInv'
    BY <1>4 DEF Inv, TypeOK, RingInv, LockInv, shared, WriteEnd, Notified
  <2> QED BY <1>4, <2>1, <2>2, RingUntouched DEF Inv, WriteEnd
<1> QED BY <1>1, <1>2, <1>3, <1>4

\* The steps of the reader that take nothing from the ring.
LEMMA ReaderQuietSteps ==
  ASSUME Inv,
         \/ SelectCheck \/ SelectWait \/ SelectTimeout \/ SelectWoken
         \/ ReadBegin \/ ReadMore \/ ReadEnd
  PROVE  Inv'
<1> USE SizeAssumption, CountAssumption
<1>1. CASE SelectCheck \/ SelectWait \/ SelectTimeout \/ SelectWoken
  <2>1. TypeOK'
    BY <1>1 DEF Inv, TypeOK, SelectCheck, SelectWait, SelectTimeout,
                SelectWoken, queueVars, writerVars, ReaderStates
  <2>2. LockInv'
    BY <1>1 DEF Inv, TypeOK, RingInv, LockInv, shared, SelectCheck, SelectWait,
                SelectTimeout, SelectWoken, queueVars, writerVars, FreeSize
  <2> QED BY <1>1, <2>1, <2>2, RingUntouched
          DEF Inv, SelectCheck, SelectWait, SelectTimeout, SelectWoken
<1>2. CASE ReadBegin
  <2>1. /\ exclusive = NoWriter
        /\ UNCHANGED <<queueVars, exclusive, writerVars, sent, delivered, ends,
                       resets>>
    BY <1>2 DEF ReadBegin
  <2>2. reader' \in {"loop", "reading", "peeking"}
    BY <1>2 DEF ReadBegin
  <2>3. readLeft' \in Nat /\ (reader' # "loop" => readLeft' > 0)
    <3>1. \/ reader' = "loop" /\ readLeft' = readLeft
          \/ readLeft' \in ReadCounts
      BY <1>2 DEF ReadBegin
    <3>2. \A n \in ReadCounts : n \in Nat /\ n > 0
      OBVIOUS
    <3> QED BY <3>1, <3>2 DEF Inv, TypeOK
  <2>t. begun' \in Nat
    <3>1. \/ begun' = begun
          \/ begun' = Len(delivered)
      BY <1>2 DEF ReadBegin
    <3>2. begun \in Nat /\ Len(delivered) \in Nat
      BY DEF Inv, TypeOK
    <3> QED BY <3>1, <3>2
  <2>4. TypeOK'
    BY <2>1, <2>2, <2>3, <2>t DEF Inv, TypeOK, queueVars, writerVars, ReaderStates
  <2>5. LockInv'
    BY <2>1, <2>2, <2>3 DEF LockInv, shared
  <2> QED BY <2>1, <2>4, <2>5, RingUntouched DEF Inv
<1>3. CASE ReadMore
  <2>1. TypeOK'
    BY <1>3 DEF Inv, TypeOK, ReadMore, queueVars, writerVars, ReaderStates
  <2>2. LockInv'
    BY <1>3 DEF Inv, TypeOK, RingInv, LockInv, shared, ReadMore, queueVars,
                writerVars, FreeSize
  <2> QED BY <1>3, <2>1, <2>2, RingUntouched DEF Inv, ReadMore
<1>4. CASE ReadEnd
  <2>1. /\ reader' = "loop" /\ readLeft' = 0 /\ begun' = 0
        /\ UNCHANGED <<queueVars, exclusive, writerVars, sent, delivered, ends,
                       resets>>
    BY <1>4 DEF ReadEnd
  <2>2. TypeOK'
    BY <2>1 DEF Inv, TypeOK, queueVars, writerVars, ReaderStates
  <2>3. LockInv'
    BY <2>1 DEF Inv, TypeOK, RingInv, LockInv, shared, queueVars, writerVars,
                FreeSize
  <2> QED BY <2>1, <2>2, <2>3, RingUntouched DEF Inv
<1> QED BY <1>1, <1>2, <1>3, <1>4

\* Packet s waits to be read.
Waiting(s) == \E j \in 0 .. queue_current_size - 1 : s = At(j)

SamePacket(s) ==
  /\ current_read_byte'[s] = current_read_byte[s]
  /\ current_packet_size'[s] = current_packet_size[s]
  /\ NextByte(s)' = NextByte(s)

\* What an iteration of write_handler does to the waiting packets: one comes to
\* them, full or with the rest of the message.
Pushed(w) == \E size \in 1 .. PacketSize :
  /\ size <= left[w] /\ (size < PacketSize => size = left[w])
  /\ exclusive = w /\ ~shared /\ left'[w] = left[w] - size /\ sent' = sent + size
  /\ UNCHANGED <<exclusive, reader, readLeft, begun, delivered, ends>>
  /\ \A s \in Slots : Waiting(s)' =>
       \/ Waiting(s) /\ SamePacket(s)
       \/ /\ current_read_byte'[s] = 0 /\ current_packet_size'[s] = size
          /\ NextByte(s)' = sent + 1

\* What an iteration of a read does to them: the first one loses the bytes that
\* are taken, and goes when it has none left.
Taken == \E size \in 1 .. PacketSize, i \in Slots :
  /\ Waiting(i) /\ i = queue_read_marker
  /\ size <= readLeft /\ size <= current_packet_size[i]
  /\ size = readLeft \/ size = current_packet_size[i]
  /\ NextByte(i) = Len(delivered) + 1
  /\ Len(delivered)' = Len(delivered) + size /\ readLeft' = readLeft - size
  /\ exclusive = NoWriter /\ reader' = AfterPacket
  /\ UNCHANGED <<exclusive, left, begun, sent, ends>>
  /\ \A s \in Slots : Waiting(s)' =>
       /\ Waiting(s)
       /\ \/ SamePacket(s)
          \/ /\ s = i /\ size < current_packet_size[i]
             /\ current_read_byte'[s] = current_read_byte[s] + size
             /\ current_packet_size'[s] = current_packet_size[s] - size
             /\ NextByte(s)' = NextByte(s) + size

\* Filling a packet: the packet at the write marker becomes the last one that
\* waits, with the next bytes of the stream in it.
LEMMA PushKeepsInv ==
  ASSUME ~Streamlined, Inv, NEW w \in Writers, Push(w)
  PROVE  Inv' /\ Pushed(w)
<1> USE SizeAssumption
<1> DEFINE i == queue_write_marker
           cur == queue_current_size
           size == MinOf(left[w], PacketSize)
<1>1. /\ cur \in 0 .. MaxSize - 1
      /\ i \in Slots
      /\ i = At(cur)
      /\ left[w] \in Nat /\ left[w] > 0
      /\ size \in 1 .. PacketSize /\ size <= left[w]
      /\ sent \in Nat
      /\ allocated_packets[w] \in Nat \ {0}
      /\ ~shared
  <2>1. exclusive = w /\ exclusive # NoWriter /\ allocated_packets[w] > 0
    BY WriterAssumption DEF Push
  <2>2. cur \in 0 .. MaxSize - 1 /\ allocated_packets[w] \in Nat \ {0}
    BY <2>1 DEF Inv, TypeOK, RingInv, LockInv, FreeSize
  <2>3. left[w] \in Nat /\ left[w] > 0
    <3>1. (allocated_packets[w] - 1) * PacketSize \in Nat
      BY <2>2
    <3> QED BY <2>1, <3>1 DEF Inv, TypeOK, RingInv, LockInv
  <2>4. i \in Slots /\ i = At(cur) /\ sent \in Nat
    BY DEF Inv, TypeOK, RingInv, MarkerInv, At
  <2>5. ~shared
    BY <2>1 DEF Inv, RingInv, LockInv
  <2> QED BY <2>2, <2>3, <2>4, <2>5 DEF MinOf
<1>2. /\ current_read_byte' = [current_read_byte EXCEPT ![i] = 0]
      /\ current_packet_size' = [current_packet_size EXCEPT ![i] = 0 + size]
      /\ packet_buffer' = [packet_buffer EXCEPT ![i] =
           [o \in Offsets |-> IF 0 + 0 <= o /\ o < 0 + 0 + size
                              THEN sent + (o - (0 + 0)) + 1
                              ELSE packet_buffer[i][o]]]
      /\ queue_current_size' = cur + 1
      /\ queue_write_marker' = Advance(i)
      /\ sent' = sent + size
      /\ left' = [left EXCEPT ![w] = left[w] - size]
      /\ allocated_packets' =
           [allocated_packets EXCEPT ![w] = allocated_packets[w] - 1]
  <2>1. /\ PushSlot = i
        /\ StartRead(i) = 0 /\ StartSize(i) = 0
        /\ NextWriteMarker(i) = Advance(i)
    BY DEF PushSlot, StartRead, StartSize, NextWriteMarker
  <2>2. PushCount(w, i) = size
    BY <2>1 DEF PushCount
  <2> HIDE DEF size
  <2> QED BY <2>1, <2>2 DEF Push
<1>3. /\ exclusive = w
      /\ UNCHANGED <<queue_read_marker, exclusive, unwritten, reader,
                     readLeft, begun, delivered, ends, resets>>
  BY DEF Push, readerVars
<1> HIDE DEF size
<1>4. Advance(i) \in Slots
  BY <1>1, AdvanceWraps DEF Slots
<1>5. TypeOK'
  <2>1. /\ current_read_byte' \in [Slots -> Nat]
        /\ current_packet_size' \in [Slots -> 0 .. PacketSize]
        /\ left' \in [Writers -> Nat]
        /\ allocated_packets' \in [Writers -> Nat]
    BY <1>1, <1>2 DEF Inv, TypeOK
  <2>2. packet_buffer' \in [Slots -> [Offsets -> Nat]]
    <3>1. [o \in Offsets |-> IF 0 + 0 <= o /\ o < 0 + 0 + size
                             THEN sent + (o - (0 + 0)) + 1
                             ELSE packet_buffer[i][o]] \in [Offsets -> Nat]
      <4>1. \A o \in Offsets : packet_buffer[i][o] \in Nat
        BY <1>1 DEF Inv, TypeOK
      <4>2. \A o \in Offsets : 0 + 0 <= o => sent + (o - (0 + 0)) + 1 \in Nat
        BY <1>1 DEF Offsets
      <4> QED BY <4>1, <4>2
    <3>2. packet_buffer \in [Slots -> [Offsets -> Nat]]
      BY DEF Inv, TypeOK
    <3> QED BY <1>1, <1>2, <3>1, <3>2
  <2>3. /\ queue_current_size' \in 0 .. MaxSize
        /\ queue_write_marker' \in Slots
        /\ sent' \in Nat
    BY <1>1, <1>2, <1>4
  <2>4. UNCHANGED <<queue_read_marker, exclusive, unwritten, reader,
                    readLeft, begun, delivered, ends, resets>>
    BY <1>3
  <2> QED BY <2>1, <2>2, <2>3, <2>4 DEF Inv, TypeOK
<1>6. LockInv'
  <2> DEFINE a == allocated_packets[w]
  <2>1. a <= MaxSize - cur /\ (a - 1) * PacketSize < left[w]
    BY <1>1, <1>3, WriterAssumption DEF Inv, RingInv, LockInv, FreeSize
  <2>2. /\ allocated_packets'[w] = a - 1
        /\ left'[w] = left[w] - size
    BY <1>1, <1>2 DEF Inv, TypeOK
  <2>3. ASSUME a > 1
        PROVE  (a - 2) * PacketSize < left[w] - size
    <3>1. (a - 1) * PacketSize = (a - 2) * PacketSize + PacketSize
      <4> HIDE DEF a
      <4> QED BY <1>1 DEF a
    <3>2. (a - 2) * PacketSize \in Nat
      <4>1. a - 2 \in Nat
        BY <1>1, <2>3
      <4> HIDE DEF a
      <4> QED BY <4>1
    <3> QED BY <1>1, <2>1, <3>1, <3>2
  <2>4. ~shared'
    BY <1>1, <1>3 DEF shared
  <2>5. reader' # "peeking"
    BY <2>4 DEF shared
  <2>6. a - 1 <= FreeSize'
    BY <1>1, <1>2, <2>1 DEF FreeSize
  <2> QED BY <1>1, <1>3, <2>2, <2>3, <2>4, <2>5, <2>6 DEF LockInv
<1>7. MarkerInv'
  BY <1>1, <1>2, <1>3, AdvanceWraps, SMTT(30) DEF MarkerInv, At, Inv, TypeOK, Slots
<1>8. /\ \A j \in 0 .. cur : At(j)' = At(j)
      /\ \A j \in 0 .. cur - 1 : At(j) # i /\ At(j) \in Slots
  BY <1>1, <1>3 DEF At, Inv, TypeOK, Slots
<1>9. ASSUME NEW s \in Slots, s # i
      PROVE  /\ current_read_byte'[s] = current_read_byte[s]
             /\ current_packet_size'[s] = current_packet_size[s]
             /\ packet_buffer'[s] = packet_buffer[s]
             /\ NextByte(s)' = NextByte(s)
  BY <1>1, <1>2, <1>9 DEF Inv, TypeOK, NextByte
<1>10. ASSUME NEW s \in Slots, s = i
       PROVE  /\ current_read_byte'[s] = 0
              /\ current_packet_size'[s] = size
              /\ NextByte(s)' = sent + 1
              /\ \A o \in Offsets :
                   o < size => packet_buffer'[s][o] = sent + o + 1
  <2>1. current_read_byte'[s] = 0 /\ current_packet_size'[s] = size
    BY <1>1, <1>2, <1>10 DEF Inv, TypeOK
  <2>2. packet_buffer'[s] =
          [o \in Offsets |-> IF 0 + 0 <= o /\ o < 0 + 0 + size
                             THEN sent + (o - (0 + 0)) + 1
                             ELSE packet_buffer[i][o]]
    BY <1>1, <1>2, <1>10 DEF Inv, TypeOK
  <2>3. \A o \in Offsets : o < size => packet_buffer'[s][o] = sent + o + 1
    BY <1>1, <2>2 DEF Offsets
  <2>4. 0 \in Offsets
    BY DEF Offsets
  <2> QED BY <1>1, <2>1, <2>3, <2>4 DEF NextByte
<1>11. ASSUME NEW s \in Slots, PacketOK(s)
       PROVE  NextByte(s) \in Nat
  <2>1. current_read_byte[s] \in Offsets
    <3>1. /\ current_packet_size[s] > 0
          /\ current_read_byte[s] + current_packet_size[s] <= PacketSize
      BY <1>11 DEF PacketOK
    <3>2. current_packet_size[s] \in Nat /\ current_read_byte[s] \in Nat
      BY DEF Inv, TypeOK
    <3> QED BY <3>1, <3>2 DEF Offsets
  <2> QED BY <2>1 DEF NextByte, Inv, TypeOK
<1>12. PacketInv'
  <2> SUFFICES ASSUME NEW j \in 0 .. cur, NEW s \in Slots, s = At(j)
               PROVE  PacketOK(s)'
    BY <1>1, <1>2, <1>8 DEF PacketInv
  <2>1. CASE j = cur
    <3>1. s = i
      BY <1>1, <2>1
    <3> QED BY <1>1, <1>2, <1>10, <3>1, SMTT(30) DEF PacketOK, Offsets
  <2>2. CASE j # cur
    <3>1. j \in 0 .. cur - 1
      BY <1>1, <2>2
    <3>2. s # i
      BY <1>8, <3>1
    <3>3. PacketOK(s)
      BY <3>1 DEF Inv, RingInv, PacketInv
    <3>4. NextByte(s) + current_packet_size[s] <= sent + size + 1
      <4>1. NextByte(s) \in Nat /\ current_packet_size[s] \in Nat
        BY <1>11, <3>3 DEF Inv, TypeOK
      <4> QED BY <1>1, <3>3, <4>1 DEF PacketOK
    <3> QED BY <1>2, <1>9, <3>2, <3>3, <3>4 DEF PacketOK
  <2> QED BY <2>1, <2>2
<1>13. ChainInv'
  <2>1. queue_current_size' > 0 /\ queue_current_size' = cur + 1
    BY <1>1, <1>2
  <2>2. NextByte(queue_read_marker)' = Len(delivered)' + 1
    <3> DEFINE s == queue_read_marker
    <3>1. s = At(0) /\ s \in Slots
      BY DEF At, Inv, TypeOK, Slots
    <3>2. NextByte(queue_read_marker)'
            = packet_buffer'[s][current_read_byte'[s]]
      BY <1>3 DEF NextByte
    <3>3. CASE cur = 0
      <4>1. s = i /\ sent = Len(delivered)
        BY <1>1, <3>1, <3>3 DEF Inv, RingInv, ChainInv
      <4>2. current_read_byte'[s] = 0 /\ 0 \in Offsets
        BY <1>10, <3>1, <4>1 DEF Offsets
      <4>3. packet_buffer'[s][0] = sent + 0 + 1
        BY <1>1, <1>10, <3>1, <4>1, <4>2
      <4> QED BY <1>1, <1>3, <3>2, <4>1, <4>2, <4>3
    <3>4. CASE cur > 0
      <4>1. s # i
        BY <1>1, <1>8, <3>1, <3>4
      <4> QED BY <1>3, <1>9, <3>1, <3>2, <3>4, <4>1
              DEF Inv, RingInv, ChainInv, NextByte
    <3> QED BY <1>1, <3>3, <3>4
  <2>3. ASSUME NEW s \in Slots, s = At(queue_current_size - 1)'
        PROVE  NextByte(s)' + current_packet_size'[s] = sent' + 1
    <3>1. s = i
      BY <1>1, <1>3, <2>1, <2>3 DEF At, Inv, TypeOK, Slots
    <3> QED BY <1>1, <1>2, <1>10, <3>1
  <2>4. ASSUME NEW j \in 0 .. cur - 1, NEW s \in Slots, NEW t \in Slots,
               s = At(j)', t = At(j + 1)'
        PROVE  NextByte(t)' = NextByte(s)' + current_packet_size'[s]
    <3>1. s = At(j) /\ t = At(j + 1) /\ s # i
      BY <1>1, <1>8, <2>4
    <3>2. CASE j + 1 = cur
      <4>1. t = i /\ j = cur - 1 /\ cur > 0
        BY <1>1, <3>1, <3>2
      <4>2. NextByte(s) + current_packet_size[s] = sent + 1
        BY <3>1, <4>1 DEF Inv, RingInv, ChainInv
      <4> QED BY <1>9, <1>10, <3>1, <4>1, <4>2
    <3>3. CASE j + 1 < cur
      <4>1. j \in 0 .. cur - 2 /\ t # i
        BY <1>1, <1>8, <3>1, <3>3
      <4>2. NextByte(t) = NextByte(s) + current_packet_size[s]
        BY <3>1, <4>1 DEF Inv, RingInv, ChainInv
      <4> QED BY <1>9, <3>1, <4>1, <4>2
    <3> QED BY <1>1, <3>2, <3>3
  <2> QED BY <1>1, <2>1, <2>2, <2>3, <2>4 DEF ChainInv
<1>14. InOrder'
  BY <1>3 DEF Inv, RingInv, InOrder
<1>15. Pushed(w)
  <2>1. /\ size \in 1 .. PacketSize /\ size <= left[w]
        /\ size < PacketSize => size = left[w]
    BY <1>1 DEF MinOf, size
  <2>2. left'[w] = left[w] - size
    BY <1>1, <1>2 DEF Inv, TypeOK
  <2>3. ASSUME NEW s \in Slots, Waiting(s)'
        PROVE  \/ Waiting(s) /\ SamePacket(s)
               \/ /\ current_read_byte'[s] = 0 /\ current_packet_size'[s] = size
                  /\ NextByte(s)' = sent + 1
    <3>1. PICK j \in 0 .. cur : s = At(j)'
      BY <1>1, <1>2, <2>3 DEF Waiting
    <3>2. s = At(j)
      BY <1>8, <3>1
    <3>3. CASE s = i
      BY <1>10, <3>3
    <3>4. CASE s # i
      <4>1. j \in 0 .. cur - 1
        BY <1>1, <3>2, <3>4
      <4> QED BY <1>9, <3>2, <3>4, <4>1 DEF Waiting, SamePacket
    <3> QED BY <3>3, <3>4
  <2> QED BY <1>1, <1>2, <1>3, <2>1, <2>2, <2>3 DEF Pushed
<1> QED BY <1>5, <1>6, <1>7, <1>12, <1>13, <1>14, <1>15 DEF Inv, RingInv

\* Taking bytes from the first packet, and the packet when it is used up:
\* they are the next bytes of the stream.
LEMMA ReadKeepsInv ==
  ASSUME Inv, ReadPacket
  PROVE  Inv' /\ Fifo!Deliver /\ Taken
<1> USE SizeAssumption
<1> DEFINE i == queue_read_marker
           cur == queue_current_size
           r == current_read_byte[i]
           n == current_packet_size[i]
           size == MinOf(readLeft, n)
           taken == [k \in 1 .. size |-> packet_buffer[i][r + k - 1]]
<1>1. /\ cur \in 1 .. MaxSize
      /\ i \in Slots /\ i = At(0)
      /\ PacketOK(i)
      /\ readLeft \in Nat \ {0}
      /\ sent \in Nat /\ delivered \in Seq(Nat) /\ Len(delivered) \in Nat
      /\ exclusive = NoWriter
  <2>1. reader = "peeking" /\ ~Empty
    BY DEF ReadPacket
  <2>2. cur \in 1 .. MaxSize
    BY <2>1 DEF Empty, Inv, TypeOK
  <2>3. i \in Slots /\ i = At(0)
    BY DEF At, Inv, TypeOK, Slots
  <2>4. PacketOK(i)
    BY <2>2, <2>3 DEF Inv, RingInv, PacketInv
  <2>5. readLeft \in Nat \ {0} /\ exclusive = NoWriter
    BY <2>1 DEF Inv, TypeOK, RingInv, LockInv, shared
  <2> QED BY <2>2, <2>3, <2>4, <2>5 DEF Inv, TypeOK
<1>2. /\ r \in Nat /\ n \in 1 .. PacketSize /\ r + n <= PacketSize
      /\ NextByte(i) = Len(delivered) + 1
      /\ Len(delivered) + n <= sent
      /\ \A o \in Offsets : r <= o /\ o < r + n =>
           packet_buffer[i][o] = Len(delivered) + 1 + (o - r)
  <2>1. r \in Nat /\ n \in 0 .. PacketSize
    BY <1>1 DEF Inv, TypeOK
  <2>2. n > 0 /\ r + n <= PacketSize /\ NextByte(i) + n <= sent + 1
    BY <1>1 DEF PacketOK
  <2>3. NextByte(i) = Len(delivered) + 1
    BY <1>1 DEF Inv, RingInv, ChainInv
  <2>4. \A o \in Offsets : r <= o /\ o < r + n =>
          packet_buffer[i][o] = NextByte(i) + (o - r)
    BY <1>1 DEF PacketOK
  <2> QED BY <1>1, <2>1, <2>2, <2>3, <2>4
<1>3. size \in 1 .. n /\ size <= readLeft
  BY <1>1, <1>2 DEF MinOf
<1>4. taken = [k \in 1 .. size |-> Len(delivered) + k]
  <2>1. ASSUME NEW k \in 1 .. size
        PROVE  packet_buffer[i][r + k - 1] = Len(delivered) + k
    <3>1. r + k - 1 \in Offsets /\ r <= r + k - 1 /\ r + k - 1 < r + n
      BY <1>2, <1>3 DEF Offsets
    <3>2. packet_buffer[i][r + k - 1] = Len(delivered) + 1 + (r + k - 1 - r)
      BY <1>2, <3>1
    <3> QED BY <1>1, <1>2, <1>3, <3>2
  <2> QED BY <2>1
<1>5. /\ delivered' = delivered \o taken
      /\ readLeft' = readLeft - size
      /\ reader' \in {"reading", "done"}
      /\ UNCHANGED <<packet_buffer, exclusive, unwritten, left,
                     allocated_packets, begun, sent, ends, resets>>
  BY DEF ReadPacket, ReadCount, AfterPacket, writerVars
<1>6. /\ size = n => Pop(i)
      /\ size # n =>
           /\ current_read_byte' = [current_read_byte EXCEPT ![i] = @ + size]
           /\ current_packet_size' =
                [current_packet_size EXCEPT ![i] = @ - size]
           /\ UNCHANGED <<queue_current_size, queue_read_marker,
                          queue_write_marker>>
  BY DEF ReadPacket, ReadCount, UsedUp
<1>7. Fifo!Deliver
  <2>1. size \in 1 .. (sent - Len(delivered))
    BY <1>1, <1>2, <1>3
  <2>2. delivered' = delivered \o [k \in 1 .. size |-> Len(delivered) + k]
    BY <1>4, <1>5
  <2> HIDE DEF size, taken
  <2> QED BY <1>5, <2>1, <2>2 DEF Fifo!Deliver
<1> HIDE DEF size, taken
<1>8. /\ delivered' \in Seq(Nat)
      /\ Len(delivered)' = Len(delivered) + size
      /\ InOrder'
  <2>1. taken \in Seq(Nat) /\ Len(taken) = size
        /\ \A k \in 1 .. size : taken[k] = Len(delivered) + k
    <3>1. size \in Nat /\ \A k \in 1 .. size : Len(delivered) + k \in Nat
      BY <1>1, <1>2, <1>3
    <3>2. taken \in [1 .. size -> Nat]
      BY <1>4, <3>1
    <3>3. taken \in Seq(Nat) /\ Len(taken) = size
      BY <3>1, <3>2
    <3> QED BY <1>4, <3>3
  <2>2. delivered' \in Seq(Nat) /\ Len(delivered') = Len(delivered) + size
    <3>1. delivered \in Seq(Nat) /\ taken \in Seq(Nat) /\ Len(taken) = size
      BY <1>1, <2>1
    <3>2. delivered' = delivered \o taken
      BY <1>5
    <3>3. /\ delivered \o taken \in Seq(Nat)
          /\ Len(delivered \o taken) = Len(delivered) + Len(taken)
      BY <3>1, ConcatProperties
    <3> QED BY <3>1, <3>2, <3>3
  <2>3. ASSUME NEW k \in 1 .. Len(delivered')
        PROVE  delivered'[k] = k
    <3>1. CASE k <= Len(delivered)
      <4>1. delivered'[k] = delivered[k] /\ k \in 1 .. Len(delivered)
        BY <1>1, <1>2, <1>3, <1>5, <2>1, <3>1
      <4> QED BY <4>1 DEF Inv, RingInv, InOrder
    <3>2. CASE k > Len(delivered)
      <4>1. delivered'[k] = taken[k - Len(delivered)]
            /\ k - Len(delivered) \in 1 .. size
        BY <1>1, <1>2, <1>3, <1>5, <2>1, <2>2, <3>2
      <4> QED BY <1>1, <2>1, <4>1
    <3> QED BY <1>1, <2>2, <3>1, <3>2
  <2> QED BY <2>2, <2>3 DEF InOrder
<1>a. /\ r \in Nat /\ n \in Nat /\ size \in Nat /\ Len(delivered) \in Nat
      /\ 1 <= size /\ size <= n
  BY <1>1, <1>2, <1>3
<1>b. ASSUME NEW o \in Offsets, r <= o, o < r + n
      PROVE  packet_buffer[i][o] = Len(delivered) + 1 + (o - r)
  BY <1>2, <1>b
<1>9. \A j \in 0 .. cur - 1 : At(j) \in Slots /\ (j > 0 => At(j) # i)
  BY <1>1 DEF At, Inv, TypeOK, Slots
<1>10. ASSUME NEW s \in Slots, s # i
       PROVE  /\ current_read_byte'[s] = current_read_byte[s]
              /\ current_packet_size'[s] = current_packet_size[s]
              /\ NextByte(s)' = NextByte(s)
              /\ PacketOK(s) => PacketOK(s)'
  <2>1. /\ current_read_byte'[s] = current_read_byte[s]
        /\ current_packet_size'[s] = current_packet_size[s]
    BY <1>1, <1>6, <1>10 DEF Pop, Emptied, Inv, TypeOK
  <2> QED BY <1>5, <2>1 DEF NextByte, PacketOK
<1>11. LockInv'
  BY <1>1, <1>5 DEF LockInv, shared
<1>12. /\ packet_buffer' \in [Slots -> [Offsets -> Nat]]
       /\ exclusive' \in Writers \union {NoWriter}
       /\ unwritten' \in [Writers -> Nat] /\ left' \in [Writers -> Nat]
       /\ allocated_packets' \in [Writers -> Nat]
       /\ reader' \in ReaderStates /\ readLeft' \in Nat /\ begun' \in Nat
       /\ sent' \in Nat /\ ends' \subseteq Nat /\ resets' \in Nat
  BY <1>1, <1>2, <1>3, <1>5 DEF Inv, TypeOK, ReaderStates
<1>s. ASSUME NEW s \in Slots, s # i PROVE SamePacket(s)
  BY <1>10, <1>s DEF SamePacket
<1>t. ASSUME \A s \in Slots : Waiting(s)' =>
               /\ Waiting(s)
               /\ s = i => /\ size < n
                           /\ current_read_byte'[s] = current_read_byte[s] + size
                           /\ current_packet_size'[s] = current_packet_size[s] - size
                           /\ NextByte(s)' = NextByte(s) + size
      PROVE  Taken
  <2>1. size \in 1 .. PacketSize /\ i \in Slots /\ size <= readLeft /\ size <= n
    BY <1>1, <1>2, <1>3
  <2>2. size = readLeft \/ size = n
    BY <1>1, <1>2 DEF MinOf, size
  <2>3. Waiting(i)
    BY <1>1 DEF Waiting
  <2>4. reader' = AfterPacket
    BY DEF ReadPacket
  <2> QED BY <1>1, <1>2, <1>5, <1>8, <1>s, <1>t, <2>1, <2>2, <2>3, <2>4 DEF Taken
<1>13. CASE size # n
  <2>1. /\ current_read_byte' = [current_read_byte EXCEPT ![i] = r + size]
        /\ current_packet_size' = [current_packet_size EXCEPT ![i] = n - size]
        /\ UNCHANGED <<queue_current_size, queue_read_marker,
                       queue_write_marker>>
    BY <1>6, <1>13
  <2>2. TypeOK'
    <3>1. /\ current_read_byte' \in [Slots -> Nat]
          /\ current_packet_size' \in [Slots -> 0 .. PacketSize]
      BY <1>1, <1>2, <1>3, <2>1 DEF Inv, TypeOK
    <3> QED BY <1>8, <1>12, <2>1, <3>1 DEF Inv, TypeOK
  <2>3. \A j \in 0 .. cur : At(j)' = At(j)
    BY <2>1 DEF At
  <2>4. MarkerInv'
    BY <2>1 DEF Inv, RingInv, MarkerInv
  <2>5. ASSUME NEW s \in Slots, s = i
        PROVE  /\ current_read_byte'[s] = r + size
               /\ current_packet_size'[s] = n - size
               /\ NextByte(s)' = NextByte(s) + size
               /\ PacketOK(s)'
    <3>1. /\ current_read_byte'[s] = r + size
          /\ current_packet_size'[s] = n - size
      BY <1>1, <2>1, <2>5 DEF Inv, TypeOK
    <3>2. NextByte(s)' = Len(delivered) + 1 + size
      <4>1. NextByte(s)' = packet_buffer[i][r + size]
        BY <1>5, <2>5, <3>1 DEF NextByte
      <4>2. r + size \in Offsets /\ r <= r + size /\ r + size < r + n
        BY <1>2, <1>3, <1>13 DEF Offsets
      <4>3. packet_buffer[i][r + size] = Len(delivered) + 1 + (r + size - r)
        <5> DEFINE o == r + size
        <5>1. o \in Offsets /\ r <= o /\ o < r + n
          BY <4>2
        <5> HIDE DEF o
        <5>2. packet_buffer[i][o] = Len(delivered) + 1 + (o - r)
          BY <1>b, <5>1
        <5>3. o = r + size
          BY DEF o
        <5> QED BY <1>a, <5>2, <5>3
      <4> HIDE DEF r, n
      <4> QED BY <1>a, <4>1, <4>3
    <3>3. ASSUME NEW o \in Offsets, r + size <= o, o < r + size + (n - size)
          PROVE  packet_buffer[i][o] = Len(delivered) + 1 + size
                                         + (o - (r + size))
      <4>1. r <= o /\ o < r + n /\ o \in Nat
        BY <1>2, <1>3, <3>3 DEF Offsets
      <4>2. packet_buffer[i][o] = Len(delivered) + 1 + (o - r)
        BY <1>b, <4>1
      <4> HIDE DEF r, n
      <4> QED BY <1>a, <4>1, <4>2
    <3>4. PacketOK(s)'
      <4>1. /\ current_packet_size'[s] > 0
            /\ current_read_byte'[s] + current_packet_size'[s] <= PacketSize
            /\ NextByte(s)' + current_packet_size'[s] <= sent' + 1
        BY <1>1, <1>2, <1>3, <1>5, <1>13, <3>1, <3>2
      <4>2. \A o \in Offsets :
              current_read_byte'[s] <= o
                /\ o < current_read_byte'[s] + current_packet_size'[s]
              => packet_buffer'[s][o]
                   = NextByte(s)' + (o - current_read_byte'[s])
        BY <1>5, <2>5, <3>1, <3>2, <3>3
      <4> QED BY <4>1, <4>2 DEF PacketOK
    <3> QED BY <1>2, <2>5, <3>1, <3>2, <3>4
  <2>6. PacketInv'
    <3> SUFFICES ASSUME NEW j \in 0 .. cur - 1, NEW s \in Slots, s = At(j)
                 PROVE  PacketOK(s)'
      <4>1. queue_current_size' = cur
        BY <2>1
      <4>2. \A j \in 0 .. cur - 1 : At(j)' = At(j)
        BY <1>1, <2>3
      <4> QED BY <4>1, <4>2 DEF PacketInv
    <3>1. PacketOK(s)
      BY DEF Inv, RingInv, PacketInv
    <3> QED BY <1>10, <2>5, <3>1
  <2>7. ChainInv'
    <3>1. queue_current_size' = cur /\ cur > 0 /\ Len(delivered)' = Len(delivered) + size
      BY <1>1, <1>8, <2>1
    <3>2. NextByte(queue_read_marker)' = Len(delivered)' + 1
      <4>1. NextByte(queue_read_marker)'
              = packet_buffer'[i][current_read_byte'[i]]
        BY <2>1 DEF NextByte
      <4>2. \A s \in Slots : s = i =>
              packet_buffer'[s][current_read_byte'[s]]
                = Len(delivered) + 1 + size
        BY <1>1, <1>2, <2>5 DEF NextByte
      <4> QED BY <1>1, <1>2, <1>3, <3>1, <4>1, <4>2
    <3>3. ASSUME NEW s \in Slots
          PROVE  NextByte(s)' + current_packet_size'[s]
                   = NextByte(s) + current_packet_size[s]
      <4>1. CASE s = i
        <5>1. /\ NextByte(s)' = Len(delivered) + 1 + size
              /\ NextByte(s) = Len(delivered) + 1
              /\ current_packet_size'[s] = n - size
              /\ current_packet_size[s] = n
          BY <1>2, <2>5, <4>1
        <5> HIDE DEF n
        <5> QED BY <1>a, <5>1
      <4>2. CASE s # i
        BY <1>10, <4>2
      <4> QED BY <4>1, <4>2
    <3>4. ASSUME NEW s \in Slots, s = At(queue_current_size - 1)'
          PROVE  NextByte(s)' + current_packet_size'[s] = sent' + 1
      <4>1. s = At(queue_current_size - 1)
        BY <2>1, <3>4 DEF At
      <4> QED BY <1>1, <1>5, <3>3, <4>1 DEF Inv, RingInv, ChainInv
    <3>5. ASSUME NEW j \in 0 .. cur - 2, NEW s \in Slots, NEW t \in Slots,
                 s = At(j)', t = At(j + 1)'
          PROVE  NextByte(t)' = NextByte(s)' + current_packet_size'[s]
      <4>1. s = At(j) /\ t = At(j + 1) /\ t # i
        BY <1>1, <1>9, <2>3, <3>5
      <4>2. NextByte(t) = NextByte(s) + current_packet_size[s]
        BY <4>1 DEF Inv, RingInv, ChainInv
      <4> QED BY <1>10, <3>3, <4>1, <4>2
    <3> QED BY <3>1, <3>2, <3>4, <3>5 DEF ChainInv
  <2>8. Taken
    <3>1. \A s \in Slots : Waiting(s)' => Waiting(s)
      BY <1>1, <2>1, <2>3 DEF Waiting
    <3>2. size < n
      BY <1>a, <1>13
    <3> QED BY <1>t, <2>5, <3>1, <3>2
  <2> QED BY <1>7, <1>8, <1>11, <2>2, <2>4, <2>6, <2>7, <2>8 DEF Inv, RingInv
<1>14. CASE size = n
  <2>1. /\ current_read_byte' = [current_read_byte EXCEPT ![i] = 0]
        /\ current_packet_size' = [current_packet_size EXCEPT ![i] = 0]
        /\ queue_current_size' = cur - 1
    BY <1>6, <1>14 DEF Pop, Emptied
  <2>2. /\ cur = 1 => queue_read_marker' = 0 /\ queue_write_marker' = 0
        /\ cur # 1 => /\ queue_read_marker' = Advance(i)
                      /\ queue_write_marker' = queue_write_marker
    BY <1>6, <1>14 DEF Pop, Emptied
  <2>3. Advance(i) = IF i + 1 = MaxSize THEN 0 ELSE i + 1
    BY <1>1, AdvanceWraps
  <2>m. /\ cur \in 1 .. MaxSize /\ queue_current_size' = cur - 1
        /\ i \in 0 .. MaxSize - 1 /\ queue_write_marker \in 0 .. MaxSize - 1
        /\ cur = 1 => queue_read_marker' = 0 /\ queue_write_marker' = 0
        /\ cur # 1 =>
             /\ queue_read_marker' = IF i + 1 = MaxSize THEN 0 ELSE i + 1
             /\ queue_write_marker' = queue_write_marker
    <3>1. queue_write_marker \in 0 .. MaxSize - 1
      BY DEF Inv, TypeOK, Slots
    <3> QED BY <1>1, <2>1, <2>2, <2>3, <3>1 DEF Slots
  <2>4. TypeOK'
    <3>1. /\ current_read_byte' \in [Slots -> Nat]
          /\ current_packet_size' \in [Slots -> 0 .. PacketSize]
      BY <1>1, <2>1 DEF Inv, TypeOK
    <3>2. /\ queue_current_size' \in 0 .. MaxSize
          /\ queue_read_marker' \in Slots /\ queue_write_marker' \in Slots
      BY <2>m DEF Slots
    <3> QED BY <1>8, <1>12, <3>1, <3>2 DEF TypeOK
  <2>5. MarkerInv'
    <3>1. MarkerInv
      BY DEF Inv, RingInv
    <3> QED BY <2>m, <3>1 DEF MarkerInv
  <2>6. \A j \in 0 .. cur - 2 : At(j)' = At(j + 1)
    BY <2>m DEF At
  <2>7. PacketInv'
    <3> SUFFICES ASSUME NEW j \in 0 .. cur - 2, NEW s \in Slots, s = At(j)'
                 PROVE  PacketOK(s)'
      BY <1>1, <2>1 DEF PacketInv
    <3>1. s = At(j + 1) /\ j + 1 \in 0 .. cur - 1 /\ s # i
      BY <1>1, <1>9, <2>6
    <3>2. PacketOK(s)
      BY <3>1 DEF Inv, RingInv, PacketInv
    <3> QED BY <1>10, <3>1, <3>2
  <2>8. queue_current_size' = 0 => sent' = Len(delivered)'
    <3> SUFFICES ASSUME cur = 1
                 PROVE  sent = Len(delivered) + n
      BY <1>1, <1>5, <1>8, <1>14, <2>1
    <3>1. NextByte(i) + n = sent + 1
      BY <1>1 DEF Inv, RingInv, ChainInv
    <3> HIDE DEF n
    <3> QED BY <1>1, <1>2, <1>a, <3>1
  <2>9. ASSUME queue_current_size' > 0
        PROVE  NextByte(queue_read_marker)' = Len(delivered)' + 1
    <3>1. cur # 1 /\ 0 \in 0 .. cur - 2 /\ 1 \in 0 .. cur - 1
      BY <1>1, <2>1, <2>9
    <3>2. Advance(i) \in Slots /\ Advance(i) = At(1) /\ Advance(i) # i
      BY <1>1, <1>9, <2>3, <3>1 DEF At, Slots
    <3>3. \A s \in Slots : s = At(1) =>
            NextByte(s) = NextByte(i) + n
      <4>1. i \in Slots /\ i = At(0) /\ 0 + 1 = 1
        BY <1>1
      <4> QED BY <3>1, <4>1 DEF Inv, RingInv, ChainInv
    <3>4. \A s \in Slots : s = At(1) =>
            packet_buffer'[s][current_read_byte'[s]] = Len(delivered) + 1 + n
      BY <1>2, <1>9, <1>10, <3>1, <3>3 DEF NextByte
    <3>5. NextByte(queue_read_marker)'
            = packet_buffer'[Advance(i)][current_read_byte'[Advance(i)]]
      BY <2>2, <3>1 DEF NextByte
    <3>6. NextByte(queue_read_marker)' = Len(delivered) + 1 + n
      BY <3>2, <3>4, <3>5
    <3> HIDE DEF n
    <3> QED BY <1>8, <1>14, <1>a, <3>6
  <2>10. ASSUME queue_current_size' > 0, NEW s \in Slots,
                s = At(queue_current_size - 1)'
         PROVE  NextByte(s)' + current_packet_size'[s] = sent' + 1
    <3>1. cur - 2 \in 0 .. cur - 2 /\ cur > 1 /\ queue_current_size' - 1 = cur - 2
      BY <1>1, <2>1, <2>10
    <3>2. s = At(queue_current_size - 1)
      BY <2>m, <2>10, <3>1 DEF At
    <3>3. s # i
      BY <1>1, <1>9, <3>1, <3>2
    <3>4. NextByte(s) + current_packet_size[s] = sent + 1
      BY <1>1, <3>2 DEF Inv, RingInv, ChainInv
    <3> QED BY <1>5, <1>10, <3>3, <3>4
  <2>11. ASSUME NEW j \in 0 .. cur - 3, NEW s \in Slots, NEW t \in Slots,
                s = At(j)', t = At(j + 1)'
         PROVE  NextByte(t)' = NextByte(s)' + current_packet_size'[s]
    <3>1. /\ j \in 0 .. cur - 2 /\ j + 1 \in 0 .. cur - 2
          /\ j + 1 + 1 \in 0 .. cur - 1
      BY <1>1
    <3>2. s = At(j + 1) /\ t = At(j + 1 + 1) /\ s # i /\ t # i
      BY <1>1, <1>9, <2>6, <2>11, <3>1
    <3>3. NextByte(t) = NextByte(s) + current_packet_size[s]
      BY <3>1, <3>2 DEF Inv, RingInv, ChainInv
    <3> QED BY <1>10, <3>2, <3>3
  <2>12. ChainInv'
    BY <1>1, <2>1, <2>8, <2>9, <2>10, <2>11 DEF ChainInv
  <2>13. Taken
    <3>1. ASSUME NEW s \in Slots, Waiting(s)' PROVE Waiting(s) /\ s # i
      <4>1. PICK j \in 0 .. cur - 2 : s = At(j)'
        BY <1>1, <2>1, <3>1 DEF Waiting
      <4>2. s = At(j + 1) /\ j + 1 \in 0 .. cur - 1 /\ s # i
        BY <1>1, <1>9, <2>6, <4>1
      <4> QED BY <4>2 DEF Waiting
    <3> QED BY <1>t, <3>1
  <2> QED BY <1>7, <1>8, <1>11, <2>4, <2>5, <2>7, <2>12, <2>13 DEF Inv, RingInv
<1> QED BY <1>13, <1>14

\* A step that changes nothing keeps the invariant.
LEMMA StutterKeepsInv ==
  ASSUME Inv, UNCHANGED vars PROVE Inv'
<1> USE DEF vars, queueVars, writerVars, readerVars
<1>1. TypeOK'
  BY DEF Inv, TypeOK
<1>2. LockInv'
  BY DEF Inv, RingInv, LockInv, shared, FreeSize
<1> QED BY <1>1, <1>2, RingUntouched DEF Inv

\* Every step of a ring that is not streamlined keeps the invariant.
LEMMA NextKeepsInv ==
  ASSUME ~Streamlined, Inv, [Next]_vars PROVE Inv'
<1>1. ASSUME NEW w \in Writers, Push(w) PROVE Inv'
  BY <1>1, PushKeepsInv
<1>2. ASSUME NEW w \in Writers,
             Call(w) \/ WriteFull(w) \/ WriteBegin(w) \/ WriteEnd(w)
      PROVE  Inv'
  BY <1>2, WriterQuietSteps
<1>3. ASSUME ReadPacket PROVE Inv'
  BY <1>3, ReadKeepsInv
<1>4. ASSUME \/ SelectCheck \/ SelectWait \/ SelectTimeout \/ SelectWoken
             \/ ReadBegin \/ ReadMore \/ ReadEnd
      PROVE  Inv'
  BY <1>4, ReaderQuietSteps
<1>5. ASSUME UNCHANGED vars PROVE Inv'
  BY <1>5, StutterKeepsInv
<1> QED BY <1>1, <1>2, <1>3, <1>4, <1>5 DEF Next, WriterNext, ReaderNext

\* The type invariant of a ring that is not streamlined, whatever its size.
THEOREM TypeCorrect ==
  ASSUME ~Streamlined PROVE Spec => []TypeOK
<1>1. Inv => TypeOK
  BY DEF Inv
<1> QED BY <1>1, InitInv, NextKeepsInv, PTL DEF Spec

\* The ring keeps its shape: readers and writers exclude each other, the
\* markers agree with the size, and the waiting packets are the undelivered
\* bytes of the stream in order; hence everything read is in order.
THEOREM RingCorrect ==
  ASSUME ~Streamlined PROVE Spec => []RingInv
<1>1. Inv => RingInv
  BY DEF Inv
<1> QED BY <1>1, InitInv, NextKeepsInv, PTL DEF Spec

\* The ring implements the reliable ordered byte stream of ByteFifo.
THEOREM RingImplementsFifo ==
  ASSUME ~Streamlined PROVE Spec => FifoSafe
<1>1. Init => Fifo!Init
  BY DEF Init, Fifo!Init
<1>2. ASSUME Inv, [Next]_vars PROVE [Fifo!Next]_(Fifo!vars)
  <2>1. ASSUME NEW w \in Writers, Push(w) PROVE Fifo!Accept
    <3>1. sent' = sent + PushCount(w, PushSlot) /\ UNCHANGED delivered
      BY <2>1 DEF Push
    <3>2. PushCount(w, PushSlot) \in Nat \ {0} /\ sent \in Nat
      <4>1. PushCount(w, PushSlot) = MinOf(left[w], PacketSize)
        BY SizeAssumption DEF PushCount, StartSize
      <4>2. left[w] \in Nat /\ sent \in Nat /\ allocated_packets[w] \in Nat
        BY <1>2 DEF Inv, TypeOK
      <4>3. /\ allocated_packets[w] > 0
            /\ (allocated_packets[w] - 1) * PacketSize < left[w]
        BY <1>2, <2>1, <4>2, WriterAssumption
           DEF Inv, RingInv, LockInv, Push
      <4>4. (allocated_packets[w] - 1) * PacketSize \in Nat
        BY <4>2, <4>3, SizeAssumption
      <4> QED BY <4>1, <4>2, <4>3, <4>4, SizeAssumption DEF MinOf
    <3> QED BY <3>1, <3>2 DEF Fifo!Accept
  <2>2. ASSUME ReadPacket PROVE Fifo!Deliver
    BY <1>2, <2>2, ReadKeepsInv
  <2>3. ASSUME NEW w \in Writers,
               Call(w) \/ WriteFull(w) \/ WriteBegin(w) \/ WriteEnd(w)
        PROVE  UNCHANGED <<sent, delivered>>
    BY <2>3 DEF Call, WriteFull, WriteBegin, WriteEnd
  <2>4. ASSUME \/ SelectCheck \/ SelectWait \/ SelectTimeout \/ SelectWoken
               \/ ReadBegin \/ ReadMore \/ ReadEnd
        PROVE  UNCHANGED <<sent, delivered>>
    BY <2>4 DEF SelectCheck, SelectWait, SelectTimeout, SelectWoken,
                ReadBegin, ReadMore, ReadEnd
  <2>5. ASSUME UNCHANGED vars PROVE UNCHANGED <<sent, delivered>>
    BY <2>5 DEF vars
  <2> QED BY <1>2, <2>1, <2>2, <2>3, <2>4, <2>5
          DEF Next, WriterNext, ReaderNext, Fifo!Next, Fifo!vars
<1> QED BY <1>1, <1>2, InitInv, NextKeepsInv, PTL
        DEF Spec, FifoSafe, Fifo!SafeSpec

\* While a read has the mutex the ring changes by what the read takes only.
THEOREM ReadsAreExclusive ==
  ASSUME ~Streamlined PROVE Spec => NoWriteDuringRead
<1>1. ASSUME Inv, [Next]_vars, shared
      PROVE  UNCHANGED <<queueVars, sent>> \/ ReadPacket
  <2>1. exclusive = NoWriter
    BY <1>1 DEF Inv, RingInv, LockInv
  <2>2. ASSUME NEW w \in Writers, Call(w) \/ WriteFull(w) \/ WriteBegin(w)
                                    \/ Push(w) \/ WriteEnd(w)
        PROVE  UNCHANGED <<queueVars, sent>>
    BY <2>1, <2>2, WriterAssumption
       DEF Call, WriteFull, WriteBegin, Push, WriteEnd
  <2>3. ASSUME \/ SelectCheck \/ SelectWait \/ SelectTimeout \/ SelectWoken
               \/ ReadBegin \/ ReadMore \/ ReadEnd
        PROVE  UNCHANGED <<queueVars, sent>>
    BY <2>3 DEF SelectCheck, SelectWait, SelectTimeout, SelectWoken,
                ReadBegin, ReadMore, ReadEnd
  <2>4. ASSUME UNCHANGED vars PROVE UNCHANGED <<queueVars, sent>>
    BY <2>4 DEF vars
  <2> QED BY <1>1, <2>2, <2>3, <2>4 DEF Next, WriterNext, ReaderNext
<1> QED BY <1>1, InitInv, NextKeepsInv, PTL DEF Spec, NoWriteDuringRead

-----------------------------------------------------------------------------
(* Messages: a ring whose reads take a single packet, the command channel. *)

\* The bytes of packet i, those included that were read of it, are of one
\* message, and it is full or ends with that.
PacketWhole(i) ==
  /\ current_read_byte[i] < NextByte(i)
  /\ \A e \in ends : \/ e + current_read_byte[i] < NextByte(i)
                    \/ NextByte(i) + current_packet_size[i] <= e + 1
  /\ \/ current_read_byte[i] + current_packet_size[i] = PacketSize
     \/ \E e \in ends : NextByte(i) + current_packet_size[i] = e + 1
     \/ /\ exclusive # NoWriter /\ left[exclusive] = 0
        /\ NextByte(i) + current_packet_size[i] = sent + 1

\* What MessagesKept says of a read that ends.
ReadWhole ==
  LET asked == readLeft + Len(delivered) - begun
      later == {e \in ends : e > begun}
  IN  /\ \A e \in later : Len(delivered) <= e
      /\ \A e \in later :
           /\ begun \in ends \union {0}
           /\ e - begun <= PacketSize /\ asked >= PacketSize
           /\ \A f \in later : e <= f
           => Len(delivered) = e

MessageInv ==
  /\ \A e \in ends : e <= sent
  /\ \A i \in Slots : Waiting(i) => PacketWhole(i)
  /\ reader = "peeking" => begun = Len(delivered)
  /\ reader = "done" => ReadWhole
  /\ reader # "reading"

\* A step that moves the reader only, and not into or out of a read.
LEMMA MessagesUntouched ==
  ASSUME Inv, MessageInv,
         UNCHANGED <<queueVars, sent, delivered, ends, readLeft, begun>>,
         \/ UNCHANGED <<exclusive, left>>
         \/ exclusive = NoWriter,
         reader' = reader \/ reader' \in {"loop", "selecting", "waiting", "woken", "ready"}
  PROVE  MessageInv'
<1>1. \A i \in Slots : (Waiting(i)' <=> Waiting(i)) /\ SamePacket(i)
  BY DEF Waiting, At, SamePacket, NextByte, queueVars
<1>2. ASSUME NEW i \in Slots, PacketWhole(i) PROVE PacketWhole(i)'
  BY <1>1, <1>2 DEF PacketWhole, SamePacket
<1>3. reader' = "done" => ReadWhole'
  BY DEF MessageInv, ReadWhole
<1> QED
  BY <1>1, <1>2, <1>3 DEF MessageInv

\* The end of a write: what was a message under way may be whole.
LEMMA WriteEndKeepsMessages ==
  ASSUME Inv, MessageInv, NEW w \in Writers, WriteEnd(w)
  PROVE  MessageInv'
<1>1. /\ exclusive = w /\ exclusive # NoWriter /\ reader \notin {"peeking", "done"}
      /\ reader' \notin {"peeking", "done", "reading"}
      /\ ends' = IF left[w] = 0 THEN ends \union {sent} ELSE ends
      /\ UNCHANGED <<queueVars, sent, delivered>>
  BY WriterAssumption DEF WriteEnd, Inv, RingInv, LockInv, shared, Notified, MessageInv
<1>2. \A i \in Slots : (Waiting(i)' <=> Waiting(i)) /\ SamePacket(i)
  BY <1>1 DEF Waiting, At, SamePacket, NextByte, queueVars
<1>3. ASSUME NEW i \in Slots, Waiting(i) PROVE PacketWhole(i)'
  <2>1. PacketWhole(i) /\ PacketOK(i)
    BY <1>3 DEF MessageInv, Inv, RingInv, PacketInv, Waiting
  <2>2. \A e \in ends' : \/ e + current_read_byte[i] < NextByte(i)
                         \/ NextByte(i) + current_packet_size[i] <= e + 1
    BY <1>1, <2>1 DEF PacketWhole, PacketOK
  <2>3. \/ current_read_byte[i] + current_packet_size[i] = PacketSize
        \/ \E e \in ends' : NextByte(i) + current_packet_size[i] = e + 1
    BY <1>1, <2>1 DEF PacketWhole
  <2> QED
    BY <1>2, <2>1, <2>2, <2>3 DEF PacketWhole, SamePacket
<1>4. \A e \in ends' : e <= sent
  <2>1. sent <= sent
    BY DEF Inv, TypeOK
  <2> QED
    BY <1>1, <2>1 DEF MessageInv
<1> QED
  BY <1>1, <1>2, <1>3, <1>4 DEF MessageInv

\* A packet is filled from one message only.
LEMMA PushKeepsMessages ==
  ASSUME ~Streamlined, Inv, MessageInv, NEW w \in Writers, Push(w)
  PROVE  MessageInv'
<1>1. PICK size \in 1 .. PacketSize :
      /\ size <= left[w] /\ (size < PacketSize => size = left[w])
      /\ exclusive = w /\ ~shared /\ left'[w] = left[w] - size /\ sent' = sent + size
      /\ UNCHANGED <<exclusive, reader, readLeft, begun, delivered, ends>>
      /\ \A s \in Slots : Waiting(s)' =>
           \/ Waiting(s) /\ SamePacket(s)
           \/ /\ current_read_byte'[s] = 0 /\ current_packet_size'[s] = size
              /\ NextByte(s)' = sent + 1
  BY PushKeepsInv DEF Pushed
<1>2. /\ sent \in Nat /\ size \in Nat /\ size > 0 /\ left[w] \in Nat /\ ends \subseteq Nat
      /\ PacketSize \in Nat
  BY <1>1, SizeAssumption DEF Inv, TypeOK
<1>3. left[w] > 0 /\ exclusive # NoWriter
  BY <1>1, <1>2, WriterAssumption
<1>4. \A e \in ends : e <= sent /\ e <= sent'
  BY <1>1, <1>2 DEF MessageInv
<1>5. ASSUME NEW s \in Slots, Waiting(s)' PROVE PacketWhole(s)'
  <2>1. CASE Waiting(s) /\ SamePacket(s)
    <3>1. PacketWhole(s)
      BY <2>1 DEF MessageInv
    <3>2. \/ current_read_byte[s] + current_packet_size[s] = PacketSize
          \/ \E e \in ends : NextByte(s) + current_packet_size[s] = e + 1
      BY <1>1, <1>2, <1>3, <3>1 DEF PacketWhole
    <3> QED
      BY <1>1, <2>1, <3>1, <3>2 DEF PacketWhole, SamePacket
  <2>2. CASE /\ current_read_byte'[s] = 0 /\ current_packet_size'[s] = size
             /\ NextByte(s)' = sent + 1
    <3>1. \A e \in ends : e + 0 < sent + 1
      BY <1>2, <1>4
    <3>2. 0 < sent + 1
      BY <1>2
    <3>3. \/ 0 + size = PacketSize
          \/ left'[w] = 0
      BY <1>1, <1>2
    <3>4. sent + 1 + size = sent' + 1
      BY <1>1, <1>2
    <3> QED
      BY <1>1, <1>3, <2>2, <3>1, <3>2, <3>3, <3>4 DEF PacketWhole
  <2> QED BY <1>1, <1>5, <2>1, <2>2
<1> QED
  BY <1>1, <1>4, <1>5 DEF MessageInv, shared

\* A read takes of one packet: never beyond the message of that, and all of a
\* message that is no longer than a packet.
LEMMA ReadKeepsMessages ==
  ASSUME ~MultiRead, Inv, MessageInv, ReadPacket
  PROVE  MessageInv'
<1>1. PICK size \in 1 .. PacketSize, i \in Slots :
      /\ Waiting(i) /\ i = queue_read_marker
      /\ size <= readLeft /\ size <= current_packet_size[i]
      /\ size = readLeft \/ size = current_packet_size[i]
      /\ NextByte(i) = Len(delivered) + 1
      /\ Len(delivered)' = Len(delivered) + size /\ readLeft' = readLeft - size
      /\ exclusive = NoWriter /\ reader' = AfterPacket
      /\ UNCHANGED <<exclusive, left, begun, sent, ends>>
      /\ \A s \in Slots : Waiting(s)' =>
           /\ Waiting(s)
           /\ \/ SamePacket(s)
              \/ /\ s = i /\ size < current_packet_size[i]
                 /\ current_read_byte'[s] = current_read_byte[s] + size
                 /\ current_packet_size'[s] = current_packet_size[s] - size
                 /\ NextByte(s)' = NextByte(s) + size
  BY ReadKeepsInv DEF Taken
<1> DEFINE d == Len(delivered)
           r == current_read_byte[i]
           n == current_packet_size[i]
<1>2. /\ d \in Nat /\ r \in Nat /\ n \in Nat /\ size \in Nat /\ size > 0 /\ readLeft \in Nat
      /\ ends \subseteq Nat /\ PacketSize \in Nat
      /\ begun = d /\ reader' = "done"
  <2>1. reader = "peeking"
    BY DEF ReadPacket
  <2> QED
    BY <1>1, <2>1, SizeAssumption DEF Inv, TypeOK, MessageInv, AfterPacket
<1>3. /\ r < d + 1
      /\ \A e \in ends : e + r < d + 1 \/ d + 1 + n <= e + 1
      /\ r + n = PacketSize \/ \E e \in ends : d + 1 + n = e + 1
  BY <1>1 DEF MessageInv, PacketWhole
<1>4. ASSUME NEW s \in Slots, Waiting(s)' PROVE PacketWhole(s)'
  <2>1. Waiting(s) /\ PacketWhole(s)
    BY <1>1, <1>4 DEF MessageInv
  <2>2. CASE SamePacket(s)
    BY <1>1, <2>1, <2>2 DEF PacketWhole, SamePacket
  <2>3. CASE /\ s = i /\ size < n
             /\ current_read_byte'[s] = r + size
             /\ current_packet_size'[s] = n - size
             /\ NextByte(s)' = d + 1 + size
    <3> HIDE DEF d, r, n
    <3>1. /\ r + size < d + 1 + size
          /\ \A e \in ends : e + (r + size) < d + 1 + size \/ d + 1 + size + (n - size) <= e + 1
          /\ r + size + (n - size) = PacketSize \/ \E e \in ends : d + 1 + size + (n - size) = e + 1
      BY <1>2, <1>3
    <3> QED
      BY <1>1, <2>3, <3>1 DEF PacketWhole
  <2> QED BY <1>1, <1>4, <2>2, <2>3
<1>5. ReadWhole'
  <2> DEFINE later == {e \in ends : e > d}
             asked == readLeft' + Len(delivered)' - begun'
  <2>1. asked = readLeft /\ Len(delivered)' = d + size /\ begun' = d /\ ends' = ends
    <3>1. /\ readLeft' = readLeft - size /\ Len(delivered)' = d + size /\ begun' = d
          /\ ends' = ends
      BY <1>1, <1>2
    <3> HIDE DEF d
    <3> QED BY <1>2, <3>1
  <2>2. size <= n /\ (size = readLeft \/ size = n)
    BY <1>1
  <2> HIDE DEF d, r, n, asked
  <2>3. \A e \in later : d + n <= e
    BY <1>2, <1>3
  <2>4. \A e \in later : d + size <= e
    BY <1>2, <2>2, <2>3
  <2>5. ASSUME NEW e \in later, d \in ends \union {0}, e - d <= PacketSize,
               asked >= PacketSize, \A f \in later : e <= f
        PROVE  d + size = e
    <3>1. r = 0
      <4>1. CASE d \in ends
        <5>1. d + r < d + 1 \/ d + 1 + n <= d + 1
          BY <1>3, <4>1
        <5> QED BY <1>2, <2>2, <5>1
      <4>2. CASE d = 0
        BY <1>2, <1>3, <4>2
      <4> QED BY <2>5, <4>1, <4>2
    <3>2. d + n = e
      <4>1. CASE r + n = PacketSize
        BY <1>2, <2>3, <2>5, <3>1, <4>1
      <4>2. CASE \E f \in ends : d + 1 + n = f + 1
        <5>1. PICK f \in ends : d + 1 + n = f + 1
          BY <4>2
        <5>2. f \in later /\ f = d + n
          BY <1>2, <2>2, <5>1
        <5> QED BY <1>2, <2>3, <2>5, <5>2
      <4> QED BY <1>3, <4>1, <4>2
    <3>3. n <= PacketSize
      BY <1>2, <2>5, <3>2
    <3>4. size = n
      BY <1>2, <2>1, <2>2, <2>5, <3>3
    <3> QED BY <3>2, <3>4
  <2> QED
    BY <2>1, <2>4, <2>5 DEF ReadWhole, asked
<1> QED
  BY <1>1, <1>2, <1>4, <1>5 DEF MessageInv

LEMMA NextKeepsMessages ==
  ASSUME ~Streamlined, ~MultiRead, Inv, MessageInv, [Next]_vars
  PROVE  MessageInv'
<1>1. ASSUME NEW w \in Writers, Push(w) PROVE MessageInv'
  BY <1>1, PushKeepsMessages
<1>2. ASSUME NEW w \in Writers, WriteEnd(w) PROVE MessageInv'
  BY <1>2, WriteEndKeepsMessages
<1>3. ASSUME ReadPacket PROVE MessageInv'
  BY <1>3, ReadKeepsMessages
<1>4. ASSUME NEW w \in Writers, Call(w) \/ WriteFull(w) \/ WriteBegin(w) PROVE MessageInv'
  BY <1>4, MessagesUntouched
     DEF Call, WriteFull, WriteBegin, CanLockExclusive, Notified, readerVars, writerVars
<1>5. ASSUME SelectCheck \/ SelectWait \/ SelectTimeout \/ SelectWoken PROVE MessageInv'
  BY <1>5, MessagesUntouched
     DEF SelectCheck, SelectWait, SelectTimeout, SelectWoken, writerVars
<1>6. ASSUME ReadBegin \/ ReadEnd PROVE MessageInv'
  <2>1. /\ UNCHANGED <<queueVars, exclusive, left, sent, delivered, ends>>
        /\ reader' \in {"loop", "peeking"}
        /\ reader' = "peeking" => begun' = Len(delivered)'
    BY <1>6 DEF ReadBegin, ReadEnd, writerVars
  <2>2. \A i \in Slots : (Waiting(i)' <=> Waiting(i)) /\ SamePacket(i)
    BY <2>1 DEF Waiting, At, SamePacket, NextByte, queueVars
  <2>3. ASSUME NEW i \in Slots, PacketWhole(i) PROVE PacketWhole(i)'
    BY <2>1, <2>2, <2>3 DEF PacketWhole, SamePacket
  <2> QED
    BY <2>1, <2>2, <2>3 DEF MessageInv
<1>7. ~ReadMore
  BY DEF MessageInv, ReadMore
<1>8. ASSUME UNCHANGED vars PROVE MessageInv'
  BY <1>8, MessagesUntouched DEF vars, writerVars, readerVars
<1> QED
  BY <1>1, <1>2, <1>3, <1>4, <1>5, <1>6, <1>7, <1>8 DEF Next, WriterNext, ReaderNext

\* On a ring of that kind a read never goes past the end of a message, however
\* many threads write and in how many pieces, and takes a message of at most a
\* packet whole if it begins with it and asks for a packet.
THEOREM MessagesStayWhole ==
  ASSUME ~Streamlined, ~MultiRead PROVE Spec => MessagesKept
<1>1. Init => Inv /\ MessageInv
  <2>1. ASSUME Init PROVE MessageInv
    BY <2>1 DEF Init, MessageInv, Waiting
  <2> QED
    BY <2>1, InitInv
<1>2. Inv /\ MessageInv /\ [Next]_vars => (Inv /\ MessageInv)'
  BY NextKeepsInv, NextKeepsMessages
<1> DEFINE Kept == ReadEnd => ReadWhole
<1>3. MessageInv => Kept
  BY DEF MessageInv, ReadEnd
<1>4. MessagesKept <=> [][Kept]_vars
  BY DEF MessagesKept, ReadWhole
<1> QED
  BY <1>1, <1>2, <1>3, <1>4, PTL DEF Spec
=============================================================================

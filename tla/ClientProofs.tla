---------------------------- MODULE ClientProofs ----------------------------
(***************************************************************************)
(* A client.  The pools: buffers never share an index and no integer of    *)
(* their pool leaks, however many there are and whenever the pool starts   *)
(* to reuse integers; and a thread that is alone with the streams keeps    *)
(* their slots apart.  The users: the list and what goes through it, for   *)
(* every set of users and every number of iterations, if users come and    *)
(* leave one at a time.                                                    *)
(***************************************************************************)
EXTENDS ClientPools, ClientUsers, FiniteSetTheorems, WellFoundedInduction, TLAPS

-----------------------------------------------------------------------------
(* The buffers and streams.                                                *)

LayersInv == LayersTypeOK /\ PoolInv

\* For buffers freeing gives back the integer that was taken, and different
\* integers make different indices.
LEMMA BufferIndex ==
  ASSUME Kind = "buffer"
  PROVE  /\ \A v \in Int : ToIndex(v) \in Int /\ FromIndex(ToIndex(v)) = v
         /\ \A v, w \in Int : ToIndex(v) = ToIndex(w) => v = w
  BY DEF ToIndex, FromIndex

\* Arithmetic of the pool's range of integers: a longer range has every
\* integer of a shorter one.
LEMMA RangeGrows ==
  \A a, b \in Nat : a <= b => \A v \in 0 .. a - 1 : v \in 0 .. b - 1
  OBVIOUS

\* A client starts with no buffer and a fresh pool.
LEMMA InitLayersInv == InitLayers => LayersInv
  BY DEF InitLayers, PoolInit, LayersInv, LayersTypeOK, PoolInv, UniqueIndex

\* guac_client_alloc_buffer takes an integer nobody holds.
LEMMA AllocKeepsInv ==
  ASSUME Kind = "buffer", LayersInv, NEW h \in Handles, Alloc(h)
  PROVE  LayersInv'
<1> DEFINE value == NextValue
<1>1. /\ h \notin live
      /\ index' = [index EXCEPT ![h] = ToIndex(value)]
      /\ live' = live \union {h}
      /\ active' = active + 1
  BY DEF Alloc, NextInt
<1>2. \/ /\ value = next_value
         /\ next_value' = next_value + 1 /\ free_ints' = free_ints
      \/ /\ free_ints # << >> /\ value = Head(free_ints)
         /\ next_value' = next_value /\ free_ints' = Tail(free_ints)
  BY DEF Alloc, NextInt, MakesNew, NextValue
<1>3. /\ active \in Int /\ next_value \in Nat /\ free_ints \in Seq(Int)
      /\ live \subseteq Handles /\ index \in [Handles -> Int]
  BY DEF LayersInv, LayersTypeOK
<1>4. /\ \A g \in live : \E v \in 0 .. next_value - 1 : index[g] = ToIndex(v)
      /\ \A k \in 1 .. Len(free_ints) :
           /\ free_ints[k] \in 0 .. next_value - 1
           /\ \A g \in live : index[g] # ToIndex(free_ints[k])
           /\ \A m \in 1 .. Len(free_ints) :
                free_ints[k] = free_ints[m] => k = m
      /\ \A g, k \in live : index[g] = index[k] => g = k
  BY DEF LayersInv, PoolInv, UniqueIndex
\* The integer taken is not in use, and no longer waits for reuse.
<1>5. /\ value \in 0 .. next_value' - 1
      /\ next_value' \in Nat /\ next_value <= next_value'
      /\ \A g \in live : index[g] # ToIndex(value)
      /\ free_ints' \in Seq(Int)
      /\ \A k \in 1 .. Len(free_ints') :
           /\ free_ints'[k] \in 0 .. next_value' - 1
           /\ free_ints'[k] # value
           /\ \A g \in live : index[g] # ToIndex(free_ints'[k])
           /\ \A m \in 1 .. Len(free_ints') :
                free_ints'[k] = free_ints'[m] => k = m
  <2> HIDE DEF value
  <2>1. CASE value = next_value /\ next_value' = next_value + 1
             /\ free_ints' = free_ints
    <3>1. \A g \in live : index[g] # ToIndex(value)
      BY <1>3, <1>4, <2>1, BufferIndex
    <3> QED BY <1>3, <1>4, <2>1, <3>1
  <2>2. CASE free_ints # << >> /\ value = Head(free_ints)
             /\ next_value' = next_value /\ free_ints' = Tail(free_ints)
    <3>1. /\ 1 \in 1 .. Len(free_ints) /\ value = free_ints[1]
          /\ free_ints' \in Seq(Int)
          /\ Len(free_ints') = Len(free_ints) - 1
          /\ \A k \in 1 .. Len(free_ints') : free_ints'[k] = free_ints[k + 1]
      BY <1>3, <2>2
    <3>2. \A k \in 1 .. Len(free_ints') : k + 1 \in 1 .. Len(free_ints)
      BY <1>3, <3>1
    <3> QED BY <1>3, <1>4, <2>2, <3>1, <3>2
  <2> QED BY <1>2, <2>1, <2>2
<1> HIDE DEF value
<1>6. /\ index'[h] = ToIndex(value) /\ ToIndex(value) \in Int
      /\ \A g \in live : index'[g] = index[g]
  BY <1>1, <1>3, <1>5, BufferIndex
<1>7. LayersTypeOK'
  BY <1>1, <1>3, <1>5, <1>6 DEF LayersTypeOK
<1>8. \A g \in live' : \E v \in 0 .. next_value' - 1 : index'[g] = ToIndex(v)
  <2>1. ASSUME NEW g \in live
        PROVE  \E v \in 0 .. next_value' - 1 : index'[g] = ToIndex(v)
    <3>1. PICK v : v \in 0 .. next_value - 1 /\ index[g] = ToIndex(v)
      BY <1>4
    <3>2. v \in 0 .. next_value' - 1
      BY <1>3, <1>5, <3>1, RangeGrows
    <3> QED BY <1>6, <3>1, <3>2
  <2> QED BY <1>1, <1>5, <1>6, <2>1
<1>9. \A k \in 1 .. Len(free_ints') : \A g \in live' :
        index'[g] # ToIndex(free_ints'[k])
  <2>1. ASSUME NEW k \in 1 .. Len(free_ints')
        PROVE  /\ \A g \in live : index[g] # ToIndex(free_ints'[k])
               /\ ToIndex(value) # ToIndex(free_ints'[k])
    <3>1. free_ints'[k] \in Int /\ value \in Int /\ free_ints'[k] # value
      BY <1>5
    <3> QED BY <1>5, <3>1, BufferIndex
  <2> QED BY <1>1, <1>6, <2>1
<1>10. \A g, k \in live' : index'[g] = index'[k] => g = k
  BY <1>1, <1>4, <1>5, <1>6
<1> QED BY <1>5, <1>7, <1>8, <1>9, <1>10 DEF LayersInv, PoolInv, UniqueIndex

\* guac_client_free_buffer gives back the integer its buffer held.
LEMMA FreeKeepsInv ==
  ASSUME Kind = "buffer", LayersInv, NEW h \in Handles, Free(h)
  PROVE  LayersInv'
<1>1. PICK v \in 0 .. next_value - 1 : index[h] = ToIndex(v)
  BY DEF Free, LayersInv, PoolInv
<1>2. v \in Int /\ FromIndex(index[h]) = v
  BY <1>1, BufferIndex DEF LayersInv, LayersTypeOK
<1>3. /\ h \in live /\ live' = live \ {h} /\ index' = index
      /\ active' = active - 1 /\ next_value' = next_value
      /\ free_ints' = Append(free_ints, v)
  BY <1>2 DEF Free, FreeInt
<1>4. /\ active \in Int /\ next_value \in Nat /\ free_ints \in Seq(Int)
      /\ live \subseteq Handles /\ index \in [Handles -> Int]
  BY DEF LayersInv, LayersTypeOK
<1>5. /\ \A g \in live : \E u \in 0 .. next_value - 1 : index[g] = ToIndex(u)
      /\ \A k \in 1 .. Len(free_ints) :
           /\ free_ints[k] \in 0 .. next_value - 1
           /\ \A g \in live : index[g] # ToIndex(free_ints[k])
           /\ \A m \in 1 .. Len(free_ints) :
                free_ints[k] = free_ints[m] => k = m
      /\ \A g, k \in live : index[g] = index[k] => g = k
  BY DEF LayersInv, PoolInv, UniqueIndex
<1>6. /\ free_ints' \in Seq(Int) /\ Len(free_ints') = Len(free_ints) + 1
      /\ free_ints'[Len(free_ints) + 1] = v
      /\ \A k \in 1 .. Len(free_ints) : free_ints'[k] = free_ints[k]
      /\ \A k \in 1 .. Len(free_ints') :
           k \in 1 .. Len(free_ints) \/ k = Len(free_ints) + 1
  BY <1>2, <1>3, <1>4
<1>7. LayersTypeOK'
  BY <1>3, <1>4, <1>6 DEF LayersTypeOK
<1>8. \A k \in 1 .. Len(free_ints) : free_ints[k] # v
  BY <1>1, <1>3, <1>5
<1>9. \A g \in live' : index[g] # ToIndex(v)
  BY <1>1, <1>3, <1>5
<1>10. \A k \in 1 .. Len(free_ints') :
         /\ free_ints'[k] \in 0 .. next_value - 1
         /\ \A g \in live' : index[g] # ToIndex(free_ints'[k])
         /\ \A m \in 1 .. Len(free_ints') :
              free_ints'[k] = free_ints'[m] => k = m
  BY <1>1, <1>3, <1>5, <1>6, <1>8, <1>9
<1> QED BY <1>3, <1>5, <1>7, <1>10 DEF LayersInv, PoolInv, UniqueIndex


\* No integer of the pool is lost, and as many are in use as are counted.
CountLayersInv ==
  /\ \A v \in 0 .. next_value - 1 :
       \/ \E k \in 1 .. Len(free_ints) : free_ints[k] = v
       \/ \E h \in live : index[h] = ToIndex(v)
  /\ IsFiniteSet(live) /\ active = Cardinality(live)

\* The integer that is handed out is the only one that leaves the list.
LEMMA AllocKeepsCount ==
  ASSUME Kind = "buffer", LayersInv, CountLayersInv, NEW h \in Handles, Alloc(h)
  PROVE  CountLayersInv'
<1> DEFINE value == NextValue
<1>1. /\ h \notin live
      /\ index' = [index EXCEPT ![h] = ToIndex(value)]
      /\ live' = live \union {h}
      /\ active' = active + 1
  BY DEF Alloc, NextInt
<1>2. \/ /\ value = next_value
         /\ next_value' = next_value + 1 /\ free_ints' = free_ints
      \/ /\ free_ints # << >> /\ value = Head(free_ints)
         /\ next_value' = next_value /\ free_ints' = Tail(free_ints)
  BY DEF Alloc, NextInt, MakesNew, NextValue
<1> HIDE DEF value
<1>3. /\ next_value \in Nat /\ free_ints \in Seq(Int)
      /\ live \subseteq Handles /\ index \in [Handles -> Int]
  BY DEF LayersInv, LayersTypeOK
<1>4. /\ index'[h] = ToIndex(value)
      /\ \A g \in live : index'[g] = index[g]
  BY <1>1, <1>3
<1>5. ASSUME NEW v \in 0 .. next_value' - 1, v # value
      PROVE  \/ \E k \in 1 .. Len(free_ints') : free_ints'[k] = v
             \/ \E g \in live : index[g] = ToIndex(v)
  <2>1. CASE value = next_value /\ next_value' = next_value + 1
             /\ free_ints' = free_ints
    BY <1>3, <1>5, <2>1 DEF CountLayersInv
  <2>2. CASE free_ints # << >> /\ value = Head(free_ints)
             /\ next_value' = next_value /\ free_ints' = Tail(free_ints)
    <3>1. SUFFICES ASSUME NEW k \in 1 .. Len(free_ints), free_ints[k] = v
                   PROVE  \E m \in 1 .. Len(free_ints') : free_ints'[m] = v
      BY <1>5, <2>2 DEF CountLayersInv
    <3>2. k # 1
      BY <1>3, <1>5, <2>2, <3>1
    <3>3. k - 1 \in 1 .. Len(free_ints') /\ free_ints'[k - 1] = v
      BY <1>3, <2>2, <3>1, <3>2
    <3> QED BY <3>3
  <2> QED BY <1>2, <2>1, <2>2
<1>6. \A v \in 0 .. next_value' - 1 :
        \/ \E k \in 1 .. Len(free_ints') : free_ints'[k] = v
        \/ \E g \in live' : index'[g] = ToIndex(v)
  BY <1>1, <1>4, <1>5
<1>7. IsFiniteSet(live') /\ active' = Cardinality(live')
  BY <1>1, FS_AddElement DEF CountLayersInv
<1> QED BY <1>6, <1>7 DEF CountLayersInv

\* The integer that is given back waits at the end of the list.
LEMMA FreeKeepsCount ==
  ASSUME Kind = "buffer", LayersInv, CountLayersInv, NEW h \in Handles, Free(h)
  PROVE  CountLayersInv'
<1>1. PICK u \in 0 .. next_value - 1 : index[h] = ToIndex(u)
  BY DEF Free, LayersInv, PoolInv
<1>2. u \in Int /\ FromIndex(index[h]) = u
  BY <1>1, BufferIndex DEF LayersInv, LayersTypeOK
<1>3. /\ h \in live /\ live' = live \ {h} /\ index' = index
      /\ active' = active - 1 /\ next_value' = next_value
      /\ free_ints' = Append(free_ints, u)
  BY <1>2 DEF Free, FreeInt
<1>4. next_value \in Nat /\ free_ints \in Seq(Int)
  BY DEF LayersInv, LayersTypeOK
<1>5. /\ Len(free_ints') = Len(free_ints) + 1
      /\ free_ints'[Len(free_ints) + 1] = u
      /\ \A k \in 1 .. Len(free_ints) : free_ints'[k] = free_ints[k]
      /\ \A k \in 1 .. Len(free_ints) : k \in 1 .. Len(free_ints')
      /\ Len(free_ints) + 1 \in 1 .. Len(free_ints')
  BY <1>2, <1>3, <1>4
<1>6. ASSUME NEW v \in 0 .. next_value' - 1
      PROVE  \/ \E k \in 1 .. Len(free_ints') : free_ints'[k] = v
             \/ \E g \in live' : index'[g] = ToIndex(v)
  <2>1. CASE \E k \in 1 .. Len(free_ints) : free_ints[k] = v
    BY <1>5, <2>1
  <2>2. CASE \E g \in live : g # h /\ index[g] = ToIndex(v)
    BY <1>3, <2>2
  <2>3. CASE index[h] = ToIndex(v)
    <3>1. v = u
      BY <1>1, <1>2, <2>3, BufferIndex
    <3> QED BY <1>5, <3>1
  <2> QED BY <1>3, <2>1, <2>2, <2>3 DEF CountLayersInv
<1>7. IsFiniteSet(live') /\ active' = Cardinality(live')
  <2>1. Cardinality(live) \in Nat
    BY FS_CardinalityType DEF CountLayersInv
  <2> QED BY <1>3, <2>1, FS_RemoveElement DEF CountLayersInv
<1> QED BY <1>6, <1>7 DEF CountLayersInv

\* The elements of a list without repetitions are as many as it is long.
LEMMA ListCounts ==
  ASSUME NEW S, NEW s \in Seq(S),
         \A k, m \in 1 .. Len(s) : s[k] = s[m] => k = m
  PROVE  Cardinality({s[k] : k \in 1 .. Len(s)}) = Len(s)
<1> DEFINE T == {s[k] : k \in 1 .. Len(s)}
           f == [k \in 1 .. Len(s) |-> s[k]]
<1>1. f \in Bijection(1 .. Len(s), T)
  BY DEF Bijection, Injection, Surjection, IsInjective
<1>2. ExistsBijection(1 .. Len(s), T)
  BY <1>1 DEF ExistsBijection
<1>3. Len(s) \in Nat
  OBVIOUS
<1> QED BY <1>2, <1>3, FS_CountingElements

\* Conserved is what the two invariants say together.
LEMMA CountsConserve ==
  ASSUME Kind = "buffer", LayersInv, CountLayersInv
  PROVE  Conserved
<1>1. ASSUME NEW v \in 0 .. next_value - 1
      PROVE  v \in Freed <=> \A h \in live : index[h] # ToIndex(v)
  BY <1>1 DEF Freed, LayersInv, PoolInv, CountLayersInv
<1>2. Cardinality(Freed) = Len(free_ints)
  BY ListCounts DEF Freed, LayersInv, LayersTypeOK, PoolInv
<1> QED BY <1>1, <1>2 DEF Conserved, CountLayersInv

\* The buffers of a client, whatever its streams do in between.
LEMMA BuffersKept ==
  ASSUME Kind = "buffer"
  PROVE  SpecClient => [](LayersInv /\ CountLayersInv)
<1>1. InitClient => LayersInv /\ CountLayersInv
  BY InitLayersInv, FS_EmptySet DEF InitClient, InitLayers, PoolInit, CountLayersInv
<1>2. LayersInv /\ CountLayersInv /\ [NextClient]_<<layerVars, streamVars>>
        => (LayersInv /\ CountLayersInv)'
  <2> SUFFICES ASSUME LayersInv, CountLayersInv, [NextClient]_<<layerVars, streamVars>>
               PROVE  LayersInv' /\ CountLayersInv'
    OBVIOUS
  <2>1. CASE UNCHANGED layerVars
    BY <2>1 DEF layerVars, poolVars, LayersInv, LayersTypeOK, PoolInv, UniqueIndex, CountLayersInv
  <2>2. CASE NextLayers
    BY <2>2, AllocKeepsInv, FreeKeepsInv, AllocKeepsCount, FreeKeepsCount
       DEF NextLayers
  <2> QED BY <2>1, <2>2 DEF NextClient
<1> QED BY <1>1, <1>2, PTL DEF SpecClient

\* Two buffers that exist at the same time have different indices: what
\* guac_client_alloc_buffer and guac_client_free_buffer do together.
THEOREM BuffersAreUnique ==
  ASSUME Kind = "buffer" PROVE SpecClient => []UniqueIndex
<1>1. LayersInv => UniqueIndex
  BY DEF LayersInv, PoolInv
<1> QED BY <1>1, BuffersKept, PTL

\* Every integer guac_pool_next_int ever made is the one of a buffer or waits
\* in the list once, and the pool counts those in use.
THEOREM BuffersAreConserved ==
  ASSUME Kind = "buffer" PROVE SpecClient => []Conserved
<1>1. LayersInv /\ CountLayersInv => Conserved
  BY CountsConserve
<1> QED BY <1>1, BuffersKept, PTL

-----------------------------------------------------------------------------
(* The streams of a client that any number of threads allocate and free,   *)
(* until one takes a slot that another one has yet to mark closed.         *)

\* What is looked up where.
StreamTypes ==
  /\ streamsNext \in Nat /\ streamsFree \in Seq(Nat)
  /\ DOMAIN streamIndex = Output!Memory /\ DOMAIN open = StreamThreads
  /\ DOMAIN streamPc = StreamThreads /\ DOMAIN slot = StreamThreads

\* The slots that wait are different ones, and nobody uses them.
FreeSlots == \A k \in 1 .. Len(streamsFree) :
  /\ streamsFree[k] \in 0 .. streamsNext - 1
  /\ \A t \in StreamThreads :
       /\ streamsFree[k] \notin open[t]
       /\ streamPc[t] = "taken" => streamsFree[k] # slot[t]
  /\ \A m \in 1 .. Len(streamsFree) :
       streamsFree[k] = streamsFree[m] => k = m

\* The slots that the threads use, each one by one of them.
UsedSlots == \A t \in StreamThreads :
  /\ open[t] \subseteq 0 .. streamsNext - 1
  /\ streamPc[t] = "taken" => slot[t] \in 0 .. streamsNext - 1
  /\ \A s \in open[t] : streamIndex[s] = Output!ToIndex(s)
  /\ \A u \in StreamThreads :
       /\ streamPc[t] \in {"taken", "released"} => slot[t] \notin open[u]
       /\ t # u => open[t] \intersect open[u] = {}
       /\ t # u /\ streamPc[t] = "taken" /\ streamPc[u] \in {"taken", "released"}
            => slot[t] # slot[u]

\* The inductive invariant of the threads that allocate.
StreamInv == ~raced => StreamTypes /\ FreeSlots /\ UsedSlots

\* Freeing a stream gives back the integer its slot was taken with.
LEMMA StreamIndex ==
  \A s \in Nat : Output!FromIndex(Output!ToIndex(s)) = s
  BY DEF Output!ToIndex, Output!FromIndex, Output!Half

\* The slots of the array are among those that can be looked up.
LEMMA SlotsInMemory ==
  ASSUME IsFiniteSet(StreamThreads), MaxStreams \in Nat
  PROVE  0 .. MaxStreams - 1 \subseteq Output!Memory
<1>1. Cardinality(StreamThreads) \in Nat
  BY FS_CardinalityType
<1>2. Output!Cardinality(StreamThreads) = Cardinality(StreamThreads)
  BY DEF Output!Cardinality, Cardinality
<1> QED BY <1>1, <1>2 DEF Output!Memory

\* guac_client_alloc_stream: the slot that is taken was nobody's.
LEMMA TakeKeepsStreams ==
  ASSUME NEW t \in StreamThreads, ~raced, StreamTypes, FreeSlots, UsedSlots,
         Output!Take(t), ~raced'
  PROVE  (StreamTypes /\ FreeSlots /\ UsedSlots)'
<1> DEFINE value == Output!NextValue
<1>1. /\ slot' = [slot EXCEPT ![t] = value]
      /\ streamPc[t] = "room" /\ streamPc' = [streamPc EXCEPT ![t] = "taken"]
      /\ UNCHANGED <<streamIndex, open>>
      /\ \A u \in StreamThreads \ {t} :
           streamPc[u] = "released" => slot[u] # value
  BY DEF Output!Take, Output!NotYetClosed
<1>2. /\ value \in Nat /\ value < streamsNext'
      /\ \A u \in StreamThreads :
           value \notin open[u] /\ (streamPc[u] = "taken" => slot[u] # value)
      /\ streamsNext' \in Nat /\ streamsFree' \in Seq(Nat) /\ streamsNext <= streamsNext'
      /\ \A k \in 1 .. Len(streamsFree') :
           /\ streamsFree'[k] # value
           /\ streamsFree'[k] \in 0 .. streamsNext' - 1
           /\ \A u \in StreamThreads :
                /\ streamsFree'[k] \notin open[u]
                /\ streamPc[u] = "taken" => streamsFree'[k] # slot[u]
           /\ \A m \in 1 .. Len(streamsFree') :
                streamsFree'[k] = streamsFree'[m] => k = m
  <2>1. CASE Output!MakesNew
    <3>1. /\ value = streamsNext /\ streamsNext' = streamsNext + 1
          /\ streamsFree' = streamsFree
      BY <2>1 DEF Output!Take, Output!NextInt, Output!NextValue
    <3> QED BY <3>1 DEF StreamTypes, FreeSlots, UsedSlots
  <2>2. CASE ~Output!MakesNew
    <3>1. /\ value = Head(streamsFree) /\ streamsNext' = streamsNext
          /\ streamsFree' = Tail(streamsFree) /\ streamsFree # << >>
      BY <2>2 DEF Output!Take, Output!NextInt, Output!NextValue, Output!MakesNew
    <3>2. /\ value = streamsFree[1] /\ 1 \in 1 .. Len(streamsFree)
          /\ streamsFree' \in Seq(Nat)
          /\ \A k \in 1 .. Len(streamsFree') :
               /\ k + 1 \in 1 .. Len(streamsFree) /\ k + 1 # 1
               /\ streamsFree'[k] = streamsFree[k + 1]
      BY <3>1 DEF StreamTypes
    <3>3. value \in 0 .. streamsNext - 1
      BY <3>2 DEF FreeSlots
    <3>4. \A k \in 1 .. Len(streamsFree') : streamsFree'[k] # value
      BY <3>2 DEF FreeSlots
    <3>5. \A k, m \in 1 .. Len(streamsFree') : k + 1 = m + 1 => k = m
      OBVIOUS
    <3>6. \A k \in 1 .. Len(streamsFree') : \A m \in 1 .. Len(streamsFree') :
            streamsFree'[k] = streamsFree'[m] => k = m
      BY <3>2, <3>5 DEF FreeSlots
    <3>7. \A k \in 1 .. Len(streamsFree') :
            /\ streamsFree'[k] \in 0 .. streamsNext - 1
            /\ \A u \in StreamThreads :
                 /\ streamsFree'[k] \notin open[u]
                 /\ streamPc[u] = "taken" => streamsFree'[k] # slot[u]
      BY <3>2 DEF FreeSlots
    <3> QED BY <3>1, <3>2, <3>3, <3>4, <3>6, <3>7 DEF StreamTypes, FreeSlots
  <2> QED BY <2>1, <2>2
<1> HIDE DEF value
<1>3. /\ slot'[t] = value /\ streamPc'[t] = "taken"
      /\ \A u \in StreamThreads \ {t} :
           slot'[u] = slot[u] /\ streamPc'[u] = streamPc[u]
  BY <1>1 DEF StreamTypes
<1>4. StreamTypes'
  BY <1>1, <1>2 DEF StreamTypes
<1>5. FreeSlots'
  BY <1>1, <1>2, <1>3 DEF FreeSlots
<1>6. UsedSlots'
  <2> SUFFICES ASSUME NEW u \in StreamThreads PROVE UsedSlots!(u)'
    BY DEF UsedSlots
  <2>1. /\ open[u] \subseteq 0 .. streamsNext' - 1
        /\ streamPc'[u] = "taken" => slot'[u] \in 0 .. streamsNext' - 1
    BY <1>2, <1>3 DEF UsedSlots, StreamTypes
  <2>2. ASSUME NEW w \in StreamThreads
        PROVE  /\ streamPc'[u] \in {"taken", "released"} => slot'[u] \notin open[w]
               /\ u # w => open[u] \intersect open[w] = {}
               /\ u # w /\ streamPc'[u] = "taken" /\ streamPc'[w] \in {"taken", "released"}
                    => slot'[u] # slot'[w]
    BY <1>1, <1>2, <1>3 DEF UsedSlots
  <2> QED BY <1>1, <2>1, <2>2 DEF UsedSlots
<1> QED BY <1>4, <1>5, <1>6

\* guac_client_alloc_stream, guac_client_free_stream: every step keeps it.
LEMMA StreamsKept ==
  ASSUME IsFiniteSet(StreamThreads), MaxStreams \in Nat, StreamInv, Output!Next
  PROVE  StreamInv'
<1> SUFFICES ASSUME ~raced' PROVE (StreamTypes /\ FreeSlots /\ UsedSlots)'
  BY DEF StreamInv
<1>0. PICK t \in StreamThreads :
        \/ Output!Check(t) \/ Output!Take(t) \/ Output!Open(t)
        \/ Output!Release(t) \/ Output!Mark(t)
  BY DEF Output!Next
<1>a. ~raced /\ StreamTypes /\ FreeSlots /\ UsedSlots
  <2>1. CASE Output!Take(t)
    BY <2>1 DEF StreamInv, Output!Take
  <2>2. CASE UNCHANGED raced
    BY <2>2 DEF StreamInv
  <2>3. Output!Take(t) \/ UNCHANGED raced
    BY <1>0 DEF Output!Check, Output!Open, Output!Release, Output!Mark
  <2> QED BY <2>1, <2>2, <2>3
<1> USE <1>a
<1>1. CASE Output!Check(t)
  <2>1. /\ streamPc' = [streamPc EXCEPT ![t] = "room"]
        /\ UNCHANGED <<streamsNext, streamsFree, streamIndex, open, slot>>
    BY <1>1 DEF Output!Check, Output!poolVars
  <2> QED BY <2>1 DEF StreamTypes, FreeSlots, UsedSlots
<1>2. CASE Output!Take(t)
  BY <1>2, TakeKeepsStreams
<1>3. CASE Output!Open(t)
  <2>1. /\ streamPc[t] = "taken" /\ streamPc' = [streamPc EXCEPT ![t] = "idle"]
        /\ streamIndex' =
             [streamIndex EXCEPT ![slot[t]] = Output!ToIndex(slot[t])]
        /\ open' = [open EXCEPT ![t] = @ \union {slot[t]}]
        /\ UNCHANGED <<streamsNext, streamsFree, slot>>
    BY <1>3 DEF Output!Open, Output!poolVars
  <2>2. slot[t] \in Output!Memory /\ slot[t] \in 0 .. streamsNext - 1
    BY <2>1, SlotsInMemory DEF Output!Next, Output!InArray, UsedSlots
  <2>3. /\ open'[t] = open[t] \union {slot[t]} /\ streamPc'[t] = "idle"
        /\ \A u \in StreamThreads \ {t} :
             open'[u] = open[u] /\ streamPc'[u] = streamPc[u]
        /\ streamIndex'[slot[t]] = Output!ToIndex(slot[t])
        /\ \A s : s # slot[t] /\ s \in Output!Memory => streamIndex'[s] = streamIndex[s]
    BY <2>1, <2>2 DEF StreamTypes
  <2>4. StreamTypes'
    BY <2>1 DEF StreamTypes
  <2>5. FreeSlots'
    BY <2>1, <2>3 DEF FreeSlots
  <2>6. ASSUME NEW u \in StreamThreads
        PROVE  \A s \in open'[u] : streamIndex'[s] = Output!ToIndex(s)
    <3>1. \A s \in open[u] : streamIndex[s] = Output!ToIndex(s)
      BY DEF UsedSlots
    <3>2. \A s \in open[u] : streamIndex'[s] = streamIndex[s] \/ s = slot[t]
      BY <2>1, <2>2 DEF StreamTypes
    <3> QED BY <2>1, <2>3, <3>1, <3>2
  <2>7. ASSUME NEW u \in StreamThreads, NEW w \in StreamThreads
        PROVE  /\ streamPc'[u] \in {"taken", "released"} => slot[u] \notin open'[w]
               /\ u # w => open'[u] \intersect open'[w] = {}
               /\ u # w /\ streamPc'[u] = "taken"
                    /\ streamPc'[w] \in {"taken", "released"} => slot[u] # slot[w]
    BY <2>1, <2>3 DEF UsedSlots
  <2>8. UsedSlots'
    BY <2>1, <2>2, <2>3, <2>6, <2>7 DEF UsedSlots
  <2> QED BY <2>4, <2>5, <2>8
<1>4. CASE Output!Release(t)
  <2>1. PICK s \in open[t] :
          /\ Output!FreeInt(Output!FromIndex(streamIndex[s]))
          /\ slot' = [slot EXCEPT ![t] = s]
          /\ open' = [open EXCEPT ![t] = @ \ {s}]
    BY <1>4 DEF Output!Release
  <2>2. /\ s \in Nat /\ s \in 0 .. streamsNext - 1
        /\ streamIndex[s] = Output!ToIndex(s)
    BY DEF UsedSlots, StreamTypes
  <2>3. streamsFree' = Append(streamsFree, s) /\ streamsNext' = streamsNext
    BY <2>1, <2>2, StreamIndex DEF Output!FreeInt
  <2>4. /\ streamsFree' \in Seq(Nat)
        /\ \A k \in 1 .. Len(streamsFree') :
             \/ k \in 1 .. Len(streamsFree) /\ streamsFree'[k] = streamsFree[k]
             \/ k = Len(streamsFree) + 1 /\ streamsFree'[k] = s
    BY <2>2, <2>3 DEF StreamTypes
  <2>5. /\ streamPc' = [streamPc EXCEPT ![t] = "released"]
        /\ streamIndex' = streamIndex
    BY <1>4 DEF Output!Release
  <2>6. /\ slot'[t] = s /\ open'[t] = open[t] \ {s} /\ streamPc'[t] = "released"
        /\ \A u \in StreamThreads \ {t} :
             slot'[u] = slot[u] /\ open'[u] = open[u] /\ streamPc'[u] = streamPc[u]
    BY <2>1, <2>5 DEF StreamTypes
  <2>7. \A k \in 1 .. Len(streamsFree) : streamsFree[k] # s
    BY DEF FreeSlots
  <2>8. \A u \in StreamThreads :
          s \notin open'[u] /\ (streamPc[u] = "taken" => slot[u] # s)
    BY <2>6 DEF UsedSlots
  <2>9. StreamTypes'
    BY <2>1, <2>3, <2>4, <2>5 DEF StreamTypes
  <2>10. FreeSlots'
    <3>1. ASSUME NEW k \in 1 .. Len(streamsFree'), NEW m \in 1 .. Len(streamsFree'),
                 streamsFree'[k] = streamsFree'[m]
          PROVE  k = m
      BY <2>4, <2>7, <3>1 DEF FreeSlots
    <3>2. ASSUME NEW k \in 1 .. Len(streamsFree')
          PROVE  /\ streamsFree'[k] \in 0 .. streamsNext - 1
                 /\ \A u \in StreamThreads :
                      /\ streamsFree'[k] \notin open'[u]
                      /\ streamPc'[u] = "taken" => streamsFree'[k] # slot'[u]
      BY <2>2, <2>4, <2>6, <2>8 DEF FreeSlots
    <3> QED BY <2>3, <3>1, <3>2 DEF FreeSlots
  <2>11. UsedSlots'
    <3>1. ASSUME NEW u \in StreamThreads, NEW w \in StreamThreads
          PROVE  /\ streamPc'[u] \in {"taken", "released"} => slot'[u] \notin open'[w]
                 /\ u # w => open'[u] \intersect open'[w] = {}
                 /\ u # w /\ streamPc'[u] = "taken"
                      /\ streamPc'[w] \in {"taken", "released"} => slot'[u] # slot'[w]
      BY <2>6, <2>8 DEF UsedSlots
    <3>2. ASSUME NEW u \in StreamThreads
          PROVE  /\ open'[u] \subseteq 0 .. streamsNext - 1
                 /\ streamPc'[u] = "taken" => slot'[u] \in 0 .. streamsNext - 1
                 /\ \A q \in open'[u] : streamIndex[q] = Output!ToIndex(q)
      BY <2>6 DEF UsedSlots
    <3> QED BY <2>3, <2>5, <3>1, <3>2 DEF UsedSlots
  <2> QED BY <2>9, <2>10, <2>11
<1>5. CASE Output!Mark(t)
  <2>1. /\ streamPc[t] = "released" /\ streamPc' = [streamPc EXCEPT ![t] = "idle"]
        /\ streamIndex' = [streamIndex EXCEPT ![slot[t]] = Output!Closed]
        /\ UNCHANGED <<streamsNext, streamsFree, open, slot>>
    BY <1>5 DEF Output!Mark, Output!poolVars
  <2>2. \A u \in StreamThreads : slot[t] \notin open[u]
    BY <2>1 DEF UsedSlots
  <2>3. ASSUME NEW u \in StreamThreads, NEW s \in open[u]
        PROVE  streamIndex'[s] = Output!ToIndex(s)
    <3>1. streamIndex[s] = Output!ToIndex(s) /\ s # slot[t]
      BY <2>2 DEF UsedSlots
    <3> QED BY <2>1, <3>1 DEF StreamTypes
  <2>4. StreamTypes' /\ FreeSlots'
    BY <2>1 DEF StreamTypes, FreeSlots
  <2>5. UsedSlots'
    BY <2>1, <2>3 DEF UsedSlots, StreamTypes
  <2> QED BY <2>4, <2>5
<1> QED BY <1>0, <1>1, <1>2, <1>3, <1>4, <1>5

\* The streams of a client, whatever its buffers do in between.
LEMMA StreamsAlwaysKept ==
  ASSUME IsFiniteSet(StreamThreads), MaxStreams \in Nat
  PROVE  SpecClient => []StreamInv
<1>1. InitClient => StreamInv
  BY DEF InitClient, Output!Init, Output!PoolInit, StreamInv, StreamTypes,
     FreeSlots, UsedSlots
<1>2. StreamInv /\ [NextClient]_<<layerVars, streamVars>> => StreamInv'
  <2> SUFFICES ASSUME StreamInv, [NextClient]_<<layerVars, streamVars>>
               PROVE  StreamInv'
    OBVIOUS
  <2>1. CASE UNCHANGED streamVars
    BY <2>1 DEF streamVars, StreamInv, StreamTypes, FreeSlots, UsedSlots
  <2>2. CASE Output!Next
    BY <2>2, StreamsKept
  <2> QED BY <2>1, <2>2 DEF NextClient
<1> QED BY <1>1, <1>2, PTL DEF SpecClient

\* For any number of threads, and as long as none took a slot in one of the two
\* windows, guac_client_alloc_stream hands out no slot that anybody uses.
THEOREM SlotsNotTakenTwice ==
  ASSUME IsFiniteSet(StreamThreads), MaxStreams \in Nat
  PROVE  SpecClient => []NotTakenTwice
<1>1. StreamInv => NotTakenTwice
  BY DEF StreamInv, UsedSlots, NotTakenTwice, Output!NotTakenTwice
<1> QED BY <1>1, StreamsAlwaysKept, PTL

\* And an open stream carries the index of its slot.
THEOREM OpenStreamsIndexed ==
  ASSUME IsFiniteSet(StreamThreads), MaxStreams \in Nat
  PROVE  SpecClient => []OpenIsIndexed
<1>1. StreamInv => OpenIsIndexed
  BY DEF StreamInv, UsedSlots, OpenIsIndexed, Output!OpenIsIndexed
<1> QED BY <1>1, StreamsAlwaysKept, PTL

-----------------------------------------------------------------------------
(* The inductive invariant.                                                *)

UserLabels == {"new", "joined", "refused", "add", "refuse", "addBack", "addHead",
               "added", "in", "unlink", "unlinkNext", "removed", "left", "gone"}
IteratorLabels == {"idle", "begin", "callOwner", "visit", "advance", "end"}

\* The users that the links forward go through, and those that are counted.
Listed == {u \in Users : pc[u] \in {"added", "in", "unlink"}}
Counted == {u \in Users : pc[u] \in {"added", "in", "unlink", "unlinkNext"}}

\* The types, with a count of users that is exact.
Types ==
  LET Link == Users \union {NoUser} IN
  /\ LockTypeOK
  /\ pc \in [Threads -> Labels]
  /\ \A u \in Users : pc[u] \in UserLabels
  /\ \A i \in Iterators :
       pc[i] \in IteratorLabels /\ (pc[i] = "advance" => current[i] # NoUser)
  /\ users \in Link /\ owner \in Link
  /\ next \in [Users -> Link] /\ prev \in [Users -> Link]
  /\ freed \subseteq Users /\ fault \in BOOLEAN
  /\ asked \in [Iterators -> Link] /\ current \in [Iterators -> Link]
  /\ called \in [Iterators -> SUBSET Users]
  /\ steady \in [Iterators -> SUBSET Users] /\ present \in [Iterators -> SUBSET Users]

\* No two users are in a function of the client or in the lock.
Busy(u) == lock[u] # "free" \/ pc[u] \notin Outside
Alone == \A u, d \in Users : Busy(u) /\ Busy(d) => u = d

CountInv == connectedUsers = Cardinality(Counted)

\* The owner is counted, and if there is one user with the flag it is the owner
\* as long as it is.
OwnerInv ==
  /\ owner # NoUser => owner \in Owners \intersect Counted
  /\ (\A a, b \in Owners : a = b) => \A u \in Owners \intersect Counted : owner = u

\* The users that were put in the list have places, the later ones the greater;
\* those that were not have place 0.
Places(order, n) ==
  /\ order \in [Users -> 0 .. n]
  /\ \A u, w \in Users : order[u] = order[w] /\ order[u] > 0 => u = w
  /\ \A u \in Users :
       /\ pc[u] \in {"added", "in", "unlink", "unlinkNext", "removed"} => order[u] > 0
       /\ pc[u] \in {"new", "joined", "refused", "refuse", "add", "addBack", "addHead"}
            => order[u] = 0

Place(order, u) == IF u = NoUser THEN 0 ELSE order[u]

\* The links forward go down in place and skip nobody who is listed, also those
\* of the users that were taken from the list.
Forward(order) ==
  /\ users \in Listed \union {NoUser}
  /\ \A w \in Listed : order[w] <= Place(order, users)
  /\ \A u \in Users : order[u] > 0 =>
       /\ next[u] # NoUser => order[next[u]] > 0
       /\ Place(order, next[u]) < order[u]
       /\ \A w \in Listed : order[w] < order[u] => order[w] <= Place(order, next[u])
  /\ \A u \in Counted : next[u] \in Listed \union {NoUser}

\* What is half done while a user is put in the list or taken from it.
HalfDone(u) ==
  /\ pc[u] \in {"addBack", "addHead"} => next[u] = users /\ prev[u] = NoUser
  /\ pc[u] = "addHead" /\ users # NoUser => prev[users] = u
  /\ pc[u] = "unlinkNext" =>
       /\ next[u] # NoUser => prev[next[u]] = u
       /\ \A w \in Listed : prev[w] = u => w = next[u]
Changing == \A u \in Users : HalfDone(u)

\* The link back of a user, or what it will be when that is done.
Back(w) ==
  LET u == prev[w] IN
  IF u = NoUser THEN NoUser
  ELSE IF pc[u] = "addHead" THEN NoUser
  ELSE IF pc[u] = "unlinkNext" THEN prev[u] ELSE u

Backward == \A w \in Listed :
  IF Back(w) = NoUser THEN users = w
  ELSE Back(w) \in Listed /\ next[Back(w)] = w

ListInv(order, n) == Places(order, n) /\ Forward(order) /\ Changing /\ Backward

\* The users that the callback of an iteration may be called with.
Wanted(i) == IF asked[i] = NoUser THEN Users ELSE {asked[i]}

\* An iteration has been where the users were listed meanwhile that it may come
\* to, and has still to come to those it has to call.
IterAt(order, i) ==
  /\ pc[i] = "idle" => present[i] = {} /\ steady[i] = {}
  /\ pc[i] # "idle" => Counted \subseteq present[i]
  /\ \A u \in steady[i] : pc[u] = "in"
  /\ \A u \in present[i] : order[u] > 0 /\ next[u] \in present[i] \union {NoUser}
  /\ pc[i] \in {"begin", "callOwner"} => called[i] = {}
  /\ pc[i] \in {"visit", "advance"} =>
       /\ current[i] \in present[i] \union {NoUser}
       /\ called[i] \subseteq Wanted(i) \intersect present[i]
       /\ \A u \in steady[i] \intersect Wanted(i) :
            \/ u \in called[i] \/ order[u] < Place(order, current[i])
            \/ pc[i] = "visit" /\ u = current[i]
IterInv(order) == \A i \in Iterators : IterAt(order, i)

Inv ==
  /\ Types /\ Alone /\ CountInv /\ OwnerInv
  /\ \E n \in Nat : \E order \in [Users -> 0 .. n] : ListInv(order, n) /\ IterInv(order)

-----------------------------------------------------------------------------
(* Types, and one user at a time.                                          *)

\* A step inside the lock brings nobody in who is outside.
LEMMA LockMoves ==
  ASSUME LockTypeOK, NEW t \in Threads, LockStep(t)
  PROVE  LockTypeOK' /\ \A d \in Threads : lock'[d] # "free" => lock[d] # "free"
<1>1. ASSUME Undo(t) \/ WriteCheck(t) \/ ReadCheck(t) \/ FallAsleep(t) PROVE
        LockTypeOK' /\ \A d \in Threads : lock'[d] # "free" => lock[d] # "free"
  BY <1>1, MinIntAssumption
     DEF LockTypeOK, Undo, WriteCheck, ReadCheck, FallAsleep, Exchange, Increment,
         Set, Acquiring
<1>2. \A d \in Threads :
        /\ Awake(lock[d]) \in {"free", "writing", "reading", "notifyAll", "notifyOne"}
                                \union Acquiring
        /\ Awake(lock[d]) # "free" => lock[d] # "free"
  BY DEF LockTypeOK, Awake, Acquiring
<1>3. ASSUME NotifyAll(t) \/ NotifyOne(t) PROVE
        LockTypeOK' /\ \A d \in Threads : lock'[d] # "free" => lock[d] # "free"
  BY <1>2, <1>3 DEF LockTypeOK, NotifyAll, NotifyOne
<1> QED BY <1>1, <1>3 DEF LockStep

\* The lock's own functions change the lock of the thread that calls them.
LEMMA LockCalls ==
  ASSUME LockTypeOK, NEW t \in Threads,
         LockWrite(t) \/ LockRead(t) \/ UnLockWrite(t) \/ UnLockRead(t)
  PROVE  LockTypeOK' /\ \A d \in Threads \ {t} : lock'[d] = lock[d]
  BY MinIntAssumption
     DEF LockTypeOK, LockWrite, LockRead, UnLockWrite, UnLockRead, Exchange,
         Increment, Set, Acquiring

LEMMA InitTypes ==
  ASSUME Init PROVE Types /\ Alone
<1>1. /\ pc \in [Threads -> Labels]
      /\ \A u \in Users : pc[u] = "new" /\ lock[u] = "free"
      /\ \A i \in Iterators : pc[i] = "idle"
  BY UsersAssumption DEF Init, LockInit, Labels, Outside
<1>2. LockTypeOK
  BY DEF Init, LockInit, LockTypeOK
<1> QED
  BY <1>1, <1>2 DEF Init, Types, UserLabels, IteratorLabels, Alone, Busy, Outside

LEMMA UseIsBoolean ==
  ASSUME NEW x, Use(x) PROVE fault' \in BOOLEAN
  BY DEF Use

\* The history that is recorded is one of users.
LEMMA RecordedTypes ==
  ASSUME Types, Recorded
  PROVE  /\ steady' \in [Iterators -> SUBSET Users]
         /\ present' \in [Iterators -> SUBSET Users]
  BY DEF Types, Recorded

LEMMA UserKeepsTypes ==
  ASSUME Types, NEW u \in Users, User(u), Recorded
  PROVE  Types'
<1>1. u \in Threads /\ u \notin Iterators
  BY UsersAssumption
<1>2. pc' \in [Threads -> Labels] /\ (\A i \in Iterators : pc'[i] = pc[i])
      /\ \A d \in Users : pc'[d] \in UserLabels
  <2>1. \E label \in UserLabels : pc' = [pc EXCEPT ![u] = label]
    BY DEF User, UserLabels, Goto,
           Join, AddLock, AddLinks, AddBack, AddHead, AddUnlock,
           RemoveLock, Unlink, UnlinkNext, RemoveUnlock, FreeUser
  <2>2. UserLabels \subseteq Labels
    BY DEF UserLabels, Labels, Outside
  <2> QED BY <1>1, <2>1, <2>2 DEF Types
<1>3. LockTypeOK'
  <2>1. CASE UNCHANGED lockVars
    BY <2>1 DEF Types, LockTypeOK, lockVars
  <2>2. CASE LockWrite(u) \/ UnLockWrite(u)
    BY <1>1, <2>2, LockCalls DEF Types
  <2> QED BY <2>1, <2>2 DEF User, Join, AddLock, AddLinks, AddBack, AddHead, AddUnlock,
         RemoveLock, Unlink, UnlinkNext, RemoveUnlock, FreeUser
<1>4. asked' = asked /\ current' = current /\ called' = called /\ freed' \subseteq Users
  BY DEF User, Types, iterVars,
         Join, AddLock, AddLinks, AddBack, AddHead, AddUnlock,
         RemoveLock, Unlink, UnlinkNext, RemoveUnlock, FreeUser
<1>5. /\ users' \in Users \union {NoUser} /\ owner' \in Users \union {NoUser}
      /\ next' \in [Users -> Users \union {NoUser}]
      /\ prev' \in [Users -> Users \union {NoUser}]
  <2>1. CASE UNCHANGED listVars
    BY <2>1 DEF Types, listVars
  <2>2. CASE AddLinks(u)
    BY <2>2 DEF Types, AddLinks
  <2>3. CASE AddBack(u)
    BY <2>3 DEF Types, AddBack
  <2>4. CASE AddHead(u)
    BY <2>4, UsersAssumption DEF Types, AddHead
  <2>5. CASE Unlink(u)
    BY <2>5 DEF Types, Unlink
  <2>6. CASE UnlinkNext(u)
    BY <2>6 DEF Types, UnlinkNext, OwnerWithout
  <2> QED BY <2>1, <2>2, <2>3, <2>4, <2>5, <2>6
          DEF User, Join, AddLock, AddUnlock, RemoveLock, RemoveUnlock, FreeUser
<1>6. fault' \in BOOLEAN
  <2>1. CASE \E x : Use(x)
    BY <2>1, UseIsBoolean
  <2>2. CASE fault' = fault
    BY <2>2 DEF Types
  <2> QED BY <2>1, <2>2
          DEF User, Join, AddLock, AddLinks, AddBack, AddHead, AddUnlock,
              RemoveLock, Unlink, UnlinkNext, RemoveUnlock, FreeUser
<1> QED BY <1>2, <1>3, <1>4, <1>5, <1>6, RecordedTypes DEF Types

LEMMA IteratorKeepsTypes ==
  ASSUME Types, NEW i \in Iterators, CallUsers(i) \/ Iterating(i), Recorded
  PROVE  /\ Types'
         /\ \A d \in Users : pc'[d] = pc[d] /\ lock'[d] = lock[d]
         /\ \A d \in Iterators \ {i} :
              /\ pc'[d] = pc[d] /\ asked'[d] = asked[d]
              /\ current'[d] = current[d] /\ called'[d] = called[d]
         /\ UNCHANGED listVars
<1>1. i \in Threads /\ i \notin Users
  BY UsersAssumption
<1>2. /\ pc' \in [Threads -> Labels] /\ (\A d \in Threads \ {i} : pc'[d] = pc[d])
      /\ pc'[i] \in IteratorLabels
  <2>1. \E label \in IteratorLabels : pc' = [pc EXCEPT ![i] = label]
    BY DEF Iterating, IteratorLabels, Goto,
           CallUsers, CallOwner, Begin, Visit, Advance, End
  <2>2. IteratorLabels \subseteq Labels
    BY DEF IteratorLabels, Labels, Outside
  <2> QED BY <1>1, <2>1, <2>2 DEF Types
<1>3. LockTypeOK' /\ \A d \in Threads \ {i} : lock'[d] = lock[d]
  <2>1. CASE UNCHANGED lockVars
    BY <2>1 DEF Types, LockTypeOK, lockVars
  <2>2. CASE LockRead(i) \/ UnLockRead(i)
    BY <1>1, <2>2, LockCalls DEF Types
  <2> QED BY <2>1, <2>2 DEF Iterating, CallUsers, CallOwner, Begin, Visit, Advance, End
<1>4. UNCHANGED <<listVars, freed>> /\ fault' \in BOOLEAN
  <2>1. CASE \E x : Use(x)
    BY <2>1, UseIsBoolean
       DEF Iterating, CallUsers, CallOwner, Begin, Visit, Advance, End
  <2>2. CASE fault' = fault
    BY <2>2 DEF Types, Iterating, CallUsers, CallOwner, Begin, Visit, Advance, End
  <2> QED BY <2>1, <2>2
          DEF Iterating, CallUsers, CallOwner, Begin, Visit, Advance, End
<1>5. /\ asked' \in [Iterators -> Users \union {NoUser}]
      /\ current' \in [Iterators -> Users \union {NoUser}]
      /\ called' \in [Iterators -> SUBSET Users]
      /\ \A d \in Iterators \ {i} :
              /\ asked'[d] = asked[d]
              /\ current'[d] = current[d] /\ called'[d] = called[d]
  <2>1. CASE CallUsers(i)
    BY <2>1 DEF Types, CallUsers
  <2>2. CASE CallOwner(i)
    BY <2>2 DEF Types, CallOwner
  <2>3. CASE Begin(i) \/ End(i)
    BY <2>3 DEF Types, Begin, End, iterVars
  <2>4. CASE Visit(i)
    BY <2>4 DEF Types, Visit
  <2>5. CASE Advance(i)
    BY <2>5 DEF Types, Advance
  <2> QED BY <2>1, <2>2, <2>3, <2>4, <2>5 DEF Iterating
<1>6. \A d \in Users : d \in Threads \ {i}
  BY UsersAssumption
<1>7. \A d \in Iterators \ {i} : d \in Threads \ {i}
  BY UsersAssumption
<1>8. \A d \in Users : pc'[d] = pc[d] /\ lock'[d] = lock[d]
  BY <1>2, <1>3, <1>6
<1>9. \A d \in Iterators :
        pc'[d] \in IteratorLabels /\ (pc'[d] = "advance" => current'[d] # NoUser)
  <2>1. pc'[i] = "advance" => current'[i] # NoUser
    BY <1>1 DEF Types, Iterating, Goto, CallUsers, CallOwner, Begin, Visit, Advance, End
  <2> QED BY <1>2, <1>5, <1>7, <2>1 DEF Types
<1> QED
  BY <1>2, <1>3, <1>4, <1>5, <1>7, <1>8, <1>9, RecordedTypes DEF Types, listVars

LEMMA LockingKeepsTypes ==
  ASSUME Types, NEW t \in Threads, Locking(t), Recorded
  PROVE  Types' /\ \A d \in Threads : lock'[d] # "free" => lock[d] # "free"
  BY LockMoves, RecordedTypes DEF Locking, Types, listVars, iterVars

\* A user waits for the others to be outside, if they may not come together.
LEMMA UserKeepsAlone ==
  ASSUME Types, Alone, ~Together, NEW u \in Users, User(u)
  PROVE  Alone'
<1>1. u \in Threads
  BY UsersAssumption
<1>2. \A d \in Users \ {u} : pc'[d] = pc[d]
  <2>1. \E label : pc' = [pc EXCEPT ![u] = label]
    BY DEF User, Goto, Join, AddLock, AddLinks, AddBack, AddHead,
       AddUnlock, RemoveLock, Unlink, UnlinkNext, RemoveUnlock, FreeUser
  <2> QED BY <2>1, UsersAssumption DEF Types
<1>3. \A d \in Users \ {u} : lock'[d] = lock[d]
  <2>1. CASE UNCHANGED lockVars
    BY <2>1 DEF lockVars
  <2>2. CASE LockWrite(u) \/ UnLockWrite(u)
    BY <1>1, <2>2, LockCalls, UsersAssumption DEF Types
  <2> QED BY <2>1, <2>2 DEF User, Join, AddLock, AddLinks, AddBack, AddHead, AddUnlock,
         RemoveLock, Unlink, UnlinkNext, RemoveUnlock, FreeUser
<1>4. CASE Busy(u)
  BY <1>2, <1>3, <1>4 DEF Alone, Busy
<1>5. CASE MayCall(u)
  <2>1. \A d \in Users \ {u} : ~Busy(d)
    BY <1>1, <1>5, UsersAssumption DEF MayCall, Busy
  <2> QED BY <1>2, <1>3, <2>1 DEF Alone, Busy
<1>6. CASE ~Busy(u) /\ ~MayCall(u)
  <2>1. Join(u) \/ FreeUser(u)
    BY <1>6 DEF Busy, Outside, User, AddLock, AddLinks, AddBack, AddHead,
         AddUnlock, RemoveLock, Unlink, UnlinkNext, RemoveUnlock
  <2>2. ~Busy(u)'
    BY <1>1, <1>6, <2>1 DEF Types, Busy, Outside, Join, FreeUser, Goto, lockVars
  <2> QED BY <1>2, <1>3, <2>2 DEF Alone, Busy
<1> QED BY <1>4, <1>5, <1>6

LEMMA OthersOutside ==
  ASSUME Types, Alone, NEW u \in Users, pc[u] \notin Outside
  PROVE  \A d \in Users \ {u} : pc[d] \in Outside
  BY DEF Alone, Busy

-----------------------------------------------------------------------------
(* The list.                                                               *)

\* The labels of a user that stand for the same state of the list.
SamePhase(from, to) ==
  \/ from \in {"new", "joined", "refused", "add", "refuse"}
     /\ to \in {"joined", "refused", "add", "refuse", "left"}
  \/ from \in {"added", "in"} /\ to \in {"in", "unlink"}
  \/ from \in {"removed", "left"} /\ to \in {"left", "gone"}

\* The steps of a user that leave the list alone.
LEMMA LabelKeepsList ==
  ASSUME Types, NEW n \in Nat, NEW order, ListInv(order, n),
         NEW u \in Users, NEW label, pc' = [pc EXCEPT ![u] = label],
         SamePhase(pc[u], label), UNCHANGED listVars
  PROVE  ListInv(order, n)' /\ Listed' = Listed /\ Counted' = Counted
<1>1. \A d \in Users : pc'[d] = IF d = u THEN label ELSE pc[d]
  BY UsersAssumption DEF Types
<1>2. UNCHANGED <<users, next, prev>>
  BY DEF listVars
<1>3. Listed' = Listed /\ Counted' = Counted
  BY <1>1 DEF Listed, Counted, SamePhase
<1>4. Places(order, n)'
  BY <1>1 DEF ListInv, Places, SamePhase
<1>5. Forward(order)'
  BY <1>2, <1>3 DEF ListInv, Forward, Place
<1>6. Changing'
  BY <1>1, <1>2, <1>3 DEF ListInv, Changing, HalfDone, SamePhase
<1>7. \A w \in Listed : Back(w)' = Back(w)
  BY <1>1, <1>2 DEF Back, Listed, SamePhase, Types
<1>8. Backward'
  BY <1>2, <1>3, <1>7 DEF ListInv, Backward
<1> QED BY <1>3, <1>4, <1>5, <1>6, <1>8 DEF ListInv

\* No two users that are listed are followed by the same one.
LEMMA OneBefore ==
  ASSUME NEW n \in Nat, NEW order, ListInv(order, n), Types,
         NEW v \in Listed, NEW w \in Listed, next[v] = next[w], next[v] # NoUser
  PROVE  v = w
<1>1. v \in Users /\ w \in Users /\ order[v] > 0 /\ order[w] > 0
      /\ order[v] \in Nat /\ order[w] \in Nat
  BY DEF Listed, ListInv, Places
<1>2. next[v] \in Users /\ order[next[v]] \in Nat
  BY <1>1 DEF Types, ListInv, Places
<1>3. order[next[v]] < order[v] /\ order[next[v]] < order[w]
  BY <1>1 DEF ListInv, Forward, Place
<1>4. ~ (order[v] < order[w]) /\ ~ (order[w] < order[v])
  BY <1>1, <1>2, <1>3 DEF ListInv, Forward, Place
<1> QED
  BY <1>1, <1>4 DEF ListInv, Places

\* The head follows nobody who is listed.
LEMMA NoneBefore ==
  ASSUME NEW n \in Nat, NEW order, ListInv(order, n), Types,
         NEW v \in Listed, next[v] # NoUser
  PROVE  next[v] # users
<1>1. v \in Users /\ order[v] > 0 /\ order[v] \in Nat
  BY DEF Listed, ListInv, Places
<1>2. next[v] \in Users /\ order[next[v]] \in Nat /\ order[next[v]] < order[v]
  BY <1>1 DEF Types, ListInv, Places, Forward, Place
<1>3. order[v] <= Place(order, users)
  BY DEF ListInv, Forward
<1> QED
  BY <1>1, <1>2, <1>3 DEF Place

LEMMA AddLinksKeepsList ==
  ASSUME Types, Alone, NEW n \in Nat, NEW order, ListInv(order, n),
         NEW u \in Users, AddLinks(u)
  PROVE  ListInv(order, n)' /\ Listed' = Listed /\ Counted' = Counted
<1>1. /\ pc[u] = "add" /\ \A d \in Users : pc'[d] = IF d = u THEN "addBack" ELSE pc[d]
      /\ users' = users
      /\ \A d \in Users : prev'[d] = IF d = u THEN NoUser ELSE prev[d]
      /\ \A d \in Users : next'[d] = IF d = u THEN users ELSE next[d]
  BY UsersAssumption DEF AddLinks, Goto, Types
<1>2. \A d \in Users \ {u} : pc[d] \in Outside
  BY <1>1, OthersOutside DEF Outside
<1>3. Listed' = Listed /\ Counted' = Counted /\ u \notin Listed /\ u \notin Counted
  BY <1>1 DEF Listed, Counted
<1>4. order[u] = 0
  BY <1>1 DEF ListInv, Places
<1>5. Places(order, n)'
  BY <1>1 DEF ListInv, Places
<1>6. Forward(order)'
  <2>1. \A d \in Users : order[d] > 0 => next'[d] = next[d]
    BY <1>1, <1>4
  <2>2. \A d \in Counted : next'[d] = next[d]
    BY <1>1, <1>3 DEF Counted
  <2> QED BY <1>1, <1>3, <2>1, <2>2 DEF ListInv, Forward, Place
<1>7. Changing'
  BY <1>1, <1>2 DEF Changing, HalfDone, Outside
<1>8. \A w \in Listed : prev'[w] = prev[w] /\ prev[w] # u /\ Back(w)' = Back(w)
  <2> TAKE w \in Listed
  <2>1. w \in Users /\ w # u /\ prev'[w] = prev[w]
    BY <1>1, <1>3 DEF Listed
  <2>2. prev[w] # u
    BY <1>1, <1>3, <2>1, UsersAssumption DEF ListInv, Backward, Back
  <2> QED BY <1>1, <2>1, <2>2 DEF Back, Types
<1>9. Backward'
  BY <1>1, <1>3, <1>8 DEF ListInv, Backward, Listed
<1> QED BY <1>3, <1>5, <1>6, <1>7, <1>9 DEF ListInv

LEMMA AddBackKeepsList ==
  ASSUME Types, Alone, NEW n \in Nat, NEW order, ListInv(order, n),
         NEW u \in Users, AddBack(u)
  PROVE  ListInv(order, n)' /\ Listed' = Listed /\ Counted' = Counted
<1>1. /\ pc[u] = "addBack" /\ \A d \in Users : pc'[d] = IF d = u THEN "addHead" ELSE pc[d]
      /\ UNCHANGED <<users, next>>
      /\ \A d \in Users : prev'[d] = IF d = users THEN u ELSE prev[d]
  BY UsersAssumption DEF AddBack, Goto, Types
<1>2. \A d \in Users \ {u} : pc[d] \in Outside
  BY <1>1, OthersOutside DEF Outside
<1>3. Listed' = Listed /\ Counted' = Counted /\ u \notin Listed
  BY <1>1 DEF Listed, Counted
<1>4. next[u] = users /\ prev[u] = NoUser /\ users # u
  BY <1>1, <1>3, UsersAssumption DEF ListInv, Changing, HalfDone, Forward
<1>5. Places(order, n)'
  BY <1>1 DEF ListInv, Places
<1>6. Forward(order)'
  BY <1>1, <1>3 DEF ListInv, Forward, Place
<1>7. Changing'
  <2>1. HalfDone(u)'
    BY <1>1, <1>4, UsersAssumption DEF Types, HalfDone
  <2>2. ASSUME NEW d \in Users \ {u} PROVE HalfDone(d)'
    BY <1>1, <1>2, <2>2 DEF HalfDone, Outside
  <2> QED BY <2>1, <2>2 DEF Changing
<1>8. ASSUME NEW w \in Listed PROVE Back(w)' = Back(w)
  <2>1. w \in Users /\ w # u
    BY <1>3 DEF Listed
  <2>2. CASE w = users
    <3>1. Back(w)' = NoUser
      BY <1>1, <2>1, <2>2 DEF Back
    <3>2. Back(w) = NoUser
      <4>1. SUFFICES ASSUME Back(w) # NoUser PROVE FALSE
        OBVIOUS
      <4>2. Back(w) \in Listed /\ next[Back(w)] = w
        BY <4>1 DEF ListInv, Backward
      <4> QED
        BY <2>1, <2>2, <4>2, NoneBefore, UsersAssumption
    <3> QED BY <3>1, <3>2
  <2>3. CASE w # users
    <3>1. prev'[w] = prev[w]
      BY <1>1, <2>1, <2>3
    <3>2. prev[w] # u
      BY <1>1, <1>3, <2>1, UsersAssumption DEF ListInv, Backward, Back
    <3>3. CASE prev[w] = NoUser
      BY <3>1, <3>3 DEF Back
    <3>4. CASE prev[w] # NoUser
      <4>1. prev[w] \in Users \ {u}
        BY <2>1, <3>2, <3>4 DEF Types
      <4>2. pc'[prev[w]] = pc[prev[w]] /\ pc[prev[w]] \in Outside
        BY <1>1, <1>2, <4>1
      <4> QED
        BY <3>1, <3>4, <4>2 DEF Back, Outside
    <3> QED BY <3>3, <3>4
  <2> QED BY <2>2, <2>3
<1>9. Backward'
  BY <1>1, <1>3, <1>8 DEF ListInv, Backward
<1> QED BY <1>3, <1>5, <1>6, <1>7, <1>9 DEF ListInv

\* A user that is added gets the place after all others.
LEMMA AddHeadKeepsList ==
  ASSUME Types, Alone, NEW n \in Nat, NEW order, ListInv(order, n),
         NEW u \in Users, AddHead(u),
         NEW later, later = [order EXCEPT ![u] = n + 1]
  PROVE  /\ ListInv(later, n + 1)'
         /\ Counted' = Counted \union {u} /\ u \notin Counted /\ order[u] = 0
<1>1. /\ pc[u] = "addHead" /\ \A d \in Users : pc'[d] = IF d = u THEN "added" ELSE pc[d]
      /\ users' = u /\ UNCHANGED <<next, prev>>
  BY UsersAssumption DEF AddHead, Goto, Types
<1>2. \A d \in Users \ {u} : pc[d] \in Outside
  BY <1>1, OthersOutside DEF Outside
<1>3. /\ Listed' = Listed \union {u} /\ Counted' = Counted \union {u}
      /\ u \notin Listed /\ u \notin Counted
  BY <1>1 DEF Listed, Counted
<1>4. /\ next[u] = users /\ prev[u] = NoUser /\ users # u
      /\ (users # NoUser => prev[users] = u)
  BY <1>1, <1>3, UsersAssumption DEF ListInv, Changing, HalfDone, Forward
<1>5. /\ order[u] = 0 /\ order \in [Users -> 0 .. n]
      /\ \A d \in Users : later[d] = IF d = u THEN n + 1 ELSE order[d]
  BY <1>1 DEF ListInv, Places
<1>6. Places(later, n + 1)'
  <2>1. later \in [Users -> 0 .. n + 1]
    BY <1>5
  <2>2. \A d, w \in Users : later[d] = later[w] /\ later[d] > 0 => d = w
    BY <1>5 DEF ListInv, Places
  <2> QED BY <1>1, <1>5, <2>1, <2>2 DEF ListInv, Places
<1>7. Forward(later)'
  <2>1. \A w \in Listed \union {u} : w \in Users /\ later[w] <= n + 1
    BY <1>5 DEF Listed
  <2>2. \A w \in Listed : w \in Users /\ w # u /\ later[w] = order[w] /\ order[w] \in 0 .. n
    BY <1>3, <1>5 DEF Listed
  <2>3. \A d \in Users \ {u} : order[d] > 0 => next[d] # u
    BY <1>5, UsersAssumption DEF ListInv, Forward
  <2>4. \A d \in Users \ {u} : later[d] > 0 =>
          /\ next[d] # NoUser => later[next[d]] > 0
          /\ Place(later, next[d]) < later[d]
          /\ \A w \in Listed \union {u} : later[w] < later[d] => later[w] <= Place(later, next[d])
    <3> TAKE d \in Users \ {u}
    <3> HAVE later[d] > 0
    <3>1. order[d] > 0 /\ later[d] = order[d] /\ order[d] \in 0 .. n
      BY <1>5
    <3>2. next[d] \in (Users \ {u}) \union {NoUser}
      BY <2>3, <3>1 DEF Types
    <3>3. Place(later, next[d]) = Place(order, next[d])
      BY <1>5, <3>2, UsersAssumption DEF Place
    <3>4. ~ (later[u] < later[d])
      BY <1>5, <3>1
    <3>5. next[d] # NoUser => later[next[d]] > 0
      BY <1>5, <3>1, <3>2 DEF ListInv, Forward
    <3>6. Place(order, next[d]) < order[d]
          /\ \A w \in Listed : order[w] < order[d] => order[w] <= Place(order, next[d])
      BY <3>1 DEF ListInv, Forward
    <3>7. \A w \in Listed : later[w] < later[d] => later[w] <= Place(later, next[d])
      BY <2>2, <3>1, <3>3, <3>6
    <3> QED
      BY <3>1, <3>3, <3>4, <3>5, <3>6, <3>7
  <2>5. /\ next[u] # NoUser => later[next[u]] > 0
        /\ Place(later, next[u]) < later[u]
        /\ \A w \in Listed \union {u} : later[w] < later[u] => later[w] <= Place(later, next[u])
    <3>1. users \in Listed \union {NoUser} /\ \A w \in Listed : order[w] <= Place(order, users)
      BY DEF ListInv, Forward
    <3>2. users # NoUser => order[users] > 0
      BY <3>1 DEF ListInv, Places, Listed
    <3>3. Place(later, users) = Place(order, users) /\ Place(order, users) \in 0 .. n
      BY <2>2, <3>1, UsersAssumption DEF Place
    <3>4. users # NoUser => later[users] > 0
      BY <2>2, <3>1, <3>2
    <3>5. \A w \in Listed : later[w] <= Place(later, users)
      BY <2>2, <3>1, <3>3
    <3>6. later[u] = n + 1
      BY <1>5
    <3>7. Place(later, users) < later[u]
      BY <3>3, <3>6
    <3>8. ~ (later[u] < later[u])
      BY <3>6
    <3> QED
      BY <1>4, <3>4, <3>5, <3>7, <3>8
  <2>6. \A d \in Counted \union {u} : next[d] \in Listed \union {u, NoUser}
    BY <1>4 DEF ListInv, Forward
  <2>7. \A w \in Listed \union {u} : later[w] <= Place(later, u)
    BY <1>5, <2>1, UsersAssumption DEF Place
  <2>8. u \in Listed \union {u} \union {NoUser}
    OBVIOUS
  <2> QED
    BY <1>1, <1>3, <2>4, <2>5, <2>6, <2>7, <2>8 DEF Forward, Place
<1>8. Changing'
  BY <1>1, <1>2 DEF Changing, HalfDone, Outside
<1>9. \A w \in Listed : /\ w # users => Back(w)' = Back(w) /\ Back(w) # NoUser
                        /\ w = users => Back(w)' = u
  <2> TAKE w \in Listed
  <2>1. w \in Users /\ w # u
    BY <1>3 DEF Listed
  <2>2. CASE w = users
    BY <1>1, <1>4, <2>1, <2>2, UsersAssumption DEF Back
  <2>3. CASE w # users
    <3>1. Back(w) # NoUser
      BY <2>3 DEF ListInv, Backward
    <3>2. prev[w] \in Users \ {u}
      BY <1>1, <2>1, <3>1 DEF Back, Types
    <3>3. pc'[prev[w]] = pc[prev[w]] /\ pc[prev[w]] \in Outside
      BY <1>1, <1>2, <3>2
    <3> QED
      BY <1>1, <2>3, <3>1, <3>3 DEF Back, Outside
  <2> QED BY <2>2, <2>3
<1>10. Backward'
  <2>1. Back(u)' = NoUser
    BY <1>1, <1>4 DEF Back
  <2> QED
    BY <1>1, <1>3, <1>4, <1>9, <2>1, UsersAssumption DEF ListInv, Backward
<1> QED BY <1>3, <1>5, <1>6, <1>7, <1>8, <1>10 DEF ListInv

LEMMA UnlinkKeepsList ==
  ASSUME Types, Alone, NEW n \in Nat, NEW order, ListInv(order, n),
         NEW u \in Users, Unlink(u)
  PROVE  /\ ListInv(order, n)' /\ Counted' = Counted
         /\ \A d \in Users : d \in Counted \/ next'[d] = next[d]
<1> DEFINE p == prev[u]
           after == next[u]
<1>1. /\ pc[u] = "unlink" /\ \A d \in Users : pc'[d] = IF d = u THEN "unlinkNext" ELSE pc[d]
      /\ prev' = prev
      /\ p \in Users \union {NoUser} /\ after \in Users \union {NoUser}
  BY UsersAssumption DEF Unlink, Goto, Types
<1>2. \A d \in Users \ {u} : pc[d] \in Outside
  BY <1>1, OthersOutside DEF Outside
<1>3. Listed' = Listed \ {u} /\ Counted' = Counted /\ u \in Listed /\ u \in Counted
  BY <1>1 DEF Listed, Counted
<1>4. \A w \in Listed : Back(w) = prev[w]
  <2> TAKE w \in Listed
  <2>1. w \in Users /\ prev[w] \in Users \union {NoUser}
    BY DEF Listed, Types
  <2> QED BY <1>1, <1>2, <2>1 DEF Back, Outside
<1>5. /\ p = NoUser => users = u /\ users' = after /\ next' = next
      /\ p # NoUser => /\ p \in Listed /\ next[p] = u /\ p # u /\ users # u
                       /\ users' = users
                       /\ \A d \in Users : next'[d] = IF d = p THEN after ELSE next[d]
  <2>1. CASE p = NoUser
    BY <1>3, <1>4, <2>1 DEF ListInv, Backward, Unlink
  <2>2. CASE p # NoUser
    <3>1. p \in Listed /\ next[p] = u
      BY <1>3, <1>4, <2>2 DEF ListInv, Backward
    <3>2. users # u
      BY <3>1, NoneBefore, UsersAssumption
    <3>3. p # u
      <4>1. order[p] > 0 /\ order[p] \in Nat /\ p \in Users
        BY <3>1 DEF ListInv, Places, Listed
      <4>2. Place(order, next[p]) < order[p]
        BY <4>1 DEF ListInv, Forward
      <4> QED BY <3>1, <4>1, <4>2, UsersAssumption DEF Place
    <3> QED
      BY <1>1, <2>2, <3>1, <3>2, <3>3 DEF Unlink, Types
  <2> QED BY <2>1, <2>2
<1> HIDE DEF p, after
<1>6. Places(order, n)'
  BY <1>1 DEF ListInv, Places
<1>7. /\ order \in [Users -> 0 .. n] /\ order[u] > 0
      /\ after # NoUser => order[after] > 0 /\ after \in Listed
      /\ Place(order, after) < order[u] /\ Place(order, after) \in Nat
      /\ \A w \in Listed \ {u} : order[w] <= order[u] => order[w] <= Place(order, after)
  <2>1. order \in [Users -> 0 .. n] /\ order[u] > 0
    BY <1>3 DEF ListInv, Places, Listed
  <2>2. /\ after # NoUser => order[after] > 0 /\ after \in Listed
        /\ Place(order, after) < order[u]
        /\ \A w \in Listed : order[w] < order[u] => order[w] <= Place(order, after)
    BY <1>1, <1>3, <2>1 DEF ListInv, Forward, after
  <2>3. \A w \in Listed \ {u} : order[w] <= order[u] => order[w] < order[u]
    BY <2>1 DEF ListInv, Places, Listed
  <2>4. Place(order, after) \in Nat
    BY <1>1, <2>1 DEF Place
  <2> QED BY <2>1, <2>2, <2>3, <2>4
<1>8. Forward(order)'
  <2>1. users' \in Listed' \union {NoUser}
    <3>1. after # u
      BY <1>7, UsersAssumption DEF Place
    <3> QED BY <1>3, <1>5, <1>7, <3>1 DEF ListInv, Forward
  <2>2. \A w \in Listed' : order[w] <= Place(order, users')
    <3>1. CASE p = NoUser
      <4>1. \A w \in Listed : order[w] <= order[u]
        BY <1>5, <3>1, UsersAssumption DEF ListInv, Forward, Place
      <4> QED BY <1>3, <1>5, <1>7, <3>1, <4>1
    <3>2. CASE p # NoUser
      BY <1>3, <1>5, <3>2 DEF ListInv, Forward
    <3> QED BY <3>1, <3>2
  <2>3. ASSUME NEW d \in Users, order[d] > 0 PROVE
          /\ next'[d] # NoUser => order[next'[d]] > 0
          /\ Place(order, next'[d]) < order[d]
          /\ \A w \in Listed' : order[w] < order[d] => order[w] <= Place(order, next'[d])
    <3>1. CASE p # NoUser /\ d = p
      <4>1. next'[d] = after /\ next[d] = u
        BY <1>5, <3>1
      <4>2. order[u] < order[d]
            /\ \A w \in Listed : order[w] < order[d] => order[w] <= order[u]
        BY <2>3, <4>1, UsersAssumption DEF ListInv, Forward, Place
      <4>3. Place(order, after) < order[d]
        BY <1>7, <2>3, <4>2
      <4> QED BY <1>3, <1>7, <4>1, <4>2, <4>3
    <3>2. CASE ~ (p # NoUser /\ d = p)
      <4>1. next'[d] = next[d]
        BY <1>5, <3>2
      <4> QED BY <1>3, <2>3, <4>1 DEF ListInv, Forward
    <3> QED BY <3>1, <3>2
  <2>4. ASSUME NEW d \in Counted' PROVE next'[d] \in Listed' \union {NoUser}
    <3>1. d \in Counted /\ d \in Users /\ next[d] \in Listed \union {NoUser}
      BY <1>3, <2>4 DEF ListInv, Forward, Counted
    <3>2. CASE p # NoUser /\ d = p
      <4>1. after # u
        BY <1>7, UsersAssumption DEF Place
      <4> QED BY <1>3, <1>5, <1>7, <3>1, <3>2, <4>1
    <3>3. CASE ~ (p # NoUser /\ d = p)
      <4>1. next'[d] = next[d]
        BY <1>5, <3>1, <3>3
      <4>2. next[d] # u
        <5>1. CASE d \in Listed
          <6>1. p = NoUser => next[d] # u
            BY <1>5, <5>1, NoneBefore, UsersAssumption
          <6>2. p # NoUser => next[d] # u
            BY <1>5, <3>3, <5>1, OneBefore, UsersAssumption
          <6> QED BY <6>1, <6>2
        <5>2. CASE d \notin Listed
          BY <1>1, <1>2, <3>1, <5>2 DEF Counted, Listed, Outside
        <5> QED BY <5>1, <5>2
      <4> QED BY <1>3, <3>1, <4>1, <4>2
    <3> QED BY <3>2, <3>3
  <2> QED BY <2>1, <2>2, <2>3, <2>4 DEF Forward, Place
<1>9. after # NoUser => prev[after] = u
  <2>1. SUFFICES ASSUME after # NoUser PROVE prev[after] = u
    OBVIOUS
  <2>2. after \in Listed /\ after # users
    BY <1>3, <1>7, <2>1, NoneBefore DEF after
  <2>3. prev[after] \in Listed /\ next[prev[after]] = after
    BY <1>4, <2>2 DEF ListInv, Backward
  <2> QED
    BY <1>3, <2>1, <2>3, OneBefore DEF after
<1>10. \A w \in Listed : prev[w] = u => w = after
  BY <1>1, <1>4, UsersAssumption DEF ListInv, Backward, after
<1>11. next'[u] = after
  BY <1>5 DEF after
<1>12. Changing'
  <2>1. HalfDone(u)'
    BY <1>1, <1>3, <1>9, <1>10, <1>11 DEF HalfDone
  <2>2. ASSUME NEW d \in Users \ {u} PROVE HalfDone(d)'
    BY <1>1, <1>2, <2>2 DEF HalfDone, Outside
  <2> QED BY <2>1, <2>2 DEF Changing
<1>13. ASSUME NEW w \in Listed'
       PROVE  IF Back(w)' = NoUser THEN users' = w
              ELSE Back(w)' \in Listed' /\ next'[Back(w)'] = w
  <2>1. w \in Listed /\ w # u /\ w \in Users
    BY <1>3, <1>13 DEF Listed
  <2>2. CASE prev[w] = u
    <3>1. w = after
      BY <1>10, <2>1, <2>2
    <3>2. Back(w)' = p
      BY <1>1, <2>2, UsersAssumption DEF Back, p
    <3>3. CASE p = NoUser
      BY <1>5, <3>1, <3>2, <3>3
    <3>4. CASE p # NoUser
      <4>1. p \in Listed' /\ p \in Users
        BY <1>3, <1>5, <3>4 DEF Listed
      <4> QED BY <1>5, <3>1, <3>2, <3>4, <4>1
    <3> QED BY <3>3, <3>4
  <2>3. CASE prev[w] # u
    <3>1. prev[w] \in (Users \ {u}) \union {NoUser}
      BY <2>1, <2>3 DEF Types
    <3>2. Back(w)' = prev[w]
      BY <1>1, <1>2, <3>1 DEF Back, Outside
    <3>3. IF prev[w] = NoUser THEN users = w
          ELSE prev[w] \in Listed /\ next[prev[w]] = w
      BY <1>4, <2>1 DEF ListInv, Backward
    <3>4. CASE prev[w] = NoUser
      BY <1>5, <2>1, <3>2, <3>3, <3>4
    <3>5. CASE prev[w] # NoUser
      <4>1. p # NoUser => prev[w] # p
        BY <1>5, <2>1, <3>3, <3>5
      <4>2. next'[prev[w]] = w
        BY <1>5, <3>1, <3>3, <3>5, <4>1
      <4> QED BY <1>3, <2>3, <3>2, <3>3, <3>5, <4>2
    <3> QED BY <3>4, <3>5
  <2> QED BY <2>2, <2>3
<1>14. Backward'
  BY <1>13 DEF Backward
<1>15. \A d \in Users : d \in Counted \/ next'[d] = next[d]
  BY <1>5 DEF Listed, Counted
<1> QED BY <1>3, <1>6, <1>8, <1>12, <1>14, <1>15 DEF ListInv

LEMMA UnlinkNextKeepsList ==
  ASSUME Types, Alone, NEW n \in Nat, NEW order, ListInv(order, n),
         NEW u \in Users, UnlinkNext(u)
  PROVE  ListInv(order, n)' /\ Counted' = Counted \ {u} /\ u \in Counted
<1>1. /\ pc[u] = "unlinkNext" /\ \A d \in Users : pc'[d] = IF d = u THEN "removed" ELSE pc[d]
      /\ UNCHANGED <<users, next>>
      /\ \A d \in Users : prev'[d] = IF d = next[u] THEN prev[u] ELSE prev[d]
  BY UsersAssumption DEF UnlinkNext, Goto, Types
<1>2. \A d \in Users \ {u} : pc[d] \in Outside
  BY <1>1, OthersOutside DEF Outside
<1>3. /\ Listed' = Listed /\ Counted' = Counted \ {u}
      /\ u \notin Listed /\ u \in Counted
  BY <1>1 DEF Listed, Counted
<1>4. Places(order, n)'
  BY <1>1 DEF ListInv, Places
<1>5. Forward(order)'
  BY <1>1, <1>3 DEF ListInv, Forward, Place
<1>6. Changing'
  BY <1>1, <1>2 DEF Changing, HalfDone, Outside
<1>7. /\ next[u] # NoUser => prev[next[u]] = u
      /\ \A w \in Listed : prev[w] = u => w = next[u]
  BY <1>1 DEF ListInv, Changing, HalfDone
<1>8. ASSUME NEW w \in Listed PROVE Back(w)' = Back(w)
  <2>1. w \in Users /\ w # u /\ prev[u] \in Users \union {NoUser}
    BY <1>3 DEF Listed, Types
  <2>2. CASE w = next[u]
    <3>1. prev[w] = u /\ Back(w) = prev[u] /\ prev'[w] = prev[u]
      BY <1>1, <1>7, <2>1, <2>2, UsersAssumption DEF Back
    <3>2. prev[u] # u
      BY <1>3, <2>1, <3>1, UsersAssumption DEF ListInv, Backward
    <3> QED BY <1>1, <1>2, <2>1, <3>1, <3>2 DEF Back, Outside
  <2>3. CASE w # next[u]
    <3>1. prev'[w] = prev[w] /\ prev[w] \in (Users \ {u}) \union {NoUser}
      BY <1>1, <1>7, <2>1, <2>3 DEF Types
    <3> QED BY <1>1, <1>2, <3>1 DEF Back, Outside
  <2> QED BY <2>2, <2>3
<1>9. Backward'
  BY <1>1, <1>3, <1>8 DEF ListInv, Backward
<1> QED BY <1>3, <1>4, <1>5, <1>6, <1>9 DEF ListInv

\* The steps of others.
LEMMA OthersKeepList ==
  ASSUME NEW n \in Nat, NEW order, ListInv(order, n), Types,
         UNCHANGED listVars, \A u \in Users : pc'[u] = pc[u]
  PROVE  ListInv(order, n)' /\ Listed' = Listed /\ Counted' = Counted
<1>1. Listed' = Listed /\ Counted' = Counted
  BY DEF Listed, Counted
<1>2. UNCHANGED <<users, next, prev>>
  BY DEF listVars
<1>3. Places(order, n)'
  BY DEF ListInv, Places
<1>4. Forward(order)'
  BY <1>1, <1>2 DEF ListInv, Forward, Place
<1>5. Changing'
  BY <1>1, <1>2 DEF ListInv, Changing, HalfDone
<1>6. \A w \in Listed : Back(w)' = Back(w)
  BY <1>2 DEF Back, Listed, Types
<1>7. Backward'
  BY <1>1, <1>2, <1>6 DEF ListInv, Backward
<1> QED BY <1>1, <1>3, <1>4, <1>5, <1>7 DEF ListInv

-----------------------------------------------------------------------------
(* The iterations.                                                         *)

LEMMA HistoryIs ==
  ASSUME Types, Recorded, NEW i \in Iterators
  PROVE  /\ pc'[i] = "idle" => present'[i] = {} /\ steady'[i] = {}
         /\ pc'[i] # "idle" => present'[i] = present[i] \union Counted'
         /\ pc'[i] # "idle" /\ pc[i] # "idle" => steady'[i] \subseteq steady[i]
         /\ \A u \in steady'[i] : pc'[u] = "in"
  BY DEF Types, Recorded, Counted

\* The links of those that were listed lead to such users.
LEMMA PresentLinked ==
  ASSUME Types, Recorded, NEW i \in Iterators,
         NEW n \in Nat, NEW order, IterAt(order, i),
         NEW m \in Nat, NEW later, ListInv(later, m)',
         \A u \in Users : order[u] > 0 =>
           later[u] = order[u] /\ (u \in Counted' \/ next'[u] = next[u])
  PROVE  \A u \in present'[i] :
           later[u] > 0 /\ next'[u] \in present'[i] \union {NoUser}
<1> SUFFICES ASSUME NEW u \in present'[i]
             PROVE  later[u] > 0 /\ next'[u] \in present'[i] \union {NoUser}
  OBVIOUS
<1>1. pc'[i] # "idle" /\ present'[i] = present[i] \union Counted'
  BY HistoryIs
<1>2. CASE u \in Counted'
  <2>1. later[u] > 0 /\ next'[u] \in Listed' \union {NoUser}
    BY <1>2 DEF ListInv, Places, Forward, Counted
  <2>2. Listed' \subseteq Counted'
    BY DEF Listed, Counted
  <2> QED BY <1>1, <2>1, <2>2
<1>3. CASE u \notin Counted'
  <2>1. u \in present[i] /\ u \in Users
    BY <1>1, <1>3 DEF Types
  <2> QED BY <1>1, <1>3, <2>1 DEF IterAt
<1> QED BY <1>2, <1>3

\* The iterations that do not take the step.
LEMMA IterationStays ==
  ASSUME Types, Recorded, NEW i \in Iterators,
         NEW n \in Nat, NEW order, ListInv(order, n), IterAt(order, i),
         NEW m \in Nat, NEW later, ListInv(later, m)',
         \A u \in Users : order[u] > 0 =>
           later[u] = order[u] /\ (u \in Counted' \/ next'[u] = next[u]),
         pc'[i] = pc[i], asked'[i] = asked[i], current'[i] = current[i],
         called'[i] = called[i]
  PROVE  IterAt(later, i)'
<1>1. \A u \in present'[i] : later[u] > 0 /\ next'[u] \in present'[i] \union {NoUser}
  BY PresentLinked
<1>2. ASSUME pc[i] \in {"visit", "advance"}
      PROVE  /\ current'[i] \in present'[i] \union {NoUser}
             /\ called'[i] \subseteq (Wanted(i) \intersect present[i])'
             /\ \A u \in (steady[i] \intersect Wanted(i))' :
                  \/ u \in called'[i] \/ later[u] < Place(later, current'[i])
                  \/ pc'[i] = "visit" /\ u = current'[i]
  <2>1. /\ present'[i] = present[i] \union Counted' /\ steady'[i] \subseteq steady[i]
        /\ Wanted(i)' = Wanted(i)
    BY <1>2, HistoryIs DEF Wanted
  <2>2. \A u \in steady[i] : u \in Users /\ order[u] > 0 /\ later[u] = order[u]
    <3>1. \A u \in steady[i] : u \in Users /\ pc[u] = "in"
      BY DEF IterAt, Types
    <3> QED BY <3>1 DEF ListInv, Places
  <2>3. Place(later, current[i]) = Place(order, current[i])
    <3>1. current[i] # NoUser => current[i] \in Users /\ order[current[i]] > 0
      BY <1>2 DEF IterAt, Types
    <3> QED BY <3>1 DEF Place
  <2> QED
    BY <1>2, <2>1, <2>2, <2>3 DEF IterAt
<1>3. pc'[i] # "idle" => Counted' \subseteq present'[i]
  BY HistoryIs
<1>4. pc'[i] \in {"begin", "callOwner"} => called'[i] = {}
  BY DEF IterAt
<1>5. /\ pc'[i] = "idle" => present'[i] = {} /\ steady'[i] = {}
      /\ \A u \in steady'[i] : pc'[u] = "in"
  BY HistoryIs
<1> QED BY <1>1, <1>2, <1>3, <1>4, <1>5 DEF IterAt, Wanted

\* The step of an iteration.
LEMMA IterationGoesOn ==
  ASSUME Types, Types', Recorded, OwnerInv, NEW i \in Iterators,
         CallUsers(i) \/ Iterating(i),
         NEW n \in Nat, NEW order, ListInv(order, n), ListInv(order, n)',
         IterAt(order, i), UNCHANGED listVars, Counted' = Counted
  PROVE  IterAt(order, i)'
<1> USE UsersAssumption
<1>1. \A u \in present'[i] : order[u] > 0 /\ next'[u] \in present'[i] \union {NoUser}
  BY PresentLinked DEF listVars
<1>2. /\ pc'[i] = "idle" => present'[i] = {} /\ steady'[i] = {}
      /\ pc'[i] # "idle" => Counted' \subseteq present'[i]
      /\ \A u \in steady'[i] : pc'[u] = "in"
  BY HistoryIs
<1>3. /\ \A u \in steady[i] : u \in Users /\ u # NoUser /\ order[u] > 0 /\ u \in Listed
      /\ \A u \in steady'[i] : u \in Users /\ u # NoUser /\ order[u] > 0
      /\ order \in [Users -> 0 .. n]
  <2>1. \A u \in steady[i] : u \in Users /\ pc[u] = "in"
    BY DEF IterAt, Types
  <2>2. \A u \in steady'[i] : u \in Users /\ pc'[u] = "in"
    BY <1>2 DEF Types
  <2> QED BY <2>1, <2>2 DEF ListInv, Places, Listed
<1>4. CASE CallUsers(i)
  <2>1. called'[i] = {} /\ pc'[i] \in {"begin", "callOwner"}
    BY <1>4 DEF CallUsers, Goto, Types
  <2> QED BY <1>1, <1>2, <2>1 DEF IterAt
<1>5. CASE CallOwner(i) \/ End(i)
  <2>1. pc'[i] \in {"end", "idle"}
    BY <1>5 DEF CallOwner, End, Goto, Types
  <2> QED BY <1>1, <1>2, <2>1 DEF IterAt
<1>6. CASE Begin(i)
  <2>1. /\ pc[i] = "begin" /\ pc'[i] = "visit" /\ current'[i] = users
        /\ called'[i] = {}
    BY <1>6 DEF Begin, Goto, Types, IterAt
  <2>2. users \in Listed \union {NoUser} /\ \A w \in Listed : order[w] <= Place(order, users)
    BY DEF ListInv, Forward
  <2>3. Listed \subseteq Counted /\ present'[i] = present[i] \union Counted'
    BY <2>1, HistoryIs DEF Listed, Counted
  <2>4. steady'[i] \subseteq steady[i]
    BY <2>1, HistoryIs
  <2>5. ASSUME NEW u \in steady'[i]
        PROVE  order[u] < Place(order, users) \/ u = users
    <3>1. u \in Listed /\ order[u] > 0 /\ order[u] <= Place(order, users)
      BY <1>3, <2>2, <2>4
    <3>2. users # NoUser
      BY <1>3, <3>1 DEF Place, Listed
    <3> QED BY <1>3, <2>2, <3>1, <3>2 DEF Place, ListInv, Places, Listed
  <2> QED BY <1>1, <1>2, <2>1, <2>2, <2>3, <2>5 DEF IterAt
<1>7. CASE Visit(i)
  <2>1. /\ pc[i] = "visit" /\ current'[i] = current[i] /\ asked'[i] = asked[i]
        /\ pc'[i] = IF current[i] \in {NoUser, asked[i]} THEN "end" ELSE "advance"
        /\ called'[i] = IF current[i] # NoUser /\ CallsCurrent(i)
                        THEN called[i] \union {current[i]} ELSE called[i]
    BY <1>7 DEF Visit, Goto, Types
  <2>2. CASE pc'[i] = "end"
    BY <1>1, <1>2, <2>2 DEF IterAt
  <2>3. CASE pc'[i] = "advance"
    <3>1. /\ present'[i] = present[i] \union Counted' /\ steady'[i] \subseteq steady[i]
          /\ Wanted(i)' = Wanted(i)
      BY <2>1, <2>3, HistoryIs DEF Wanted
    <3>2. current[i] # NoUser /\ current[i] \in present[i] /\ current[i] \in Users
      BY <2>1, <2>3 DEF IterAt, Types
    <3>3. CallsCurrent(i) <=> current[i] \in Wanted(i)
      BY <3>2 DEF CallsCurrent, Wanted
    <3>4. called'[i] \subseteq Wanted(i) \intersect present'[i]
      BY <2>1, <3>1, <3>2, <3>3 DEF IterAt
    <3>5. \A u \in steady'[i] \intersect Wanted(i) :
            u \in called'[i] \/ order[u] < Place(order, current[i])
      BY <2>1, <3>1, <3>2, <3>3 DEF IterAt
    <3> QED BY <1>1, <1>2, <2>1, <2>3, <3>1, <3>2, <3>4, <3>5 DEF IterAt
  <2> QED BY <2>1, <2>2, <2>3
<1>8. CASE Advance(i)
  <2>1. /\ pc[i] = "advance" /\ pc'[i] = "visit" /\ current'[i] = next[current[i]]
        /\ asked'[i] = asked[i] /\ called'[i] = called[i]
        /\ current[i] # NoUser
    BY <1>8 DEF Advance, Goto, Types
  <2>2. /\ present'[i] = present[i] \union Counted' /\ steady'[i] \subseteq steady[i]
        /\ Wanted(i)' = Wanted(i)
    BY <2>1, HistoryIs DEF Wanted
  <2>3. current[i] \in present[i] /\ current[i] \in Users
    BY <2>1 DEF IterAt, Types
  <2>4. order[current[i]] > 0 /\ next[current[i]] \in present[i] \union {NoUser}
    BY <2>3 DEF IterAt
  <2>5. ASSUME NEW u \in steady'[i] \intersect Wanted(i), u \notin called[i]
        PROVE  order[u] < Place(order, next[current[i]]) \/ u = next[current[i]]
    <3>1. order[u] < order[current[i]] /\ u \in Listed /\ order[u] > 0 /\ u \in Users
      BY <1>3, <2>1, <2>2, <2>5 DEF IterAt, Place
    <3>2. order[u] <= Place(order, next[current[i]])
      BY <2>3, <2>4, <3>1 DEF ListInv, Forward
    <3>3. next[current[i]] # NoUser /\ next[current[i]] \in Users
      BY <1>3, <2>3, <3>1, <3>2 DEF Place, Types
    <3> QED BY <1>3, <3>1, <3>2, <3>3 DEF Place, ListInv, Places
  <2>6. called'[i] \subseteq (Wanted(i) \intersect present[i])'
    BY <2>1, <2>2 DEF IterAt
  <2> QED BY <1>1, <1>2, <2>1, <2>2, <2>4, <2>5, <2>6 DEF IterAt
<1> QED BY <1>4, <1>5, <1>6, <1>7, <1>8 DEF Iterating

-----------------------------------------------------------------------------
(* The invariant.                                                          *)

\* The steps of a user between the changes of the list.
LEMMA Passing ==
  ASSUME NEW u \in Users,
         \/ Join(u) \/ AddLock(u) \/ AddUnlock(u) \/ RemoveLock(u) \/ RemoveUnlock(u)
         \/ FreeUser(u)
  PROVE  /\ \E label : pc' = [pc EXCEPT ![u] = label] /\ SamePhase(pc[u], label)
         /\ UNCHANGED listVars
  BY DEF Join, AddLock, AddUnlock, RemoveLock, RemoveUnlock, FreeUser, Goto, SamePhase

LEMMA UserKeepsList ==
  ASSUME Types, Alone, CountInv, OwnerInv, NEW u \in Users, User(u),
         NEW n \in Nat, NEW order \in [Users -> 0 .. n], ListInv(order, n)
  PROVE  /\ CountInv' /\ OwnerInv'
         /\ \E m \in Nat : \E later \in [Users -> 0 .. m] :
              /\ ListInv(later, m)'
              /\ \A d \in Users : order[d] > 0 =>
                   later[d] = order[d] /\ (d \in Counted' \/ next'[d] = next[d])
<1> DEFINE Kept(m, later) ==
      /\ ListInv(later, m)'
      /\ \A d \in Users : order[d] > 0 =>
           later[d] = order[d] /\ (d \in Counted' \/ next'[d] = next[d])
<1>1. IsFiniteSet(Counted)
  BY UsersAssumption, FS_Subset DEF Counted
<1>2. ASSUME Counted' = Counted, connectedUsers' = connectedUsers, owner' = owner
      PROVE  CountInv' /\ OwnerInv'
  BY <1>2 DEF CountInv, OwnerInv
<1>3. CASE \/ Join(u) \/ AddLock(u) \/ AddUnlock(u) \/ RemoveLock(u)
           \/ RemoveUnlock(u) \/ FreeUser(u)
  <2>1. UNCHANGED listVars /\ Counted' = Counted /\ ListInv(order, n)'
    BY <1>3, Passing, LabelKeepsList
  <2>2. Kept(n, order)
    BY <2>1 DEF listVars
  <2> QED BY <1>2, <2>1, <2>2 DEF listVars
<1>4. CASE AddLinks(u)
  <2>1. Counted' = Counted /\ ListInv(order, n)'
    BY <1>4, AddLinksKeepsList
  <2>2. connectedUsers' = connectedUsers /\ owner' = owner
        /\ order[u] = 0 /\ \A d \in Users \ {u} : next'[d] = next[d]
    BY <1>4 DEF AddLinks, ListInv, Places, Types
  <2>3. Kept(n, order)
    BY <2>1, <2>2
  <2> QED BY <1>2, <2>1, <2>2, <2>3
<1>5. CASE AddBack(u)
  <2>1. Counted' = Counted /\ ListInv(order, n)'
    BY <1>5, AddBackKeepsList
  <2>2. connectedUsers' = connectedUsers /\ owner' = owner /\ next' = next
    BY <1>5 DEF AddBack
  <2>3. Kept(n, order)
    BY <2>1, <2>2
  <2> QED BY <1>2, <2>1, <2>2, <2>3
<1>6. CASE AddHead(u)
  <2> DEFINE later == [order EXCEPT ![u] = n + 1]
  <2>1. /\ ListInv(later, n + 1)' /\ Counted' = Counted \union {u}
        /\ u \notin Counted /\ order[u] = 0
    BY <1>6, AddHeadKeepsList
  <2>2. connectedUsers' = connectedUsers + 1 /\ next' = next
        /\ owner' = IF u \in Owners THEN u ELSE owner
    BY <1>6 DEF AddHead
  <2>3. later \in [Users -> 0 .. n + 1] /\ \A d \in Users \ {u} : later[d] = order[d]
    OBVIOUS
  <2>4. Kept(n + 1, later)
    BY <2>1, <2>2, <2>3
  <2>5. CountInv'
    BY <1>1, <2>1, <2>2, FS_AddElement DEF CountInv
  <2>6. OwnerInv'
    BY <2>1, <2>2 DEF OwnerInv
  <2> HIDE DEF later
  <2> QED BY <2>3, <2>4, <2>5, <2>6
<1>7. CASE Unlink(u)
  <2>1. /\ Counted' = Counted /\ ListInv(order, n)'
        /\ \A d \in Users : d \in Counted \/ next'[d] = next[d]
    BY <1>7, UnlinkKeepsList
  <2>2. connectedUsers' = connectedUsers /\ owner' = owner
    BY <1>7 DEF Unlink
  <2>3. Kept(n, order)
    BY <2>1
  <2> QED BY <1>2, <2>1, <2>2, <2>3
<1>8. CASE UnlinkNext(u)
  <2>1. Counted' = Counted \ {u} /\ u \in Counted /\ ListInv(order, n)'
    BY <1>8, UnlinkNextKeepsList
  <2>2. /\ connectedUsers' = connectedUsers - 1 /\ next' = next
        /\ owner' = IF u \in Owners THEN NoUser ELSE owner
    BY <1>8 DEF UnlinkNext, OwnerWithout
  <2>3. Kept(n, order)
    BY <2>1, <2>2
  <2>4. CountInv'
    BY <1>1, <2>1, <2>2, FS_RemoveElement DEF CountInv
  <2>5. OwnerInv'
    BY <2>1, <2>2 DEF OwnerInv
  <2> QED BY <2>3, <2>4, <2>5
<1> QED BY <1>3, <1>4, <1>5, <1>6, <1>7, <1>8 DEF User

LEMMA InitInv ==
  ASSUME Init PROVE Inv
<1> DEFINE order == [u \in Users |-> 0]
<1>1. /\ \A u \in Users : pc[u] = "new"
      /\ \A i \in Iterators : pc[i] = "idle" /\ present[i] = {} /\ steady[i] = {}
      /\ users = NoUser /\ owner = NoUser /\ connectedUsers = 0
  BY UsersAssumption DEF Init
<1>2. Listed = {} /\ Counted = {}
  BY <1>1 DEF Listed, Counted
<1>3. CountInv
  BY <1>1, <1>2, FS_EmptySet DEF CountInv
<1>4. OwnerInv
  BY <1>1, <1>2 DEF OwnerInv
<1>5. order \in [Users -> 0 .. 0] /\ \A u \in Users : order[u] = 0
  OBVIOUS
<1>6. Places(order, 0)
  BY <1>1, <1>5 DEF Places
<1>7. Forward(order) /\ Changing /\ Backward
  BY <1>1, <1>2, <1>5 DEF Forward, Changing, HalfDone, Backward
<1>8. IterInv(order)
  BY <1>1 DEF IterInv, IterAt
<1> HIDE DEF order
<1> QED BY <1>3, <1>4, <1>5, <1>6, <1>7, <1>8, InitTypes DEF Inv, ListInv

LEMMA NextKeepsInv ==
  ASSUME Inv, ~Together, [Next]_vars
  PROVE  Inv'
<1>1. Types /\ Alone /\ CountInv /\ OwnerInv
  BY DEF Inv
<1>a. PICK n \in Nat : \E order \in [Users -> 0 .. n] : ListInv(order, n) /\ IterInv(order)
  BY DEF Inv
<1>2. PICK order \in [Users -> 0 .. n] : ListInv(order, n) /\ IterInv(order)
  BY <1>a
<1>3. ASSUME NEW u \in Users, User(u), Recorded
      PROVE  Inv'
  <2>1. Types' /\ Alone'
    BY <1>1, <1>3, UserKeepsTypes, UserKeepsAlone
  <2>a. PICK m \in Nat : \E later \in [Users -> 0 .. m] :
          /\ ListInv(later, m)'
          /\ \A d \in Users : order[d] > 0 =>
               later[d] = order[d] /\ (d \in Counted' \/ next'[d] = next[d])
    BY <1>1, <1>2, <1>3, UserKeepsList
  <2>2. PICK later \in [Users -> 0 .. m] :
          /\ ListInv(later, m)'
          /\ \A d \in Users : order[d] > 0 =>
               later[d] = order[d] /\ (d \in Counted' \/ next'[d] = next[d])
    BY <2>a
  <2>3. CountInv' /\ OwnerInv'
    BY <1>1, <1>2, <1>3, UserKeepsList
  <2>4. ASSUME NEW i \in Iterators PROVE IterAt(later, i)'
    <3>1. pc'[i] = pc[i]
      <4>1. \E label : pc' = [pc EXCEPT ![u] = label]
        BY <1>3 DEF User, Goto, Join, AddLock, AddLinks, AddBack, AddHead,
           AddUnlock, RemoveLock, Unlink, UnlinkNext, RemoveUnlock, FreeUser
      <4> QED BY <1>1, <4>1, UsersAssumption DEF Types
    <3>2. asked' = asked /\ current' = current /\ called' = called
      BY <1>3 DEF iterVars, User, Join, AddLock, AddLinks, AddBack, AddHead,
         AddUnlock, RemoveLock, Unlink, UnlinkNext, RemoveUnlock, FreeUser
    <3>3. IterAt(order, i)
      BY <1>2 DEF IterInv
    <3> QED BY <1>1, <1>2, <1>3, <2>2, <3>1, <3>2, <3>3, IterationStays
  <2>5. IterInv(later)'
    BY <2>4 DEF IterInv
  <2> QED BY <2>1, <2>2, <2>3, <2>5 DEF Inv
<1>4. ASSUME UNCHANGED listVars, \A u \in Users : pc'[u] = pc[u]
      PROVE  /\ CountInv' /\ OwnerInv' /\ ListInv(order, n)'
             /\ Listed' = Listed /\ Counted' = Counted
  <2>1. ListInv(order, n)' /\ Listed' = Listed /\ Counted' = Counted
    BY <1>1, <1>2, <1>4, OthersKeepList
  <2> QED BY <1>1, <1>4, <2>1 DEF CountInv, OwnerInv, listVars
<1>5. ASSUME NEW i \in Iterators, CallUsers(i) \/ Iterating(i), Recorded
      PROVE  Inv'
  <2>1. /\ Types' /\ UNCHANGED listVars
        /\ \A d \in Users : pc'[d] = pc[d] /\ lock'[d] = lock[d]
        /\ \A d \in Iterators \ {i} :
             /\ pc'[d] = pc[d] /\ asked'[d] = asked[d]
             /\ current'[d] = current[d] /\ called'[d] = called[d]
    BY <1>1, <1>5, IteratorKeepsTypes
  <2>2. Alone'
    BY <1>1, <2>1 DEF Alone, Busy
  <2>3. /\ CountInv' /\ OwnerInv' /\ ListInv(order, n)' /\ Counted' = Counted
    BY <1>4, <2>1
  <2>4. IterAt(order, i)'
    <3>1. IterAt(order, i)
      BY <1>2 DEF IterInv
    <3> QED BY <1>1, <1>2, <1>5, <2>1, <2>3, <3>1, IterationGoesOn
  <2>5. ASSUME NEW d \in Iterators \ {i} PROVE IterAt(order, d)'
    <3>1. IterAt(order, d) /\ next' = next
      BY <1>2, <2>1 DEF IterInv, listVars
    <3> QED BY <1>1, <1>2, <1>5, <2>1, <2>3, <3>1, IterationStays
  <2>6. IterInv(order)'
    BY <2>4, <2>5 DEF IterInv
  <2> QED BY <1>2, <2>1, <2>2, <2>3, <2>6 DEF Inv
<1>6. ASSUME NEW t \in Threads, Locking(t), Recorded
      PROVE  Inv'
  <2>1. Types' /\ \A d \in Threads : lock'[d] # "free" => lock[d] # "free"
    BY <1>1, <1>6, LockingKeepsTypes
  <2>2. UNCHANGED <<pc, listVars, iterVars>>
    BY <1>6 DEF Locking
  <2>3. Alone'
    BY <1>1, <2>1, <2>2, UsersAssumption DEF Alone, Busy
  <2>4. /\ CountInv' /\ OwnerInv' /\ ListInv(order, n)' /\ Counted' = Counted
    BY <1>4, <2>2
  <2>5. ASSUME NEW i \in Iterators PROVE IterAt(order, i)'
    <3>1. /\ IterAt(order, i) /\ next' = next /\ pc'[i] = pc[i] /\ asked'[i] = asked[i]
          /\ current'[i] = current[i] /\ called'[i] = called[i]
      BY <1>2, <2>2 DEF IterInv, listVars, iterVars
    <3> QED BY <1>1, <1>2, <1>6, <2>4, <3>1, IterationStays
  <2>6. IterInv(order)'
    BY <2>5 DEF IterInv
  <2> QED BY <1>2, <2>1, <2>3, <2>4, <2>6 DEF Inv
<1>7. ASSUME UNCHANGED vars PROVE Inv'
  <2>1. /\ UNCHANGED <<lockVars, pc, listVars, iterVars, freed, fault>>
        /\ UNCHANGED <<steady, present>>
    BY <1>7 DEF vars, history
  <2>2. Types'
    BY <1>1, <2>1 DEF Types, LockTypeOK, lockVars, listVars, iterVars
  <2>3. Alone'
    BY <1>1, <2>1 DEF Alone, Busy, lockVars
  <2>4. /\ CountInv' /\ OwnerInv' /\ ListInv(order, n)' /\ Counted' = Counted
    BY <1>4, <2>1
  <2>5. IterInv(order)'
    BY <1>2, <2>1, <2>4 DEF IterInv, IterAt, Wanted, Place, listVars, iterVars
  <2> QED BY <1>2, <2>2, <2>3, <2>4, <2>5 DEF Inv
<1> QED BY <1>3, <1>5, <1>6, <1>7 DEF Next

\* The inductive invariant, as users come and leave one at a time in
\* guac_client_add_user and guac_client_remove_user.
LEMMA ListStays == ASSUME ~Together PROVE Spec => []Inv
<1>1. Init => Inv
  BY InitInv
<1>2. Inv /\ [Next]_vars => Inv'
  BY NextKeepsInv
<1> QED BY <1>1, <1>2, PTL DEF Spec

-----------------------------------------------------------------------------
(* What an iteration calls.                                                *)
\* An iteration calls its callback with whom it has to, and with nobody else, if
\* no more than one user has the flag of an owner: with a second one the client
\* forgets the first, which is connected and is not called.
THEOREM RightOnesAreCalled ==
  ASSUME ~Together, \A a, b \in Owners : a = b
  PROVE  Spec => RightOnesCalled
<1> DEFINE Called(i) ==
      pc[i] \in {"visit", "callOwner"} /\ pc'[i] = "end" =>
        LET wanted == IF pc[i] = "callOwner" THEN Owners
                      ELSE IF asked[i] = NoUser THEN Users ELSE {asked[i]}
        IN  /\ wanted \intersect steady[i] \subseteq called'[i]
            /\ called'[i] \subseteq wanted \intersect present[i]
<1>1. ASSUME Inv, [Next]_vars, NEW i \in Iterators PROVE Called(i)
  <2>1. Types /\ OwnerInv
    BY <1>1 DEF Inv
  <2>a. PICK n \in Nat : \E order \in [Users -> 0 .. n] : ListInv(order, n) /\ IterInv(order)
    BY <1>1 DEF Inv
  <2>2. PICK order \in [Users -> 0 .. n] : ListInv(order, n) /\ IterAt(order, i)
    BY <2>a DEF IterInv
  <2> SUFFICES ASSUME pc[i] \in {"visit", "callOwner"}, pc'[i] = "end" PROVE Called(i)
    OBVIOUS
  <2>3. CallOwner(i) \/ Visit(i)
    <3>1. ~ UNCHANGED vars
      BY DEF vars
    <3>2. ASSUME NEW u \in Users, User(u) PROVE FALSE
      <4>1. \E label : pc' = [pc EXCEPT ![u] = label]
        BY <3>2 DEF User, Goto, Join, AddLock, AddLinks, AddBack, AddHead,
           AddUnlock, RemoveLock, Unlink, UnlinkNext, RemoveUnlock, FreeUser
      <4> QED BY <2>1, <4>1, UsersAssumption DEF Types
    <3>3. ASSUME NEW d \in Iterators, CallUsers(d) \/ Iterating(d)
          PROVE  d = i /\ (CallOwner(i) \/ Visit(i))
      <4>1. \E label : pc' = [pc EXCEPT ![d] = label]
        BY <3>3 DEF Iterating, Goto, CallUsers, CallOwner, Begin, Visit, Advance, End
      <4>2. d = i
        BY <2>1, <4>1, UsersAssumption DEF Types
      <4> QED BY <3>3, <4>2 DEF Iterating, CallUsers, Begin, Advance, End
    <3>4. ASSUME NEW t \in Threads, Locking(t) PROVE FALSE
      BY <3>4 DEF Locking
    <3> QED BY <1>1, <3>1, <3>2, <3>3, <3>4 DEF Next
  <2>4. CASE CallOwner(i)
    <3>1. pc[i] = "callOwner" /\ called'[i] = {owner} \ {NoUser}
      BY <2>1, <2>4 DEF CallOwner, Types
    <3>2. \A u \in steady[i] : u \in Counted
      BY <2>1, <2>2 DEF IterAt, Counted, Types
    <3>3. Counted \subseteq present[i]
      BY <2>2, <3>1 DEF IterAt
    <3>4. \A u \in Owners \intersect steady[i] : u = owner /\ u # NoUser
      BY <2>1, <3>2, UsersAssumption DEF OwnerInv
    <3> QED BY <2>1, <3>1, <3>3, <3>4 DEF OwnerInv
  <2>5. CASE Visit(i)
    <3>1. /\ pc[i] = "visit" /\ current[i] \in {NoUser, asked[i]}
          /\ called'[i] = IF current[i] # NoUser /\ CallsCurrent(i)
                          THEN called[i] \union {current[i]} ELSE called[i]
      BY <2>1, <2>5, UsersAssumption DEF Visit, Goto, Types
    <3>2. /\ current[i] \in present[i] \union {NoUser}
          /\ called[i] \subseteq Wanted(i) \intersect present[i]
          /\ \A u \in steady[i] \intersect Wanted(i) :
               \/ u \in called[i] \/ order[u] < Place(order, current[i])
               \/ u = current[i]
      BY <2>2, <3>1 DEF IterAt
    <3>3. \A u \in steady[i] : u \in Users /\ u # NoUser /\ order[u] \in Nat
      BY <2>1, <2>2, UsersAssumption DEF Types, ListInv, Places
    <3>4. CASE current[i] = NoUser
      BY <3>1, <3>2, <3>3, <3>4 DEF Place, Wanted
    <3>5. CASE current[i] # NoUser
      <4>1. asked[i] = current[i] /\ CallsCurrent(i)
        BY <3>1, <3>5 DEF CallsCurrent
      <4> QED BY <3>1, <3>2, <3>5, <4>1 DEF Wanted
    <3> QED BY <3>4, <3>5
  <2> QED BY <2>3, <2>4, <2>5
<1>2. ASSUME Inv, [Next]_vars PROVE [\A i \in Iterators : Called(i)]_vars
  BY <1>1, <1>2
<1>3. Inv /\ [Next]_vars => [\A i \in Iterators : Called(i)]_vars
  BY <1>2
<1> QED BY <1>3, ListStays, PTL DEF Spec, RightOnesCalled

=============================================================================

------------------------------- MODULE Layers -------------------------------
(***************************************************************************)
(* Layers and buffers of a client (guac_client_alloc_layer and _buffer,    *)
(* guac_client_free_layer and _buffer): drawing surfaces that the user's   *)
(* display knows by an index, taken from a pool.                           *)
(***************************************************************************)
EXTENDS Pool, FiniteSets

CONSTANTS
  Kind,      \* "layer" (visible, positive index) or "buffer" (negative)
  Handles    \* the guac_layer structs the program may have at one time

ASSUME KindAssumption == Kind \in {"layer", "buffer"}

VARIABLES
  live,      \* the handles that are allocated
  index      \* the index field of each handle

layerVars == <<poolVars, live, index>>

\* The index of a layer made from an integer of the pool.
ToIndex(value) == IF Kind = "layer" THEN value + 1 ELSE -value - 1

FromIndex(i) == IF Kind = "layer" THEN i ELSE -i - 1

InitLayers == PoolInit /\ live = {} /\ index = [h \in Handles |-> 0]

(* guac_client_alloc_layer, guac_client_alloc_buffer                       *)
Alloc(h) ==
  /\ h \notin live
  /\ index' = [index EXCEPT ![h] = ToIndex(NextValue)]
  /\ live' = live \union {h}
  /\ NextInt

(* guac_client_free_layer, guac_client_free_buffer                         *)
Free(h) ==
  /\ h \in live
  /\ live' = live \ {h}
  /\ FreeInt(FromIndex(index[h]))
  /\ UNCHANGED index

NextLayers == \E h \in Handles : Alloc(h) \/ Free(h)

SpecLayers == InitLayers /\ [][NextLayers]_layerVars

-----------------------------------------------------------------------------
Freed == {free_ints[k] : k \in 1 .. Len(free_ints)}

\* The types of the variables.
LayersTypeOK ==
  /\ active \in Int /\ next_value \in Nat /\ free_ints \in Seq(Int)
  /\ live \subseteq Handles /\ index \in [Handles -> Int]

\* Two surfaces that exist at the same time never share an index: drawing on
\* one would appear on the other, and disposing of one would destroy both.
UniqueIndex == \A g, h \in live : index[g] = index[h] => g = h

\* Every integer the pool ever made is either in use or waiting for reuse,
\* once: none leaks, none is in two places.
Conserved ==
  /\ \A v \in 0 .. next_value - 1 :
       v \in Freed <=> \A h \in live : index[h] # ToIndex(v)
  /\ Cardinality(Freed) = Len(free_ints)
  /\ active = Cardinality(live)

-----------------------------------------------------------------------------
(* The inductive invariant of a kind whose FromIndex undoes its ToIndex.   *)
PoolInv ==
  /\ \A h \in live : \E v \in 0 .. next_value - 1 : index[h] = ToIndex(v)
  /\ \A k \in 1 .. Len(free_ints) :
       /\ free_ints[k] \in 0 .. next_value - 1
       /\ \A h \in live : index[h] # ToIndex(free_ints[k])
       /\ \A m \in 1 .. Len(free_ints) : free_ints[k] = free_ints[m] => k = m
  /\ UniqueIndex
=============================================================================

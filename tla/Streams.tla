------------------------------- MODULE Streams -------------------------------
(***************************************************************************)
(* Streams and objects: slots of a fixed array (__output_streams of a      *)
(* client or a user, __objects of a user) that threads allocate through a  *)
(* pool.  Only the pool's operations are locked: the test for room before  *)
(* and the mark on the slot after are not.                                 *)
(***************************************************************************)
EXTENDS Pool, FiniteSets

CONSTANTS
  Kind,        \* "client_stream", "user_stream" or "object"
  MaxStreams,  \* the slots of the array: GUAC_CLIENT_MAX_STREAMS and so on
  Threads      \* the threads that allocate and free

VARIABLES
  index,   \* the index field of every slot, and of the memory beside them
  open,    \* per thread: the slots of the streams it has open
  pc,      \* per thread: where it is in an operation
  slot,    \* per thread: the slot of that operation
  raced    \* history: a slot was taken in one of the windows of two threads

vars == <<poolVars, index, open, pc, slot, raced>>

\* GUAC_CLIENT_CLOSED_STREAM_INDEX, GUAC_USER_CLOSED_STREAM_INDEX,
\* GUAC_USER_UNDEFINED_OBJECT_INDEX
Closed == -1

\* Where slots can be looked up: the array, and what it can be missed by.
Memory == -1 .. MaxStreams + Cardinality(Threads)

\* The index of the stream in a slot: odd for clients, even for users.
ToIndex(s) == CASE Kind = "client_stream" -> 2 * s + 1
                [] Kind = "user_stream"   -> 2 * s
                [] Kind = "object"        -> s

\* Integer division of C, which rounds to zero.
Half(i) == IF i < 0 THEN -((-i) \div 2) ELSE i \div 2

\* The index is taken for that of a user's stream.
MutantShiftsIndex(i) == Half(i + 1)

FromIndex(i) == CASE Kind = "client_stream" -> Half(i - 1)
                  [] Kind = "user_stream"   -> Half(i)
                  [] Kind = "object"        -> i

Init ==
  /\ PoolInit
  /\ index = [s \in Memory |-> Closed]
  /\ open = [t \in Threads |-> {}]
  /\ pc = [t \in Threads |-> "idle"]
  /\ slot = [t \in Threads |-> Closed]
  /\ raced = FALSE

\* The maximum is tested for the stream that was allocated last.
MutantChecksLate(t) ==
  /\ pc[t] = "idle"
  /\ active # MaxStreams + 1
  /\ pc' = [pc EXCEPT ![t] = "room"]
  /\ UNCHANGED <<poolVars, index, open, slot, raced>>

(* guac_client_alloc_stream: NULL is returned when the pool is full.       *)
Check(t) ==
  /\ pc[t] = "idle"
  /\ active # MaxStreams
  /\ pc' = [pc EXCEPT ![t] = "room"]
  /\ UNCHANGED <<poolVars, index, open, slot, raced>>

\* The last slot is taken while another thread has found room for it, too.
BeyondMaximum(t) ==
  active + 1 = MaxStreams /\ \E u \in Threads \ {t} : pc[u] = "room"

\* The slot was given back by a thread that has yet to mark it closed.
NotYetClosed(t) ==
  \E u \in Threads \ {t} : pc[u] = "released" /\ slot[u] = NextValue

(* ... a slot is taken ...                                                 *)
Take(t) ==
  /\ pc[t] = "room"
  /\ raced' = (raced \/ BeyondMaximum(t) \/ NotYetClosed(t))
  /\ slot' = [slot EXCEPT ![t] = NextValue]
  /\ NextInt
  /\ pc' = [pc EXCEPT ![t] = "taken"]
  /\ UNCHANGED <<index, open>>

\* The index of the slot is left as it was.
MutantKeepsIndex(t) ==
  /\ pc[t] = "taken"
  /\ open' = [open EXCEPT ![t] = @ \union {slot[t]}]
  /\ pc' = [pc EXCEPT ![t] = "idle"]
  /\ UNCHANGED <<poolVars, index, slot, raced>>

(* ... and initialised.                                                    *)
Open(t) ==
  /\ pc[t] = "taken"
  /\ index' = [index EXCEPT ![slot[t]] = ToIndex(slot[t])]
  /\ open' = [open EXCEPT ![t] = @ \union {slot[t]}]
  /\ pc' = [pc EXCEPT ![t] = "idle"]
  /\ UNCHANGED <<poolVars, slot, raced>>

(* guac_client_free_stream: the integer its index stands for is given back *)
Release(t) ==
  /\ pc[t] = "idle"
  /\ \E s \in open[t] :
       /\ FreeInt(FromIndex(index[s]))
       /\ slot' = [slot EXCEPT ![t] = s]
       /\ open' = [open EXCEPT ![t] = @ \ {s}]
  /\ pc' = [pc EXCEPT ![t] = "released"]
  /\ UNCHANGED <<index, raced>>

(* ... and then the slot is marked closed.                                 *)
Mark(t) ==
  /\ pc[t] = "released"
  /\ index' = [index EXCEPT ![slot[t]] = Closed]
  /\ pc' = [pc EXCEPT ![t] = "idle"]
  /\ UNCHANGED <<poolVars, open, slot, raced>>

\* Every slot that is in use or was handed out is in the array.
InArray == \A t \in Threads :
  /\ pc[t] = "taken" => slot[t] \in 0 .. MaxStreams - 1
  /\ open[t] \subseteq 0 .. MaxStreams - 1

\* The memory beside the array is somebody else's: what a stream does there
\* is undefined, and a behaviour ends.
Next == InArray /\ \E t \in Threads :
  Check(t) \/ Take(t) \/ Open(t) \/ Release(t) \/ Mark(t)

Spec == Init /\ [][Next]_vars

-----------------------------------------------------------------------------
States == {"idle", "room", "taken", "released"}

\* The types of the variables.
TypeOK ==
  /\ active \in Int /\ next_value \in Nat /\ free_ints \in Seq(Int)
  /\ index \in [Memory -> Int] /\ open \in [Threads -> SUBSET Memory]
  /\ pc \in [Threads -> States] /\ slot \in [Threads -> Memory]
  /\ raced \in BOOLEAN

\* A slot is never given to an operation while a stream is open in it.
NotTakenTwice == \A t, u \in Threads :
  /\ pc[t] = "taken" => slot[t] \notin open[u]
  /\ t # u => open[t] \intersect open[u] = {}
  /\ t # u /\ pc[t] = "taken" /\ pc[u] = "taken" => slot[t] # slot[u]

\* An open stream has the index of its slot; in particular it does not carry
\* the index of a closed one.
OpenIsIndexed == \A t \in Threads : \A s \in open[t] :
  index[s] = ToIndex(s)
=============================================================================

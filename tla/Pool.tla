-------------------------------- MODULE Pool --------------------------------
(***************************************************************************)
(* A guac_pool: the allocator of small integers behind layers, buffers,    *)
(* streams and objects (pool.c).  Both operations run under the pool's     *)
(* lock, so each one is a single step; NextInt returns NextValue.          *)
(***************************************************************************)
EXTENDS Integers, Sequences

CONSTANT MinSize   \* min_size: integers handed out before any is reused

ASSUME MinSizeAssumption == MinSize \in Nat

VARIABLES
  active,       \* integers in use, as the pool counts them
  next_value,   \* the next integer never handed out
  free_ints     \* __head .. __tail: the integers given back, oldest first

poolVars == <<active, next_value, free_ints>>

(* guac_pool_alloc                                                         *)
PoolInit == active = 0 /\ next_value = 0 /\ free_ints = << >>

(* A new integer is made unless one was given back and enough were made.   *)
MakesNew == free_ints = << >> \/ next_value < MinSize

\* The integer that guac_pool_next_int returns.
NextValue == IF MakesNew THEN next_value ELSE Head(free_ints)

\* The first waiting integer is handed out and goes on waiting.
MutantKeepsHead ==
  /\ active' = active + 1
  /\ IF MakesNew
     THEN next_value' = next_value + 1 /\ UNCHANGED free_ints
     ELSE UNCHANGED <<free_ints, next_value>>

(* guac_pool_next_int                                                      *)
NextInt ==
  /\ active' = active + 1
  /\ IF MakesNew
     THEN next_value' = next_value + 1 /\ UNCHANGED free_ints
     ELSE free_ints' = Tail(free_ints) /\ UNCHANGED next_value

\* The count of integers in use is not updated.
MutantCountsOn(value) ==
  free_ints' = Append(free_ints, value) /\ UNCHANGED <<active, next_value>>

(* guac_pool_free_int                                                      *)
FreeInt(value) ==
  /\ active' = active - 1
  /\ free_ints' = Append(free_ints, value)
  /\ UNCHANGED next_value
=============================================================================

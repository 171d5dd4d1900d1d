------------------------------- MODULE RWLock -------------------------------
(***************************************************************************)
(* The reader-writer lock of libguac, rwlock::RWLock<SLEEP>: a counter that *)
(* is 0 when the lock is free, MIN_INT while a writer holds it and the     *)
(* number of readers otherwise, and a condition variable for the others.   *)
(*                                                                         *)
(* Every atomic access of the counter is a step.  A thread that has to     *)
(* wait evaluates its predicate under wait_mutex_, which notifiers do not  *)
(* take: between a predicate that is false and the wait there is a gap.    *)
(***************************************************************************)
EXTENDS Integers

CONSTANTS
  Threads,
  MinInt      \* the member MIN_INT of the lock

ASSUME MinIntAssumption == MinInt \in Int

VARIABLES
  refCounter, \* ref_counter_
  lock        \* how far each thread is with the lock

lockVars == <<refCounter, lock>>

LockInit == refCounter = 0 /\ lock = [t \in Threads |-> "free"]

\* Where a thread is on its way to the lock.
Acquiring == {"undo", "readCheck", "readGap", "readAsleep",
              "writeCheck", "writeGap", "writeAsleep"}

LockTypeOK ==
  /\ refCounter \in Int
  /\ lock \in [Threads -> {"free", "writing", "reading", "notifyAll", "notifyOne"}
                            \union Acquiring]

Set(t, s) == lock' = [lock EXCEPT ![t] = s]

-----------------------------------------------------------------------------
\* compare_exchange_strong(0, MIN_INT), and where the thread is if it fails.
Exchange(t, failed) ==
  IF refCounter = 0 THEN refCounter' = MinInt /\ Set(t, "writing")
                    ELSE UNCHANGED refCounter /\ Set(t, failed)

\* fetch_add(1), and where the thread is if a writer has the lock.
Increment(t, failed) ==
  /\ refCounter' = refCounter + 1
  /\ Set(t, IF refCounter >= 0 THEN "reading" ELSE failed)

LockWrite(t) == lock[t] = "free" /\ Exchange(t, "writeCheck")
LockRead(t) == lock[t] = "free" /\ Increment(t, "undo")

(* A reader that came too soon takes its increment back.                   *)
Undo(t) == lock[t] = "undo" /\ refCounter' = refCounter - 1 /\ Set(t, "readCheck")

(* The predicates of the waits.                                            *)
WriteCheck(t) == lock[t] = "writeCheck" /\ Exchange(t, "writeGap")
ReadCheck(t) == lock[t] = "readCheck" /\ Increment(t, "readGap")

(* The wait itself.                                                        *)
FallAsleep(t) ==
  /\ lock[t] \in {"readGap", "writeGap"}
  /\ Set(t, IF lock[t] = "readGap" THEN "readAsleep" ELSE "writeAsleep")
  /\ UNCHANGED refCounter

(* The counter is given back, then the waiting threads are notified.       *)
UnLockWrite(t) ==
  lock[t] = "writing" /\ refCounter' = 0 /\ Set(t, "notifyAll")
UnLockRead(t) ==
  lock[t] = "reading" /\ refCounter' = refCounter - 1 /\ Set(t, "notifyOne")

Awake(state) == CASE state = "readAsleep" -> "readCheck"
                  [] state = "writeAsleep" -> "writeCheck"
                  [] OTHER -> state

Asleep == {t \in Threads : lock[t] \in {"readAsleep", "writeAsleep"}}

NotifyAll(t) ==
  /\ lock[t] = "notifyAll"
  /\ lock' = [d \in Threads |-> IF d = t THEN "free" ELSE Awake(lock[d])]
  /\ UNCHANGED refCounter

NotifyOne(t) ==
  /\ lock[t] = "notifyOne"
  /\ \E woken \in IF Asleep = {} THEN {t} ELSE Asleep :
       lock' = [d \in Threads |-> IF d = t THEN "free"
                                  ELSE IF d = woken THEN Awake(lock[d])
                                  ELSE lock[d]]
  /\ UNCHANGED refCounter

\* What a thread does inside the lock's functions.
LockStep(t) == \/ Undo(t) \/ WriteCheck(t) \/ ReadCheck(t) \/ FallAsleep(t)
               \/ NotifyAll(t) \/ NotifyOne(t)

-----------------------------------------------------------------------------
\* A thread that writes is alone with what the lock protects (the users list
\* of a client, while guac_client_add_user or guac_client_remove_user changes
\* it).
Exclusive == \A t, d \in Threads :
  t # d /\ lock[t] = "writing" => lock[d] \notin {"writing", "reading"}
=============================================================================

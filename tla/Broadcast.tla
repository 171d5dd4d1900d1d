----------------------------- MODULE Broadcast ------------------------------
(***************************************************************************)
(* The broadcast socket of a guac_client (socket-broadcast.c) at work.     *)
(* The session and its channels write instructions in chunks, each to the  *)
(* ring of every user, under the lock of the socket.  The threads of users *)
(* write to the same rings without that lock: the position of the cursor   *)
(* to all the others, under rdp_lock, and replies to themselves.  Users    *)
(* come and leave meanwhile.                                               *)
(*                                                                         *)
(* A chunk is one packet of a ring, and a ring the number of packets that  *)
(* are in it: ShmQueue has the rest.  ClientUsers has the lock of the      *)
(* users as it is; here a user may come during an iteration, as it can     *)
(* there, but is not removed during one.                                   *)
(***************************************************************************)
EXTENDS Integers, SequencesExt

CONSTANTS
  Users,
  Writers,    \* the threads of the session and of its channels
  NoThread,
  Length,     \* chunks of an instruction
  Capacity,   \* packets of a ring
  MaxBegun    \* bound: instructions that are begun

ASSUME BroadcastAssumption ==
  /\ Users \intersect Writers = {} /\ NoThread \notin Users \union Writers
  /\ Length \in Nat \ {0} /\ Capacity \in Nat \ {0} /\ MaxBegun \in Nat

Threads == Users \union Writers

VARIABLES
  pc,         \* where a thread is
  users,      \* client->__users, the newest first
  socketLock, \* who has socket_lock of the broadcast socket
  rdpLock,    \* who has rdp_lock
  todo,       \* the users that an iteration has not called yet
  part,       \* the chunks of the current instruction that were begun
  begun,      \* how many instructions were begun
  ring,       \* packets in the ring of a user
  gone,       \* the users whose client went away: nobody reads their ring
  \* history
  log,        \* every chunk written to the broadcast socket
  since,      \* how long the log was when a user came
  seen,       \* the chunks of the log that were written to a user
  open,       \* the thread whose instruction a user has in part
  mixed       \* a user got a chunk that does not continue what it had

lockVars == <<socketLock, rdpLock>>
history == <<log, since, seen, open, mixed>>
vars == <<pc, users, lockVars, todo, part, begun, ring, gone, history>>

Init ==
  /\ pc = [t \in Threads |-> IF t \in Users THEN "new" ELSE "idle"]
  /\ users = <<>>
  /\ socketLock = NoThread /\ rdpLock = NoThread
  /\ todo = [t \in Threads |-> <<>>]
  /\ part = [t \in Threads |-> 0]
  /\ begun = 0
  /\ ring = [u \in Users |-> 0]
  /\ gone = {}
  /\ log = <<>>
  /\ since = [u \in Users |-> 0]
  /\ seen = [u \in Users |-> <<>>]
  /\ open = [u \in Users |-> NoThread]
  /\ mixed = [u \in Users |-> FALSE]

Goto(t, label) == pc' = [pc EXCEPT ![t] = label]

\* t is in guac_client_foreach_user, with the lock of the users.
Iterating(t) == pc[t] \in {"visit", "notify"}
NobodyIterates == \A t \in Threads : ~Iterating(t)

\* An instruction is begun, if the bound lets it.
Begins == begun < MaxBegun /\ begun' = begun + 1

-----------------------------------------------------------------------------
(* The session draws under rdp_lock; the end of a frame, and what a static *)
(* channel receives (guac_svc_process_receive), are sent without it.       *)
Draw(w) ==
  /\ pc[w] = "idle" /\ Begins
  /\ Goto(w, "draw") \/ Goto(w, "begin")
  /\ UNCHANGED <<users, lockVars, todo, part, ring, gone, history>>

(* rdp_lock: a writer draws then, a user moves the cursor and tells the    *)
(* others (guac_common_cursor_move).                                       *)
LockRdp(t) ==
  /\ pc[t] = "draw" /\ rdpLock = NoThread
  /\ rdpLock' = t
  /\ IF t \in Writers
     THEN Goto(t, "begin") /\ UNCHANGED <<todo, part>>
     ELSE /\ Goto(t, "notify")
          /\ todo' = [todo EXCEPT ![t] = RemoveFirst(users, t)]
          /\ part' = [part EXCEPT ![t] = 0]
  /\ UNCHANGED <<users, socketLock, begun, ring, gone, history>>

\* The lock of the socket is not taken.
MutantNoLock(w) ==
  /\ pc[w] = "begin"
  /\ part' = [part EXCEPT ![w] = 0]
  /\ Goto(w, "chunk")
  /\ UNCHANGED <<users, lockVars, todo, begun, ring, gone, history>>

(* guac_socket_instruction_begin: the locks of the users' sockets, which   *)
(* it goes on to, do nothing.                                              *)
InstructionBegin(w) ==
  /\ pc[w] = "begin" /\ socketLock = NoThread
  /\ socketLock' = w
  /\ part' = [part EXCEPT ![w] = 0]
  /\ Goto(w, "chunk")
  /\ UNCHANGED <<users, rdpLock, todo, begun, ring, gone, history>>

(* A chunk is written: the iteration begins ...                            *)
WriteChunk(w) ==
  /\ pc[w] = "chunk" /\ part[w] < Length
  /\ part' = [part EXCEPT ![w] = @ + 1]
  /\ todo' = [todo EXCEPT ![w] = users]
  /\ log' = Append(log, <<w, part'[w]>>)
  /\ Goto(w, "visit")
  /\ UNCHANGED <<users, lockVars, begun, ring, gone, since, seen, open, mixed>>

\* Chunk k of an instruction of t is put into the ring of u.
Put(u, t, k) ==
  /\ ring[u] < Capacity
  /\ ring' = [ring EXCEPT ![u] = @ + 1]
  /\ open' = [open EXCEPT ![u] = IF k = Length THEN NoThread ELSE t]
  /\ mixed' = [mixed EXCEPT ![u] =
        @ \/ open[u] # (IF k = 1 THEN NoThread ELSE t)]

\* A user whose ring is full is passed over.
MutantPassesOver(w) ==
  /\ pc[w] = "visit" /\ todo[w] # <<>>
  /\ LET u == Head(todo[w])
     IN IF ring[u] = Capacity THEN UNCHANGED <<ring, open, mixed, seen>>
        ELSE Put(u, w, part[w]) /\ seen' = [seen EXCEPT ![u] = Append(@, Last(log))]
  /\ todo' = [todo EXCEPT ![w] = Tail(@)]
  /\ UNCHANGED <<pc, users, lockVars, part, begun, gone, log, since>>

(* ... every user gets the chunk: into a ring that is full                 *)
(* guac_socket_write tries again until it goes in ...                      *)
Visit(w) ==
  /\ pc[w] = "visit" /\ todo[w] # <<>>
  /\ Put(Head(todo[w]), w, part[w])
  /\ seen' = [seen EXCEPT ![Head(todo[w])] = Append(@, Last(log))]
  /\ todo' = [todo EXCEPT ![w] = Tail(@)]
  /\ UNCHANGED <<pc, users, lockVars, part, begun, gone, log, since>>

(* ... and the iteration ends.                                             *)
EndChunk(w) ==
  /\ pc[w] = "visit" /\ todo[w] = <<>>
  /\ Goto(w, "chunk")
  /\ UNCHANGED <<users, lockVars, todo, part, begun, ring, gone, history>>

\* Who has rdp_lock after t is done.
RdpLockWithout(t) == IF rdpLock = t THEN NoThread ELSE rdpLock

\* The lock of the socket is kept.
MutantKeepsLock(w) ==
  /\ pc[w] = "chunk" /\ part[w] = Length
  /\ rdpLock' = RdpLockWithout(w)
  /\ Goto(w, "idle")
  /\ UNCHANGED <<users, socketLock, todo, part, begun, ring, gone, history>>

(* guac_socket_instruction_end; rdp_lock is released some time after it.   *)
InstructionEnd(w) ==
  /\ pc[w] = "chunk" /\ part[w] = Length
  /\ socketLock' = NoThread
  /\ rdpLock' = RdpLockWithout(w)
  /\ Goto(w, "idle")
  /\ UNCHANGED <<users, todo, part, begun, ring, gone, history>>

-----------------------------------------------------------------------------
(* guac_client_add_user after the join handler.                            *)
AddUser(u) ==
  /\ pc[u] = "new"
  /\ users' = <<u>> \o users
  /\ since' = [since EXCEPT ![u] = Len(log)]
  /\ Goto(u, "in")
  /\ UNCHANGED <<lockVars, todo, part, begun, ring, gone, log, seen, open, mixed>>

(* The mouse of u moved.                                                   *)
Mouse(u) ==
  /\ pc[u] = "in" /\ u \notin gone /\ Begins
  /\ Goto(u, "draw")
  /\ UNCHANGED <<users, lockVars, todo, part, ring, gone, history>>

(* The handler of an instruction of u answers, with an ack, say.           *)
Reply(u) ==
  /\ pc[u] = "in" /\ u \notin gone /\ Begins
  /\ todo' = [todo EXCEPT ![u] = <<u>>]
  /\ part' = [part EXCEPT ![u] = 0]
  /\ Goto(u, "reply")
  /\ UNCHANGED <<users, lockVars, ring, gone, history>>

(* An instruction that is not broadcast goes to a user chunk by chunk.     *)
WriteDirectly(u) ==
  /\ pc[u] \in {"notify", "reply", "disconnect"} /\ todo[u] # <<>>
  /\ LET k == part[u] + 1
     IN  /\ Put(Head(todo[u]), u, k)
         /\ part' = [part EXCEPT ![u] = k % Length]
         /\ todo' = [todo EXCEPT ![u] = IF k = Length THEN Tail(@) ELSE @]
  /\ UNCHANGED <<pc, users, lockVars, begun, gone, log, since, seen>>

(* The handler of an instruction returns.                                  *)
HandlerReturns(u) ==
  /\ pc[u] \in {"notify", "reply"} /\ todo[u] = <<>>
  /\ rdpLock' = RdpLockWithout(u)
  /\ Goto(u, "in")
  /\ UNCHANGED <<users, socketLock, todo, part, begun, ring, gone, history>>

-----------------------------------------------------------------------------
(* The service reads the ring of u for the client ...                      *)
Drain(u) ==
  /\ u \notin gone /\ ring[u] > 0
  /\ ring' = [ring EXCEPT ![u] = @ - 1]
  /\ UNCHANGED <<pc, users, lockVars, todo, part, begun, gone, history>>

(* ... until the client goes away: then it resets the ring, and a REMOVE   *)
(* makes the process reset it (AbortUser).                                 *)
GoAway(u) ==
  /\ u \notin gone /\ pc[u] \notin {"new", "left"}
  /\ gone' = gone \union {u}
  /\ ring' = [ring EXCEPT ![u] = 0]
  /\ UNCHANGED <<pc, users, lockVars, todo, part, begun, history>>

(* StopUser: the ring is reset, the disconnect instruction written ...     *)
StopUser(u) ==
  /\ pc[u] = "in" /\ u \in gone
  /\ ring' = [ring EXCEPT ![u] = 0]
  /\ todo' = [todo EXCEPT ![u] = <<u>>]
  /\ part' = [part EXCEPT ![u] = 0]
  /\ Goto(u, "disconnect")
  /\ UNCHANGED <<users, lockVars, begun, gone, history>>

(* ... and the user removed, which waits for the iterations.               *)
RemoveUser(u) ==
  /\ pc[u] = "disconnect" /\ todo[u] = <<>> /\ NobodyIterates
  /\ users' = RemoveFirst(users, u)
  /\ Goto(u, "left")
  /\ UNCHANGED <<lockVars, todo, part, begun, ring, gone, history>>

-----------------------------------------------------------------------------
\* What a thread does once it has begun.
Working(t) ==
  \/ LockRdp(t)
  \/ /\ t \in Writers
     /\ InstructionBegin(t) \/ WriteChunk(t) \/ Visit(t) \/ EndChunk(t)
        \/ InstructionEnd(t)
  \/ /\ t \in Users
     /\ WriteDirectly(t) \/ HandlerReturns(t) \/ StopUser(t) \/ RemoveUser(t)

Next ==
  \/ \E w \in Writers : Draw(w)
  \/ \E u \in Users : AddUser(u) \/ Mouse(u) \/ Reply(u) \/ Drain(u) \/ GoAway(u)
  \/ \E t \in Threads : Working(t)

Spec == Init /\ [][Next]_vars

\* The threads that have begun go on, and the service reads for every client
\* that is there.
FairSpec ==
  /\ Spec
  /\ \A t \in Threads : WF_vars(Working(t))
  /\ \A u \in Users : WF_vars(Drain(u))

-----------------------------------------------------------------------------
Chunks == Writers \X (1..Length)

\* The types of the variables.
TypeOK ==
  /\ pc \in [Threads -> {"new", "in", "notify", "reply", "disconnect", "left",
                         "idle", "draw", "begin", "chunk", "visit"}]
  /\ users \in Seq(Users) /\ IsInjective(users)
  /\ socketLock \in Writers \union {NoThread}
  /\ rdpLock \in Threads \union {NoThread}
  /\ todo \in [Threads -> Seq(Users)]
  /\ part \in [Threads -> 0..Length] /\ begun \in 0..MaxBegun
  /\ ring \in [Users -> 0..Capacity] /\ gone \subseteq Users
  /\ log \in Seq(Chunks) /\ since \in [Users -> Nat]
  /\ seen \in [Users -> Seq(Chunks)]
  /\ open \in [Users -> Threads \union {NoThread}]
  /\ mixed \in [Users -> BOOLEAN]

\* What is written to the broadcast socket is one whole instruction after
\* another: the chunks of two threads do not mix in it.
LogWhole ==
  /\ TypeOK
  /\ \A i \in 1..Len(log) :
       /\ log[i][2] = ((i - 1) % Length) + 1
       /\ log[i][2] > 1 => log[i][1] = log[i - 1][1]

\* Every user gets every chunk written since it came, once and in the order
\* in which they were written, whatever else is written to it, who comes or
\* leaves and how full the rings are: all that can be outstanding is the
\* chunk that is under way.
SameForAll == \A u \in ToSet(users) :
  LET outstanding == IF \E w \in Writers : u \in ToSet(todo[w]) THEN 1 ELSE 0
  IN  seen[u] = SubSeq(log, since[u] + 1, Len(log) - outstanding)

Busy(t) == pc[t] \notin {"idle", "new", "in", "left"}

\* While every client reads, whatever a thread writes gets written: nobody
\* waits for ever for a lock, an iteration to end, or room in a ring.
WritesEnd == \A t \in Threads : Busy(t) ~> ~Busy(t) \/ gone # {}

-----------------------------------------------------------------------------
(* What one would expect, and the code does not keep: see README.md.       *)

\* "Parallel writes are only interleaved at instruction boundaries"
\* (socket-broadcast.c): a user never gets a chunk of one instruction within
\* another, nor the rest of one whose beginning it did not get.
InstructionsWhole == \A u \in Users : ~mixed[u]

\* A client that went away is removed, and the others are served.
WritesEndForOthers == \A t \in Threads : Busy(t) ~> ~Busy(t)
=============================================================================

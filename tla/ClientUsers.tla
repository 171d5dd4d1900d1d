---------------------------- MODULE ClientUsers -----------------------------
(***************************************************************************)
(* The users of a guac_client (client.c): the doubly linked list that users *)
(* are put in and taken from by a thread each, and the iterations over it  *)
(* by the threads that draw, which is what every write to the broadcast    *)
(* socket of the client is.                                                *)
(***************************************************************************)
EXTENDS RWLock, FiniteSets

CONSTANTS
  Users,
  NoUser,     \* NULL
  Owners,     \* the users with their "owner" flag set
  Iterators,  \* the threads that iterate
  Meanwhile,  \* iterations may overlap with users that come and leave
  Together    \* users may come and leave together

ASSUME UsersAssumption ==
  /\ IsFiniteSet(Users) /\ Owners \subseteq Users /\ NoUser \notin Users
  /\ Threads = Users \union Iterators /\ Users \intersect Iterators = {}
  /\ Meanwhile \in BOOLEAN /\ Together \in BOOLEAN

VARIABLES
  pc,             \* where the thread of a user or an iterator is
  users,          \* client->__users
  next, prev,     \* __next and __prev of every user
  connectedUsers, \* client->connected_users
  owner,          \* client->__owner
  freed,          \* the users that were freed
  asked,          \* for_user: the user asked for; NoUser for foreach_user
  current,        \* where an iteration is
  called,         \* the users its callback was called with
  \* history, of every iteration that is under way
  steady,         \* the users that are connected since it began
  present,        \* the users that were in the list at some time of it
  fault           \* memory of a freed user was used

listVars == <<users, next, prev, connectedUsers, owner>>
iterVars == <<asked, current, called>>
history == <<steady, present>>
vars == <<lockVars, pc, listVars, iterVars, freed, fault, history>>

Init ==
  /\ LockInit
  /\ pc = [t \in Threads |-> IF t \in Users THEN "new" ELSE "idle"]
  /\ users = NoUser
  /\ next = [u \in Users |-> NoUser]
  /\ prev = [u \in Users |-> NoUser]
  /\ connectedUsers = 0
  /\ owner = NoUser
  /\ freed = {}
  /\ asked = [i \in Iterators |-> NoUser]
  /\ current = [i \in Iterators |-> NoUser]
  /\ called = [i \in Iterators |-> {}]
  /\ steady = [i \in Iterators |-> {}]
  /\ present = [i \in Iterators |-> {}]
  /\ fault = FALSE

Goto(t, label) == pc' = [pc EXCEPT ![t] = label]

\* Labels at which a thread is not in a function of the client.
Outside == {"new", "joined", "refused", "in", "left", "gone", "idle"}

\* t may call a function of the client: those it may overlap with aside, no
\* thread is in one.
MayCall(t) == \A d \in Threads \ {t} :
  \/ lock[d] = "free" /\ pc[d] \in Outside
  \/ IF {t, d} \subseteq Users THEN Together ELSE Meanwhile

\* A field of u is used: undefined behaviour if u was freed.
Use(u) == fault' = (u \in freed)

-----------------------------------------------------------------------------
(* guac_client_add_user: the join handler accepts the user or not ...      *)
Join(u) ==
  /\ pc[u] = "new"
  /\ \/ Goto(u, "joined")
     \/ Goto(u, "refused")
  /\ UNCHANGED <<lockVars, listVars, iterVars, freed, fault>>

(* ... the lock is taken in both cases ...                                 *)
AddLock(u) ==
  /\ pc[u] \in {"joined", "refused"} /\ MayCall(u)
  /\ LockWrite(u)
  /\ Goto(u, IF pc[u] = "joined" THEN "add" ELSE "refuse")
  /\ UNCHANGED <<listVars, iterVars, freed, fault>>

(* ... the links of the user are set ...                                   *)
AddLinks(u) ==
  /\ pc[u] = "add" /\ lock[u] = "writing"
  /\ prev' = [prev EXCEPT ![u] = NoUser]
  /\ next' = [next EXCEPT ![u] = users]
  /\ Goto(u, "addBack")
  /\ UNCHANGED <<lockVars, users, connectedUsers, owner, iterVars, freed, fault>>

\* The user that was the first one does not point back.
MutantNoBackLink(u) ==
  pc[u] = "addBack" /\ Goto(u, "addHead")
  /\ UNCHANGED <<lockVars, listVars, iterVars, freed, fault>>

(* ... the first user points back to it ...                                *)
AddBack(u) ==
  /\ pc[u] = "addBack"
  /\ Use(users)
  /\ prev' = IF users = NoUser THEN prev ELSE [prev EXCEPT ![users] = u]
  /\ Goto(u, "addHead")
  /\ UNCHANGED <<lockVars, users, next, connectedUsers, owner, iterVars, freed>>

(* ... and the user is the first one from now on.                          *)
AddHead(u) ==
  /\ pc[u] = "addHead"
  /\ users' = u
  /\ connectedUsers' = connectedUsers + 1
  /\ owner' = IF u \in Owners THEN u ELSE owner
  /\ Goto(u, "added")
  /\ UNCHANGED <<lockVars, next, prev, iterVars, freed, fault>>

(* A user that was accepted is in; one that was refused is freed.          *)
AddUnlock(u) ==
  /\ pc[u] \in {"added", "refuse"}
  /\ UnLockWrite(u)
  /\ Goto(u, IF pc[u] = "added" THEN "in" ELSE "left")
  /\ UNCHANGED <<listVars, iterVars, freed, fault>>

-----------------------------------------------------------------------------
(* guac_client_remove_user.                                                *)
RemoveLock(u) ==
  /\ pc[u] = "in" /\ MayCall(u)
  /\ LockWrite(u)
  /\ Goto(u, "unlink")
  /\ UNCHANGED <<listVars, iterVars, freed, fault>>

(* What is before the user, or the head, points to what is after it ...    *)
Unlink(u) ==
  /\ pc[u] = "unlink" /\ lock[u] = "writing"
  /\ Use(prev[u])
  /\ IF prev[u] = NoUser
     THEN users' = next[u] /\ UNCHANGED next
     ELSE next' = [next EXCEPT ![prev[u]] = next[u]] /\ UNCHANGED users
  /\ Goto(u, "unlinkNext")
  /\ UNCHANGED <<lockVars, prev, connectedUsers, owner, iterVars, freed>>

OwnerWithout(u) == IF u \in Owners THEN NoUser ELSE owner

(* ... and the other way.                                                  *)
UnlinkNext(u) ==
  /\ pc[u] = "unlinkNext"
  /\ Use(next[u])
  /\ prev' = IF next[u] = NoUser THEN prev ELSE [prev EXCEPT ![next[u]] = prev[u]]
  /\ connectedUsers' = connectedUsers - 1
  /\ owner' = OwnerWithout(u)
  /\ Goto(u, "removed")
  /\ UNCHANGED <<lockVars, users, next, iterVars, freed>>

RemoveUnlock(u) ==
  /\ pc[u] = "removed"
  /\ UnLockWrite(u)
  /\ Goto(u, "left")
  /\ UNCHANGED <<listVars, iterVars, freed, fault>>

(* After the leave handler the thread of the user frees it.                *)
FreeUser(u) ==
  /\ pc[u] = "left" /\ lock[u] = "free"
  /\ freed' = freed \union {u}
  /\ Goto(u, "gone")
  /\ UNCHANGED <<lockVars, listVars, iterVars, fault>>

-----------------------------------------------------------------------------
(* guac_client_foreach_user, guac_client_for_user and                      *)
(* guac_client_for_owner take the lock ...                                 *)
CallUsers(i) ==
  /\ pc[i] = "idle" /\ MayCall(i)
  /\ LockRead(i)
  /\ called' = [called EXCEPT ![i] = {}]
  /\ \/ \E u \in Users \union {NoUser} : asked' = [asked EXCEPT ![i] = u]
        /\ Goto(i, "begin")
     \/ Goto(i, "callOwner") /\ UNCHANGED asked
  /\ UNCHANGED <<listVars, current, freed, fault>>

(* ... for_owner calls its callback with the owner, if there is one ...    *)
CallOwner(i) ==
  /\ pc[i] = "callOwner" /\ lock[i] = "reading"
  /\ Use(owner)
  /\ called' = [called EXCEPT ![i] = {owner} \ {NoUser}]
  /\ Goto(i, "end")
  /\ UNCHANGED <<lockVars, listVars, asked, current, freed>>

(* ... the others go through the list ...                                  *)
Begin(i) ==
  /\ pc[i] = "begin" /\ lock[i] = "reading"
  /\ current' = [current EXCEPT ![i] = users]
  /\ Goto(i, "visit")
  /\ UNCHANGED <<lockVars, listVars, asked, called, freed, fault>>

\* Is the callback called with the current user?
MutantCallsAnyone(i) == TRUE
CallsCurrent(i) == asked[i] \in {NoUser, current[i]}

(* ... foreach_user with a call for every user, for_user with one call if  *)
(* it finds the user ...                                                   *)
Visit(i) ==
  /\ pc[i] = "visit"
  /\ IF current[i] # NoUser /\ CallsCurrent(i)
     THEN Use(current[i]) /\ called' = [called EXCEPT ![i] = @ \union {current[i]}]
     ELSE UNCHANGED <<called, fault>>
  /\ Goto(i, IF current[i] \in {NoUser, asked[i]} THEN "end" ELSE "advance")
  /\ UNCHANGED <<lockVars, listVars, asked, current, freed>>

Advance(i) ==
  /\ pc[i] = "advance"
  /\ Use(current[i])
  /\ current' = [current EXCEPT ![i] = next[@]]
  /\ Goto(i, "visit")
  /\ UNCHANGED <<lockVars, listVars, asked, called, freed>>

(* ... and the lock is released.                                           *)
End(i) ==
  /\ pc[i] = "end"
  /\ UnLockRead(i)
  /\ Goto(i, "idle")
  /\ UNCHANGED <<listVars, iterVars, freed, fault>>

-----------------------------------------------------------------------------
User(u) ==
  \/ Join(u) \/ AddLock(u) \/ AddLinks(u) \/ AddBack(u) \/ AddHead(u)
  \/ AddUnlock(u) \/ RemoveLock(u) \/ Unlink(u) \/ UnlinkNext(u)
  \/ RemoveUnlock(u) \/ FreeUser(u)

Iterating(i) == CallOwner(i) \/ Begin(i) \/ Visit(i) \/ Advance(i) \/ End(i)

Locking(t) ==
  LockStep(t) /\ UNCHANGED <<pc, listVars, iterVars, freed, fault>>

\* The history after a step.
Recorded ==
  LET in == {u \in Users : pc'[u] = "in"}
      listed == {u \in Users : pc'[u] \in {"added", "in", "unlink", "unlinkNext"}}
  IN  /\ steady' = [i \in Iterators |->
            IF pc'[i] = "idle" THEN {}
            ELSE IF pc[i] = "idle" THEN in ELSE steady[i] \intersect in]
      /\ present' = [i \in Iterators |->
            IF pc'[i] = "idle" THEN {} ELSE present[i] \union listed]

Next ==
  /\ ~fault
  /\ \/ \E u \in Users : User(u)
     \/ \E i \in Iterators : CallUsers(i) \/ Iterating(i)
     \/ \E t \in Threads : Locking(t)
  /\ Recorded

Spec == Init /\ [][Next]_vars

\* A thread that is in a function of the client, or in the lock, goes on.
FairSpec ==
  /\ Spec
  /\ \A u \in Users : WF_vars(~fault /\ pc[u] # "in" /\ User(u) /\ Recorded)
  /\ \A i \in Iterators : WF_vars(~fault /\ Iterating(i) /\ Recorded)
  /\ \A t \in Threads : WF_vars(~fault /\ Locking(t) /\ Recorded)

-----------------------------------------------------------------------------
Labels == Outside \union
  {"add", "refuse", "addBack", "addHead", "added", "unlink", "unlinkNext",
   "removed", "begin", "callOwner", "visit", "advance", "end"}

\* The types of the variables.
TypeOK ==
  LET Link == Users \union {NoUser} IN
  /\ LockTypeOK
  /\ pc \in [Threads -> Labels]
  /\ users \in Link /\ owner \in Link
  /\ next \in [Users -> Link] /\ prev \in [Users -> Link]
  /\ connectedUsers \in 0..Cardinality(Users) /\ freed \subseteq Users
  /\ asked \in [Iterators -> Link] /\ current \in [Iterators -> Link]
  /\ called \in [Iterators -> SUBSET Users] /\ fault \in BOOLEAN
  /\ steady \in [Iterators -> SUBSET Users] /\ present \in [Iterators -> SUBSET Users]

Connected == {u \in Users : pc[u] \in {"in", "added"}}
Quiet == \A u \in Users : pc[u] \in Outside

\* The user after n others in the list.
UserAt[n \in 0..Cardinality(Users)] ==
  IF n = 0 THEN users
  ELSE IF UserAt[n - 1] = NoUser THEN NoUser ELSE next[UserAt[n - 1]]

\* While no user comes or leaves, the list has exactly the connected users,
\* in whatever order they came and left; the links backwards fit it and the
\* count is right; the owner is one of them, forgotten when it leaves.
ListIntact ==
  /\ TypeOK
  /\ Quiet =>
       LET n == Cardinality(Connected)
       IN  /\ {UserAt[k] : k \in 0..(n - 1)} = Connected
           /\ UserAt[n] = NoUser
           /\ users # NoUser => prev[users] = NoUser
           /\ \A u \in Connected : next[u] # NoUser => prev[next[u]] = u
           /\ connectedUsers = n
           /\ owner # NoUser => owner \in Connected

\* foreach_user calls its callback with every user that is connected all the
\* time, and with none that was not in the list at some time of the iteration,
\* although users come and leave meanwhile and the lock keeps nobody out;
\* for_user calls it at most with the user that was asked for, for_owner with
\* an owner.
RightOnesCalled == [][\A i \in Iterators :
  pc[i] \in {"visit", "callOwner"} /\ pc'[i] = "end" =>
    LET wanted == IF pc[i] = "callOwner" THEN Owners
                  ELSE IF asked[i] = NoUser THEN Users ELSE {asked[i]}
    IN  /\ wanted \intersect steady[i] \subseteq called'[i]
        /\ called'[i] \subseteq wanted \intersect present[i]]_vars

-----------------------------------------------------------------------------
(* What one would expect, and the code does not keep: see README.md.       *)

\* No user is called that was freed, no link of such a user is used: the
\* iterations see connected users only.
NoFreedUser == ~fault

\* A thread that writes to the broadcast socket, or asks for a user, is done
\* some time.
WriteReturns == \A i \in Iterators : pc[i] # "idle" ~> pc[i] = "idle" \/ fault
=============================================================================

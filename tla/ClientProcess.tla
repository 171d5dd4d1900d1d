--------------------------- MODULE ClientProcess ----------------------------
(***************************************************************************)
(* The client process (GuacClientProcess, GuacClientUser): it reads its    *)
(* parameters from the command channel, loads the plugin of the protocol   *)
(* and then adds and removes users as the service asks it to.  Every user  *)
(* has a thread; the vector m_ClientUsers is shared by them and the main   *)
(* thread.  The service's end of the channel is SendClientParams and the   *)
(* commands of GuacClientProcessHandler.                                   *)
(*                                                                         *)
(* A reference into the vector is modelled by its index, since erase moves *)
(* the later elements down.  Use of a freed user, of a socket that was set *)
(* to null or of an index past the end is a fault.                         *)
(***************************************************************************)
EXTENDS Naturals, Sequences, FiniteSets, SequencesExt

CONSTANTS
  Users,       \* the users that the service may add, by their tag
  Configs      \* the configurations of the service: is there a file log, and
               \* the size of the name of its folder

ASSUME ConfigsAssumption == Configs \subseteq [fileLog : BOOLEAN, size : Nat]

VARIABLES
  config,
  toSend,      \* the parameters the service has not written yet
  channel,     \* the command channel, message by message
  added,       \* the users that ADD was sent for
  gone,        \* the users whose connection has gone: REMOVE may be sent
  removed,     \* the users that REMOVE was sent for
  main,        \* where the main thread is
  params,      \* what it has taken for each of the parameters
  slot,        \* the element of m_ClientUsers that RemoveUser refers to
  subject,     \* the user it adds, removes or joins
  m_ClientUsers,
  user,        \* where the thread of each user is
  ownerFlag,   \* the users with their "owner" flag set
  m_bIsRunning, \* of every user
  aborted,     \* the users that AbortUser was called for
  place,       \* the index at which the thread of a user found itself
  fault

sendVars == <<config, toSend, channel, added, gone, removed>>
mainVars == <<main, params, slot, subject>>
userVars == <<m_ClientUsers, user, ownerFlag, m_bIsRunning, aborted, place>>
vars == <<sendVars, mainVars, userVars, fault>>

ChannelSize == 2  \* GUAC_SHARED_MEMORY_GLOBAL_QUEUE_SIZE, messages of a packet

\* A message that is a parameter, and a command.
Param(what) == [kind |-> what, user |-> {}]
Command(what, u) == [kind |-> what, user |-> {u}]
Stop == [kind |-> "STOP", user |-> {}]

\* What is written for the log: nothing if its size is 0.  Without a file log
\* it is "NO_LOG", in the size of the name of the folder.
LogParam(c) == IF c.size = 0 THEN <<>>
               ELSE <<Param(IF c.fileLog THEN "folder"
                            ELSE IF c.size = 6 THEN "NO_LOG" ELSE "cut")>>

\* The parameters that the process reads, in this order.
Reading == {"readLog", "readProtocol", "readLibrary", "readFPS"}

Init ==
  /\ config \in Configs
  /\ toSend = LogParam(config) \o <<Param("protocol"), Param("library"), Param("fps")>>
  /\ channel = <<>>
  /\ added = {} /\ gone = {} /\ removed = {}
  /\ main = "readLog"
  /\ params = [label \in Reading |-> "none"]
  /\ slot = 0
  /\ subject = {}
  /\ m_ClientUsers = <<>>
  /\ user = [u \in Users |-> "none"]
  /\ ownerFlag = {}
  /\ m_bIsRunning = [u \in Users |-> FALSE]
  /\ aborted = {}
  /\ place = [u \in Users |-> 0]
  /\ fault = "none"

-----------------------------------------------------------------------------
(* The service.                                                            *)
Send(message) == Len(channel) < ChannelSize /\ channel' = Append(channel, message)

SendParam ==
  /\ toSend # <<>>
  /\ Send(Head(toSend))
  /\ toSend' = Tail(toSend)
  /\ UNCHANGED <<config, added, gone, removed, mainVars, userVars, fault>>

SendAdd(u) ==
  /\ toSend = <<>> /\ u \notin added
  /\ Send(Command("ADD", u))
  /\ added' = added \union {u}
  /\ UNCHANGED <<config, toSend, gone, removed, mainVars, userVars, fault>>

(* A client goes away, or its user is done in the client process.          *)
ClientGoes(u) ==
  /\ u \in added \ gone
  /\ gone' = gone \union {u}
  /\ UNCHANGED <<config, toSend, channel, added, removed, mainVars, userVars, fault>>

SendRemove(u) ==
  /\ u \in gone \ removed
  /\ Send(Command("REMOVE", u))
  /\ removed' = removed \union {u}
  /\ UNCHANGED <<config, toSend, added, gone, mainVars, userVars, fault>>

SendStop ==
  /\ toSend = <<>>
  /\ Send(Stop)
  /\ UNCHANGED <<config, toSend, added, gone, removed, mainVars, userVars, fault>>

-----------------------------------------------------------------------------
(* StartClientProcess: the parameters, each after a select.                *)
\* What is done after a parameter was read.
MutantAfter(label) == CASE label = "readLog" -> "readProtocol"
                        [] label = "readProtocol" -> "load"
                        [] label = "readLibrary" -> "load"
                        [] label = "readFPS" -> "wait"
After(label) == CASE label = "readLog" -> "readProtocol"
                  [] label = "readProtocol" -> "readLibrary"
                  [] label = "readLibrary" -> "load"
                  [] label = "readFPS" -> "wait"

ReadParam ==
  /\ main \in Reading /\ channel # <<>>
  /\ params' = [params EXCEPT ![main] = Head(channel).kind]
  /\ channel' = Tail(channel)
  /\ main' = After(main)
  /\ UNCHANGED <<config, toSend, added, gone, removed, slot, subject, userVars,
                 fault>>

(* exit(1): nothing came in time, or the plugin cannot be loaded.          *)
ReadTimeout ==
  /\ main \in Reading /\ channel = <<>>
  /\ main' = "exit"
  /\ UNCHANGED <<sendVars, params, slot, subject, userVars, fault>>

LoadPlugin ==
  /\ main = "load"
  /\ main' = "readFPS"
  /\ UNCHANGED <<sendVars, params, slot, subject, userVars, fault>>

LoadFails ==
  /\ main = "load"
  /\ main' = "exit"
  /\ UNCHANGED <<sendVars, params, slot, subject, userVars, fault>>

-----------------------------------------------------------------------------
(* HandleCommand.                                                          *)
Receive(kind) ==
  /\ main = "wait" /\ channel # <<>> /\ Head(channel).kind = kind
  /\ channel' = Tail(channel)
  /\ subject' = Head(channel).user
  /\ UNCHANGED <<config, toSend, added, gone, removed, params>>

\* Every user is an owner.
MutantOwnsAlways(u) == TRUE
\* A user is the owner if there are no others.
IsOwner(u) == m_ClientUsers = <<>>

(* AddUser starts the thread of the user ...                               *)
AddUser ==
  /\ Receive("ADD")
  /\ \E u \in subject' :
       /\ user' = [user EXCEPT ![u] = "handshake"]
       /\ ownerFlag' = IF IsOwner(u) THEN ownerFlag \union {u} ELSE ownerFlag
  /\ main' = "push"
  /\ UNCHANGED <<slot, m_ClientUsers, m_bIsRunning, aborted, place, fault>>

(* ... and puts the user into the vector.                                  *)
PushUser ==
  /\ main = "push"
  /\ \E u \in subject : m_ClientUsers' = Append(m_ClientUsers, u)
  /\ main' = "wait"
  /\ UNCHANGED <<sendVars, params, slot, subject, user, ownerFlag, m_bIsRunning,
                 aborted, place, fault>>

(* RemoveUser looks for the user, whatever else is done to the vector ...  *)
FindUser ==
  /\ Receive("REMOVE")
  /\ LET found == {i \in DOMAIN m_ClientUsers : m_ClientUsers[i] \in subject'}
     IN IF found = {} THEN main' = "wait" /\ UNCHANGED slot
        ELSE main' = "abort" /\ slot' \in found
  /\ UNCHANGED <<userVars, fault>>

\* The reference to the element is valid.
Refers == slot \in DOMAIN m_ClientUsers

(* ... AbortUser resets its socket ...                                     *)
AbortUser ==
  /\ main = "abort" /\ Refers
  /\ LET u == m_ClientUsers[slot]
     IN /\ user[u] \in {"handshake", "start", "io", "stop", "leave"}
        /\ m_bIsRunning' = [m_bIsRunning EXCEPT ![u] = FALSE]
        /\ aborted' = aborted \union {u}
  /\ main' = "join"
  /\ UNCHANGED <<sendVars, params, slot, subject, m_ClientUsers, user, ownerFlag,
                 place, fault>>

(* ... and the thread the reference has now is waited for.                 *)
JoinUser ==
  /\ main = "join" /\ Refers
  /\ subject' = {m_ClientUsers[slot]}
  /\ main' = "joining"
  /\ UNCHANGED <<sendVars, params, slot, userVars, fault>>

Joined ==
  /\ main = "joining"
  /\ \A u \in subject : user[u] = "done"
  /\ main' = "wait"
  /\ UNCHANGED <<sendVars, params, slot, subject, userVars, fault>>

(* STOP: exit(1).                                                          *)
StopProcess ==
  /\ Receive("STOP")
  /\ main' = "exit"
  /\ UNCHANGED <<slot, userVars, fault>>

-----------------------------------------------------------------------------
(* The thread of a user.                                                   *)
UserGoto(u, label) == user' = [user EXCEPT ![u] = label]

(* SendClientArgs and PerformHandshake, which calls guac_client_add_user,  *)
(* succeed or not. They write to the ring of the client, which may be full *)
(* for ever once that is gone, and take the lock of the users: a thread    *)
(* may never come to the end of this step (no step of a user is fair).     *)
Handshake(u) ==
  /\ user[u] = "handshake"
  /\ \/ UserGoto(u, "start")
     \/ UserGoto(u, "free")
  /\ UNCHANGED <<sendVars, mainVars, m_ClientUsers, ownerFlag, m_bIsRunning,
                 aborted, place, fault>>

(* IOThread says that the user is running ...                              *)
StartIO(u) ==
  /\ user[u] = "start"
  /\ m_bIsRunning' = [m_bIsRunning EXCEPT ![u] = TRUE]
  /\ UserGoto(u, "io")
  /\ UNCHANGED <<sendVars, mainVars, m_ClientUsers, ownerFlag, aborted, place, fault>>

(* ... and ends when it was aborted, at an error or since its client is    *)
(* silent.                                                                 *)
EndIO(u) ==
  /\ user[u] = "io"
  /\ UserGoto(u, "stop")
  /\ UNCHANGED <<sendVars, mainVars, m_ClientUsers, ownerFlag, m_bIsRunning,
                 aborted, place, fault>>

(* StopUser resets the rings, clears the flag and writes "disconnect" ...  *)
StopUser(u) ==
  /\ user[u] = "stop"
  /\ m_bIsRunning' = [m_bIsRunning EXCEPT ![u] = FALSE]
  /\ UserGoto(u, "leave")
  /\ UNCHANGED <<sendVars, mainVars, m_ClientUsers, ownerFlag, aborted, place, fault>>

(* ... and calls guac_client_remove_user, which waits for the lock of the  *)
(* users, before the socket is freed. An iteration that is blocked on a    *)
(* full ring (Broadcast) can keep a thread before this step for ever.      *)
LeaveClient(u) ==
  /\ user[u] = "leave"
  /\ UserGoto(u, "free")
  /\ UNCHANGED <<sendVars, mainVars, m_ClientUsers, ownerFlag, m_bIsRunning,
                 aborted, place, fault>>

(* guac_user_free                                                          *)
FreeUser(u) ==
  /\ user[u] = "free"
  /\ UserGoto(u, "find")
  /\ UNCHANGED <<sendVars, mainVars, m_ClientUsers, ownerFlag, m_bIsRunning,
                 aborted, place, fault>>

(* The thread looks for the user in the vector ...                         *)
FindItself(u) ==
  /\ user[u] = "find"
  /\ LET found == {i \in DOMAIN m_ClientUsers : m_ClientUsers[i] = u}
     IN IF found = {} THEN UserGoto(u, "done") /\ UNCHANGED place
        ELSE /\ \E i \in found : place' = [place EXCEPT ![u] = i]
             /\ UserGoto(u, "erase")
  /\ UNCHANGED <<sendVars, mainVars, m_ClientUsers, ownerFlag, m_bIsRunning,
                 aborted, fault>>

(* ... and, with m_ClientUsersMutex, erases what is at that place now.     *)
Erase(u) ==
  /\ user[u] = "erase" /\ place[u] \in DOMAIN m_ClientUsers
  /\ m_ClientUsers' = RemoveAt(m_ClientUsers, place[u])
  /\ UserGoto(u, "done")
  /\ UNCHANGED <<sendVars, mainVars, ownerFlag, m_bIsRunning, aborted, place, fault>>

-----------------------------------------------------------------------------
(* Undefined behaviour.                                                    *)
UsesFreed ==
  /\ main = "abort" /\ Refers
  /\ user[m_ClientUsers[slot]] \notin {"handshake", "start", "io", "stop", "leave"}
  /\ fault' = "freed user"
  /\ UNCHANGED <<sendVars, mainVars, userVars>>

UsesMoved ==
  /\ main \in {"abort", "join"} /\ ~Refers
  /\ fault' = "moved element"
  /\ UNCHANGED <<sendVars, mainVars, userVars>>

ErasesEnd(u) ==
  /\ user[u] = "erase" /\ place[u] \notin DOMAIN m_ClientUsers
  /\ fault' = "erased end"
  /\ UNCHANGED <<sendVars, mainVars, userVars>>

Service == \/ SendParam \/ SendStop
           \/ \E u \in Users : SendAdd(u) \/ ClientGoes(u) \/ SendRemove(u)

Main == \/ ReadParam \/ LoadPlugin \/ LoadFails \/ ReadTimeout
        \/ AddUser \/ PushUser \/ FindUser \/ AbortUser \/ JoinUser \/ Joined
        \/ StopProcess \/ UsesFreed \/ UsesMoved

User(u) == \/ Handshake(u) \/ StartIO(u) \/ StopUser(u) \/ LeaveClient(u) \/ FreeUser(u)
           \/ FindItself(u) \/ Erase(u) \/ ErasesEnd(u)

Next ==
  /\ fault = "none" /\ main # "exit"
  /\ Service \/ Main \/ \E u \in Users : User(u) \/ EndIO(u)

Spec == Init /\ [][Next]_vars

-----------------------------------------------------------------------------
\* The types of the variables.
TypeOK ==
  /\ config \in Configs
  /\ Len(toSend) <= 4 /\ Len(channel) <= ChannelSize
  /\ removed \subseteq gone /\ gone \subseteq added /\ added \subseteq Users
  /\ main \in Reading \union {"load", "wait", "push", "abort", "join", "joining", "exit"}
  /\ DOMAIN params = Reading /\ slot \in Nat /\ subject \subseteq Users
  /\ m_ClientUsers \in Seq(Users)
  /\ user \in [Users -> {"none", "handshake", "start", "io", "stop", "leave",
                         "free", "find", "erase", "done"}]
  /\ ownerFlag \subseteq Users /\ aborted \subseteq Users
  /\ m_bIsRunning \in [Users -> BOOLEAN] /\ place \in [Users -> Nat]
  /\ fault \in {"none", "freed user", "moved element", "erased end"}

\* The users that exist.
Existing == {u \in Users : user[u] \notin {"none", "find", "erase", "done"}}

\* At any time at most one user that exists is an owner, although the vector,
\* from which the owner is found, is changed by every thread, the wrong
\* element may be erased and a user may be freed before it is put in.
OneOwner == TypeOK /\ Cardinality(ownerFlag \intersect Existing) <= 1

\* Every parameter is taken for what the service sent it as.
ParamsInPlace ==
  /\ params.readLog \in {"none", "folder", "NO_LOG"}
  /\ params.readProtocol \in {"none", "protocol"}
  /\ params.readLibrary \in {"none", "library"}
  /\ params.readFPS \in {"none", "fps"}

-----------------------------------------------------------------------------
(* What one would expect, and the code does not keep: see README.md.       *)

\* Without a file log in the configuration, the process has none.
NoUnwantedLog == ~config.fileLog => params.readLog \in {"none", "NO_LOG"}

\* A user whose thread is over is not in the vector any more.
DoneNotListed == \A u \in Users :
  user[u] = "done" => ~(main # "push" /\ \E i \in DOMAIN m_ClientUsers : m_ClientUsers[i] = u)

\* "Stop the user, will be removed by the user thread" (GuacClientProcess.cpp:292):
\* a user that was aborted does not run afterwards.
AbortedStops == \A u \in aborted : ~m_bIsRunning[u]

\* The user that is aborted exists and so does its socket.
AbortsExisting == fault # "freed user"

\* RemoveUser waits for the thread of the user that it stopped (line 294).
JoinsAborted == main = "joining" => subject \subseteq aborted
=============================================================================

------------------------------ MODULE Sessions ------------------------------
(***************************************************************************)
(* The service: connections, the client processes they start or join, and  *)
(* how both are taken down (GuacConnection, GuacConnectionHandler,         *)
(* GuacClientProcessHandler, GuacClientProcessHandlerMap).                 *)
(*                                                                         *)
(* Every accepted connection has a thread that runs HandleNewConnection    *)
(* from beginning to end, and a read thread while its bytes are passed on. *)
(* The code also starts detached threads: one per failed connection, one   *)
(* per dropped connection, one per stopped process, one per user that left.*)
(* A step is what a thread does under a mutex, or up to the next access to *)
(* something that other threads change.                                    *)
(*                                                                         *)
(* Memory that is used after it was deleted, or through a pointer that is  *)
(* null or was never set, is undefined behaviour: the step records a fault *)
(* and nothing is said of what follows.                                    *)
(***************************************************************************)
EXTENDS Naturals, Sequences, FiniteSets

CONSTANTS
  Conns,        \* the connections clients make
  Handlers,     \* the GuacClientProcessHandlers the service may create
  NoHandler,    \* a null m_ClientProcessHandler
  Unset,        \* an m_ClientProcessHandler that was never written
  Joiners       \* those whose clients may select a session by its id

ASSUME HandlerAssumption ==
  NoHandler \notin Handlers /\ Unset \notin Handlers /\ NoHandler # Unset
ASSUME JoinersAssumption == Joiners \subseteq Conns

VARIABLES
  \* per connection
  pc,           \* where its thread is
  new,          \* its thread created the process
  handler,      \* m_ClientProcessHandler
  found,        \* the handler that GetClientProcess is about to return
  running,      \* m_IsGuacConnectionRunning
  owner,        \* bOwner of its IOThread
  reader,       \* its read thread: "off", "loop" or "deref"
  socket,       \* m_ConnectionSocket: "open", "closed" by the client, "freed"
  \* GuacConnectionHandler
  list,         \* m_GuacConnections
  failures,     \* detached threads of FinishOnFailure
  dropped,      \* detached threads of OnClientProcessRemoved
  \* per process handler
  map,          \* the handlers in the GuacClientProcessHandlerMap
  deleted,      \* the handlers that were deleted
  child,        \* m_ClientChildProcess: "null", "running" or "ended"
  channel,      \* m_ShmSocket is not null
  processRunning,  \* m_bIsProcessRunning
  vecConnections,  \* m_vecConnections
  clearers,     \* detached threads of StopProcess
  removers,     \* detached threads of CleanupUserIO
  \* the child process and what it reads
  commands,     \* m_ShmSocket, packet by packet: its kind and connection
  hung,         \* the children whose main thread waits for a user for ever
  users,        \* the connections with a user in the child that goes on
  mail,         \* the connections that the last message of their user waits for
  fault         \* the kind of undefined behaviour that was reached

ioVars == <<owner, reader, socket>>
connVars == <<pc, new, handler, found, running, ioVars>>
listVars == <<list, failures, dropped>>
processVars == <<child, channel, processRunning>>
childVars == <<hung, users, mail>>
ringVars == <<commands, childVars>>
handlerVars ==
  <<map, deleted, processVars, vecConnections, clearers, removers, ringVars>>
vars == <<connVars, listVars, handlerVars, fault>>

Init ==
  /\ pc = [c \in Conns |-> "idle"]
  /\ new = [c \in Conns |-> FALSE]
  /\ handler \in [Conns -> {NoHandler, Unset}]
  /\ found = [c \in Conns |-> NoHandler]
  /\ running = [c \in Conns |-> FALSE]
  /\ owner = [c \in Conns |-> FALSE]
  /\ reader = [c \in Conns |-> "off"]
  /\ socket = [c \in Conns |-> "open"]
  /\ list = {} /\ failures = {} /\ dropped = {}
  /\ map = {} /\ deleted = {}
  /\ child = [h \in Handlers |-> "null"]
  /\ channel = [h \in Handlers |-> FALSE]
  /\ processRunning = [h \in Handlers |-> FALSE]
  /\ vecConnections = [h \in Handlers |-> {}]
  /\ clearers = {} /\ removers = {}
  /\ commands = [h \in Handlers |-> <<>>]
  /\ hung = {} /\ users = {} /\ mail = {}
  /\ fault = "none"

Goto(c, label) == pc' = [pc EXCEPT ![c] = label]

\* The handler of c has not been deleted.
Lives(c) == handler[c] \notin deleted

\* The object of connection c exists: the list, its own thread or the thread
\* that drops it refers to it.
Exists(c) == c \in list \/ pc[c] \notin {"idle", "done"} \/ c \in dropped

RingSize == 2  \* GUAC_SHARED_MEMORY_GLOBAL_QUEUE_SIZE, commands of a packet

\* guac_socket_write to the child of h comes to its end when there is room,
\* and tries again for ever while there is none.
Room(h) == Len(commands[h]) < RingSize
Write(h, kind, c) ==
  /\ Room(h)
  /\ commands' = [commands EXCEPT ![h] = Append(@, <<kind, c>>)]
  /\ UNCHANGED childVars

-----------------------------------------------------------------------------
(* HandleNewConnection: the connection is listed and started.              *)
Accept(c) ==
  /\ pc[c] = "idle"
  /\ list' = list \union {c}
  /\ Goto(c, "select")
  /\ UNCHANGED <<new, handler, found, running, ioVars, failures, dropped,
                 handlerVars, fault>>

(* No select instruction arrives: FinishOnFailure.                         *)
SelectFails(c) ==
  /\ pc[c] = "select"
  /\ failures' = failures \union {c}
  /\ Goto(c, "done")
  /\ UNCHANGED <<new, handler, found, running, ioVars, list, dropped,
                 handlerVars, fault>>

(* select <protocol>: CreateProcessHandler puts a new handler in the map.  *)
SelectProtocol(c) ==
  /\ pc[c] = "select"
  /\ \E h \in Handlers \ (map \union deleted) :
       /\ \A d \in Conns : found[d] # h
       /\ map' = map \union {h}
       /\ found' = [found EXCEPT ![c] = h]
  /\ new' = [new EXCEPT ![c] = TRUE]
  /\ Goto(c, "found")
  /\ UNCHANGED <<handler, running, ioVars, listVars, deleted, processVars,
                 vecConnections, clearers, removers, ringVars, fault>>

\* The id of a handler in the map, and the id that the client process of a
\* handler makes up for itself and announces to its users.
HandlerID(h) == <<"service", h>>
AnnouncedID(h) == <<"process", h>>

\* RetrieveProcessHandler: what it can return.
Retrieved(id) == LET same == {h \in map : HandlerID(h) = id}
                 IN  IF same = {} THEN {NoHandler} ELSE same

(* select <id>: the session with that id is looked up.                     *)
SelectSession(c) ==
  /\ pc[c] = "select" /\ c \in Joiners
  /\ \E h \in Handlers : \E id \in {HandlerID(h), AnnouncedID(h)} :
       \E r \in Retrieved(id) : found' = [found EXCEPT ![c] = r]
  /\ Goto(c, "found")
  /\ UNCHANGED <<new, handler, running, ioVars, listVars, handlerVars, fault>>

(* The connection gets its handler; without one it is a failure.           *)
Assign(c) ==
  /\ pc[c] = "found"
  /\ handler' = [handler EXCEPT ![c] = found[c]]
  /\ IF found[c] = NoHandler
     THEN Goto(c, "done") /\ failures' = failures \union {c}
     ELSE Goto(c, "assigned") /\ UNCHANGED failures
  /\ UNCHANGED <<new, found, running, ioVars, list, dropped, handlerVars,
                 fault>>

(* The connection is running: from now on it can be stopped.               *)
SetRunning(c) ==
  /\ pc[c] = "assigned"
  /\ running' = [running EXCEPT ![c] = TRUE]
  /\ Goto(c, IF new[c] THEN "start" ELSE "enter")
  /\ UNCHANGED <<new, handler, found, ioVars, listVars, handlerVars, fault>>

-----------------------------------------------------------------------------
(* RunProcess: the child process and its command channel are created ...   *)
Launch(c) ==
  /\ pc[c] = "start"
  /\ child' = [child EXCEPT ![handler[c]] = "running"]
  /\ channel' = [channel EXCEPT ![handler[c]] = TRUE]
  /\ Goto(c, "launched")
  /\ UNCHANGED <<new, handler, found, running, ioVars, listVars, map, deleted,
                 processRunning, vecConnections, clearers, removers, ringVars,
                 fault>>

(* ... or not: no process, or no channel and the process is terminated.    *)
LaunchFails(c) ==
  /\ pc[c] = "start"
  /\ \E s \in {"null", "ended"} : child' = [child EXCEPT ![handler[c]] = s]
  /\ Goto(c, "stopped")
  /\ UNCHANGED <<new, handler, found, running, ioVars, listVars, map, deleted,
                 channel, processRunning, vecConnections, clearers, removers,
                 ringVars, fault>>

(* The child runs, or it has ended already.                                *)
Launched(c) ==
  /\ pc[c] = "launched"
  /\ IF child[handler[c]] = "running"
     THEN Goto(c, "folder") /\ UNCHANGED child
     ELSE /\ child' = [child EXCEPT ![handler[c]] = "null"]
          /\ Goto(c, "stopped")
  /\ UNCHANGED <<new, handler, found, running, ioVars, listVars, map, deleted,
                 channel, processRunning, vecConnections, clearers, removers,
                 ringVars, fault>>

\* SendClientParams: the thread writes these, a packet each, and goes on.
Params == {"folder", "protocol", "libraries", "fps"}
AfterParam(label) == CASE label = "folder" -> "protocol"
                       [] label = "protocol" -> "libraries"
                       [] label = "libraries" -> "fps"
                       [] label = "fps" -> "enter"

(* It is not asked again whether the child runs; with the last parameter   *)
(* the process has started.                                                *)
SendParam(c) ==
  /\ pc[c] \in Params
  /\ Write(handler[c], "param", c)
  /\ processRunning' = [processRunning EXCEPT ![handler[c]] = @ \/ pc[c] = "fps"]
  /\ Goto(c, AfterParam(pc[c]))
  /\ UNCHANGED <<new, handler, found, running, ioVars, listVars, map, deleted,
                 child, channel, vecConnections, clearers, removers, fault>>

-----------------------------------------------------------------------------
(* StartConnectionUser: the first connection of a handler is its owner ... *)
Enter(c) ==
  /\ pc[c] = "enter" /\ Lives(c)
  /\ owner' = [owner EXCEPT ![c] = vecConnections[handler[c]] = {}]
  /\ Goto(c, "push")
  /\ UNCHANGED <<new, handler, found, running, reader, socket, listVars,
                 handlerVars, fault>>

(* ... every connection is saved ...                                       *)
Push(c) ==
  /\ pc[c] = "push" /\ Lives(c)
  /\ vecConnections' = [vecConnections EXCEPT ![handler[c]] = @ \union {c}]
  /\ Goto(c, "add")
  /\ UNCHANGED <<new, handler, found, running, ioVars, listVars, map, deleted,
                 processVars, clearers, removers, ringVars, fault>>

(* ... and IOThread tells the child about it, unless the shared memory for *)
(* the user cannot be made.                                                *)
Add(c) ==
  /\ pc[c] = "add" /\ Lives(c)
  /\ \/ /\ channel[handler[c]]
        /\ Write(handler[c], "ADD", c)
        /\ reader' = [reader EXCEPT ![c] = "loop"]
        /\ Goto(c, "loop")
     \/ Goto(c, "left") /\ UNCHANGED <<reader, ringVars>>
  /\ UNCHANGED <<new, handler, found, running, owner, socket, listVars, map,
                 deleted, processVars, vecConnections, clearers, removers, fault>>

(* The condition of the write loop reads m_bIsProcessRunning ...           *)
WriteLoop(c) ==
  /\ pc[c] = "loop" /\ Lives(c)
  /\ Goto(c, IF processRunning[handler[c]] THEN "deref" ELSE "joining")
  /\ UNCHANGED <<new, handler, found, running, ioVars, listVars, handlerVars,
                 fault>>

(* ... and then the child and the connection.                              *)
WriteDeref(c) ==
  /\ pc[c] = "deref" /\ Lives(c) /\ child[handler[c]] # "null"
  /\ Goto(c, IF child[handler[c]] = "running" /\ running[c]
             THEN "reading" ELSE "joining")
  /\ UNCHANGED <<new, handler, found, running, ioVars, listVars, handlerVars,
                 fault>>

(* The client sent something that is passed on to its user in the child,   *)
(* whose ring can be full if it does not read.                             *)
ReadData(c) ==
  /\ pc[c] = "reading" /\ socket[c] = "open"
  /\ \/ Goto(c, "loop")
     \/ (c \notin users \/ reader[c] = "off") /\ Goto(c, "writing")
  /\ UNCHANGED <<new, handler, found, running, ioVars, listVars, handlerVars,
                 fault>>

(* The user reads on.                                                      *)
DataWritten(c) ==
  /\ pc[c] = "writing" /\ c \in users
  /\ Goto(c, "loop")
  /\ UNCHANGED <<new, handler, found, running, ioVars, listVars, handlerVars,
                 fault>>

\* Errors of the read are not looked at.
MutantReadsOn(c) ==
  /\ pc[c] = "reading" /\ socket[c] = "closed"
  /\ Goto(c, "loop")
  /\ UNCHANGED <<new, handler, found, running, ioVars, listVars, handlerVars,
                 fault>>

(* The read fails since the socket is closed: the ring of the user is      *)
(* emptied, what waits for the read thread included, and the write loop is *)
(* left.                                                                   *)
ReadError(c) ==
  /\ pc[c] = "reading" /\ socket[c] = "closed"
  /\ mail' = mail \ {c}
  /\ Goto(c, "joining")
  /\ UNCHANGED <<new, handler, found, running, ioVars, listVars, map, deleted,
                 processVars, vecConnections, clearers, removers, commands,
                 hung, users, fault>>

(* The read thread: the same condition, without the connection.            *)
ReaderLoop(c) ==
  /\ reader[c] = "loop" /\ Lives(c)
  /\ reader' = [reader EXCEPT ![c] =
                  IF processRunning[handler[c]] THEN "deref" ELSE "off"]
  /\ UNCHANGED <<pc, new, handler, found, running, owner, socket, listVars,
                 handlerVars, fault>>

(* ... nothing has come from the child, or it is passed on ...             *)
ReaderDeref(c) ==
  /\ reader[c] = "deref" /\ Lives(c) /\ child[handler[c]] # "null"
  /\ IF child[handler[c]] = "running"
     THEN /\ c \in mail => socket[c] = "open"
          /\ reader' = [reader EXCEPT ![c] = "loop"]
          /\ mail' = mail \ {c}
     ELSE reader' = [reader EXCEPT ![c] = "off"] /\ UNCHANGED mail
  /\ UNCHANGED <<pc, new, handler, found, running, owner, socket, listVars,
                 map, deleted, processVars, vecConnections, clearers, removers,
                 commands, hung, users, fault>>

(* ... or cannot be written: the ring is emptied, the read thread ends.    *)
ReaderError(c) ==
  /\ reader[c] = "deref" /\ Lives(c) /\ child[handler[c]] = "running"
  /\ c \in users \union mail /\ socket[c] = "closed"
  /\ reader' = [reader EXCEPT ![c] = "off"]
  /\ mail' = mail \ {c}
  /\ UNCHANGED <<pc, new, handler, found, running, owner, socket, listVars,
                 map, deleted, processVars, vecConnections, clearers, removers,
                 commands, hung, users, fault>>

\* The read thread is left alone.
MutantNoJoin(c) ==
  /\ pc[c] = "joining"
  /\ Goto(c, "cleanup")
  /\ UNCHANGED <<new, handler, found, running, ioVars, listVars, handlerVars,
                 fault>>

(* IOThread waits for its read thread.                                     *)
JoinReader(c) ==
  /\ pc[c] = "joining" /\ reader[c] = "off"
  /\ Goto(c, "cleanup")
  /\ UNCHANGED <<new, handler, found, running, ioVars, listVars, handlerVars,
                 fault>>

(* CleanupUserIO: while the child runs, an owner stops it and another user *)
(* is taken from it by a detached thread.                                  *)
Cleanup(c) ==
  /\ pc[c] = "cleanup" /\ Lives(c) /\ child[handler[c]] # "null"
  /\ LET runs == child[handler[c]] = "running"
     IN  /\ Goto(c, IF runs /\ owner[c] THEN "stopOwn" ELSE "left")
         /\ removers' = IF runs /\ ~owner[c] THEN removers \union {c}
                                             ELSE removers
  /\ UNCHANGED <<new, handler, found, running, ioVars, listVars, map, deleted,
                 processVars, vecConnections, clearers, ringVars, fault>>

-----------------------------------------------------------------------------
\* StopProcess runs in CleanupUserIO and again in ConnectionThread; where
\* each of them goes on.
Stopping == {"stopOwn", "stop"}
Telling(label) == IF label = "stopOwn" THEN "sendOwn" ELSE "send"
Waiting(label) == IF label = "sendOwn" THEN "waitOwn" ELSE "wait"
Stopped(label) == IF label \in {"stopOwn", "waitOwn"} THEN "left" ELSE "stopped"

(* StopProcess: a second call does nothing; a child that runs is told to   *)
(* stop ...                                                                *)
StopProcess(c) ==
  /\ pc[c] \in Stopping /\ Lives(c)
  /\ LET h == handler[c]
         runs == child[h] = "running"
     IN  IF processRunning[h]
         THEN /\ processRunning' = [processRunning EXCEPT ![h] = FALSE]
              /\ Goto(c, IF runs THEN Telling(pc[c]) ELSE Stopped(pc[c]))
              /\ clearers' = IF runs THEN clearers ELSE clearers \union {h}
         ELSE /\ Goto(c, Stopped(pc[c]))
              /\ UNCHANGED <<processRunning, clearers>>
  /\ UNCHANGED <<new, handler, found, running, ioVars, listVars, map, deleted,
                 child, channel, vecConnections, removers, ringVars, fault>>

(* ... by a command, whether it runs or not by now.                        *)
SendStop(c) ==
  /\ pc[c] \in {"sendOwn", "send"} /\ Lives(c)
  /\ Write(handler[c], "STOP", c)
  /\ Goto(c, Waiting(pc[c]))
  /\ UNCHANGED <<new, handler, found, running, ioVars, listVars, map, deleted,
                 processVars, vecConnections, clearers, removers, fault>>

\* The wait for the child is left out.
MutantNoWait(c) ==
  /\ pc[c] \in {"waitOwn", "wait"} /\ Lives(c)
  /\ clearers' = clearers \union {handler[c]}
  /\ Goto(c, Stopped(pc[c]))
  /\ UNCHANGED <<new, handler, found, running, ioVars, listVars, map, deleted,
                 processVars, vecConnections, removers, ringVars, fault>>

(* The child has ended: it is deleted, and the connections are forgotten   *)
(* by a detached thread.                                                   *)
StopWait(c) ==
  /\ pc[c] \in {"waitOwn", "wait"} /\ Lives(c)
  /\ child[handler[c]] # "running"
  /\ child' = [child EXCEPT ![handler[c]] = "null"]
  /\ clearers' = clearers \union {handler[c]}
  /\ Goto(c, Stopped(pc[c]))
  /\ UNCHANGED <<new, handler, found, running, ioVars, listVars, map, deleted,
                 channel, processRunning, vecConnections, removers, ringVars,
                 fault>>

(* The connection that made the process stops it when its user has left.   *)
LeaveCreator(c) ==
  /\ pc[c] = "left" /\ new[c]
  /\ Goto(c, "stop")
  /\ UNCHANGED <<new, handler, found, running, ioVars, listVars, handlerVars,
                 fault>>

\* The connection is closed and goes on being listed.
MutantNotErased(c) ==
  /\ pc[c] = "left" /\ ~new[c]
  /\ running' = [running EXCEPT ![c] = FALSE]
  /\ Goto(c, "done")
  /\ UNCHANGED <<new, handler, found, ioVars, listVars, handlerVars, fault>>

(* Any other one calls OnConnectionFailure: it is stopped and erased, if   *)
(* it is still listed.                                                     *)
LeaveJoiner(c) ==
  /\ pc[c] = "left" /\ ~new[c]
  /\ IF c \in list /\ running[c]
     THEN /\ running' = [running EXCEPT ![c] = FALSE]
          /\ socket' = [socket EXCEPT ![c] = "freed"]
     ELSE UNCHANGED <<running, socket>>
  /\ list' = list \ {c}
  /\ Goto(c, "done")
  /\ UNCHANGED <<new, handler, found, owner, reader, failures, dropped,
                 handlerVars, fault>>

(* RemoveProcessHandler takes the handler from the map ...                 *)
RemoveProcess(c) ==
  /\ pc[c] = "stopped"
  /\ running' = [running EXCEPT ![c] = FALSE]
  /\ map' = map \ {handler[c]}
  /\ Goto(c, "removed")
  /\ UNCHANGED <<new, handler, found, ioVars, listVars, deleted, processVars,
                 vecConnections, clearers, removers, ringVars, fault>>

\* The listed connections that OnClientProcessRemoved drops: those of the
\* handler and those that have none yet.
MutantDropsOnlyOwn(h) == {d \in list : handler[d] = h}
Droppable(h) == {d \in list : handler[d] \in {h, NoHandler}}

(* ... and tells the observers, OnClientProcessRemoved.                    *)
Removed(c) ==
  /\ pc[c] = "removed"
  /\ \A d \in list : handler[d] # Unset /\ Lives(d)
  /\ list' = list \ Droppable(handler[c])
  /\ dropped' = dropped \union Droppable(handler[c])
  /\ Goto(c, "delete")
  /\ UNCHANGED <<new, handler, found, running, ioVars, failures, handlerVars,
                 fault>>

(* delete proc                                                             *)
Delete(c) ==
  /\ pc[c] = "delete"
  /\ deleted' = deleted \union {handler[c]}
  /\ Goto(c, "done")
  /\ UNCHANGED <<new, handler, found, running, ioVars, listVars, map,
                 processVars, vecConnections, clearers, removers, ringVars, fault>>

-----------------------------------------------------------------------------
(* The detached thread of a failed connection: OnConnectionFailure; the    *)
(* connection never ran, so it is only erased.                             *)
Failure(c) ==
  /\ c \in failures /\ Exists(c)
  /\ failures' = failures \ {c}
  /\ list' = list \ {c}
  /\ UNCHANGED <<connVars, dropped, handlerVars, fault>>

(* The detached thread of a dropped connection: StopGuacConnection.        *)
Drop(c) ==
  /\ c \in dropped
  /\ dropped' = dropped \ {c}
  /\ IF running[c]
     THEN /\ running' = [running EXCEPT ![c] = FALSE]
          /\ socket' = [socket EXCEPT ![c] = "freed"]
     ELSE UNCHANGED <<running, socket>>
  /\ UNCHANGED <<pc, new, handler, found, owner, reader, list, failures,
                 handlerVars, fault>>

(* The detached thread of a stopped process.                               *)
Clear(h) ==
  /\ h \in clearers /\ h \notin deleted
  /\ clearers' = clearers \ {h}
  /\ vecConnections' = [vecConnections EXCEPT ![h] = {}]
  /\ UNCHANGED <<connVars, listVars, map, deleted, processVars, removers,
                 ringVars, fault>>

(* The detached thread for a user that left: REMOVE is sent to the child.  *)
RemoveUser(c) ==
  /\ c \in removers /\ Lives(c)
  /\ Write(handler[c], "REMOVE", c)
  /\ removers' = removers \ {c}
  /\ vecConnections' = [vecConnections EXCEPT ![handler[c]] = @ \ {c}]
  /\ UNCHANGED <<connVars, listVars, map, deleted, processVars, clearers, fault>>

-----------------------------------------------------------------------------
\* The process of h ends, and with it the threads of its users.
Ends(h) ==
  /\ child' = [child EXCEPT ![h] = "ended"]
  /\ users' = {c \in users : handler[c] # h}

(* A child process fails.                                                  *)
ChildEnds(h) ==
  /\ child[h] = "running"
  /\ Ends(h)
  /\ UNCHANGED <<connVars, listVars, map, deleted, channel, processRunning,
                 vecConnections, clearers, removers, commands, hung, mail, fault>>

(* Its main thread reads the next packet.  A user is added with a thread   *)
(* of its own; one that is removed is waited for, which may take for ever. *)
ChildReads(h) ==
  /\ child[h] = "running" /\ h \notin hung /\ commands[h] # <<>>
  /\ commands' = [commands EXCEPT ![h] = Tail(@)]
  /\ LET kind == Head(commands[h])[1]
         c == Head(commands[h])[2]
     IN  \/ kind = "param" /\ UNCHANGED <<child, users, hung>>
         \/ kind = "ADD" /\ users' = users \union {c} /\ UNCHANGED <<child, hung>>
         \/ kind = "REMOVE" /\ users' = users \ {c} /\ UNCHANGED <<child, hung>>
         \/ /\ kind = "REMOVE" /\ c \in users
            /\ hung' = hung \union {h}
            /\ UNCHANGED <<child, users>>
         \/ kind = "STOP" /\ Ends(h) /\ UNCHANGED hung
  /\ UNCHANGED <<connVars, listVars, map, deleted, channel, processRunning,
                 vecConnections, clearers, removers, mail, fault>>

(* The thread of a user ends: the client said so, was refused or did not   *)
(* send anything for long.  It may leave a last message.                   *)
UserEnds(c) ==
  /\ c \in users
  /\ users' = users \ {c}
  /\ mail' \in {mail, mail \union {c}}
  /\ UNCHANGED <<connVars, listVars, map, deleted, processVars,
                 vecConnections, clearers, removers, commands, hung, fault>>

(* A client closes its connection.                                         *)
ClientCloses(c) ==
  /\ pc[c] # "idle" /\ socket[c] = "open"
  /\ socket' = [socket EXCEPT ![c] = "closed"]
  /\ UNCHANGED <<pc, new, handler, found, running, owner, reader, listVars,
                 handlerVars, fault>>

-----------------------------------------------------------------------------
(* Undefined behaviour, by the access that reaches it.                     *)

\* A thread of a connection goes on with a handler that was deleted.
UsesDeletedHandler(c) ==
  \/ /\ ~Lives(c)
     /\ \/ pc[c] \in {"enter", "push", "add", "loop", "deref", "cleanup",
                      "stopOwn", "sendOwn", "waitOwn"}
        \/ reader[c] # "off"
        \/ c \in removers
\* A thread that was told the process runs finds no child.
UsesNullChild(c) ==
  /\ pc[c] \in {"deref", "cleanup"} \/ reader[c] = "deref"
  /\ Lives(c) /\ child[handler[c]] = "null"
\* The command channel has not been made yet.
UsesNoChannel(c) == pc[c] = "add" /\ Lives(c) /\ ~channel[handler[c]]
\* The socket was closed and freed while the connection used it.
UsesFreedSocket(c) ==
  /\ socket[c] = "freed"
  /\ \/ pc[c] = "reading"
     \/ reader[c] = "deref" /\ c \in users \union mail
\* OnClientProcessRemoved looks at a handler pointer that was never written,
\* or at a handler that was deleted.
UsesListed(c) ==
  pc[c] = "removed" /\ \E d \in list : handler[d] = Unset \/ ~Lives(d)
\* The connection was deleted before its failure was dealt with.
UsesConnection(c) == c \in failures /\ ~Exists(c)
\* The thread that forgets the connections of a process was too late.
ClearsDeleted(h) == h \in clearers /\ h \in deleted

\* The step that reaches it.
Faults(kind) == fault' = kind /\ UNCHANGED <<connVars, listVars, handlerVars>>

ConnFault(c) ==
  \/ UsesDeletedHandler(c) /\ Faults("deleted handler")
  \/ UsesNullChild(c) /\ Faults("null child")
  \/ UsesNoChannel(c) /\ Faults("no channel")
  \/ UsesFreedSocket(c) /\ Faults("freed socket")
  \/ UsesListed(c) /\ Faults("listed handler")
  \/ UsesConnection(c) /\ Faults("deleted connection")

HandlerFault(h) == ClearsDeleted(h) /\ Faults("late clear")

-----------------------------------------------------------------------------
\* What the thread of c does.
Thread(c) ==
  \/ Accept(c) \/ SelectFails(c) \/ SelectProtocol(c) \/ SelectSession(c)
  \/ Assign(c) \/ SetRunning(c) \/ Launch(c) \/ LaunchFails(c) \/ Launched(c)
  \/ SendParam(c) \/ Enter(c) \/ Push(c) \/ Add(c) \/ WriteLoop(c)
  \/ WriteDeref(c) \/ ReadError(c) \/ JoinReader(c) \/ Cleanup(c)
  \/ StopProcess(c) \/ SendStop(c) \/ StopWait(c) \/ LeaveCreator(c)
  \/ LeaveJoiner(c)
  \/ RemoveProcess(c) \/ Removed(c) \/ Delete(c)

Reader(c) == ReaderLoop(c) \/ ReaderDeref(c) \/ ReaderError(c)

Detached == \/ \E c \in Conns : Failure(c) \/ Drop(c) \/ RemoveUser(c)
            \/ \E h \in Handlers : Clear(h)

Next ==
  /\ fault = "none"
  /\ \/ \E c \in Conns : \/ Thread(c) \/ ReadData(c) \/ DataWritten(c)
                         \/ ClientCloses(c) \/ Reader(c) \/ UserEnds(c)
                         \/ ConnFault(c)
     \/ \E h \in Handlers : ChildEnds(h) \/ ChildReads(h) \/ HandlerFault(h)
     \/ Detached

Spec == Init /\ [][Next]_vars

\* Threads keep running, those of a child process too: its main thread reads
\* its commands, and a user reads what its client sent and ends when that has
\* gone.  A process that failed is not bound to.
Fairness ==
  /\ \A c \in Conns :
       /\ WF_vars(/\ fault = "none"
                  /\ \/ pc[c] # "idle" /\ Thread(c)
                     \/ reader[c] # "off" /\ DataWritten(c)
                     \/ ConnFault(c))
       /\ WF_vars(fault = "none" /\ Reader(c))
       /\ WF_vars(fault = "none" /\ socket[c] # "open" /\ UserEnds(c))
  /\ WF_vars(fault = "none" /\ Detached)
  /\ \A h \in Handlers : WF_vars(fault = "none" /\ ChildReads(h))

FairSpec == Spec /\ Fairness

-----------------------------------------------------------------------------
Labels == {"idle", "select", "found", "assigned", "start", "launched", "folder",
           "protocol", "libraries", "fps", "enter", "push", "add", "loop",
           "deref", "reading", "writing", "joining", "cleanup", "stopOwn",
           "sendOwn", "waitOwn", "left", "stop", "send", "wait", "stopped",
           "removed", "delete", "done"}
Commands == {"param", "ADD", "REMOVE", "STOP"} \X Conns

\* The types of the variables.
TypeOK ==
  /\ pc \in [Conns -> Labels] /\ new \in [Conns -> BOOLEAN]
  /\ handler \in [Conns -> Handlers \union {NoHandler, Unset}]
  /\ found \in [Conns -> Handlers \union {NoHandler}]
  /\ running \in [Conns -> BOOLEAN] /\ owner \in [Conns -> BOOLEAN]
  /\ reader \in [Conns -> {"off", "loop", "deref"}]
  /\ socket \in [Conns -> {"open", "closed", "freed"}]
  /\ list \subseteq Conns /\ failures \subseteq Conns /\ dropped \subseteq Conns
  /\ map \subseteq Handlers /\ deleted \subseteq Handlers
  /\ child \in [Handlers -> {"null", "running", "ended"}]
  /\ channel \in [Handlers -> BOOLEAN] /\ processRunning \in [Handlers -> BOOLEAN]
  /\ vecConnections \in [Handlers -> SUBSET Conns]
  /\ clearers \subseteq Handlers /\ removers \subseteq Conns
  /\ commands \in [Handlers -> Seq(Commands)] /\ hung \subseteq Handlers
  /\ users \subseteq Conns /\ mail \subseteq Conns

\* No handler that can be looked up was deleted, nor one of a listed
\* connection, although connections join while a handler is taken down:
\* OnClientProcessRemoved, which asks every listed connection for the id of
\* its handler, can do so.
ListedLives ==
  /\ TypeOK
  /\ map \intersect deleted = {}
  /\ \A c \in list : Lives(c)

\* A connection whose thread is through is not listed any more.
NoneLeft == \A c \in list \ failures : pc[c] # "done"

\* Some other connection than the one that made h joined it.
Shared(h) == \E c \in Conns : ~new[c] /\ found[c] = h

\* No child process goes on without a handler, unless the session was shared:
\* the thread of its connection stops the child and waits for its end before
\* it deletes the handler, whatever failed before.
NoOrphan == \A h \in deleted : child[h] = "running" => Shared(h)

\* A connection, its reader included, is done with the handler, its child and
\* its channel before the handler is deleted, unless the session was shared.
AloneInOrder == fault \in {"deleted handler", "null child", "no channel"} =>
  \E h \in Handlers : Shared(h)

\* Nobody reads the commands for the child of h any more.
Deaf(h) == child[h] # "running" \/ h \in hung

\* The thread of c waits for somebody who has gone: a packet of commands or of
\* data does not fit into a ring that is not read, the read thread is to end
\* while nothing comes that it could fail to write, or the child cannot read
\* that it has to stop.
Waits(c) ==
  LET h == handler[c]
  IN  \/ pc[c] \in Params \union {"add", "sendOwn", "send"} /\ ~Room(h) /\ Deaf(h)
      \/ pc[c] = "writing" /\ (c \notin users \/ reader[c] = "off")
      \/ pc[c] = "joining" /\ reader[c] # "off" /\ c \notin users \union mail
      \/ pc[c] \in {"waitOwn", "wait"} /\ h \in hung

\* A session whose client went away is taken down, its thread comes to the end
\* of ConnectionThread and the reader with it, unless it comes to wait for
\* somebody who has gone.
EndsOrWaits == \A c \in Conns :
  socket[c] = "closed" ~> pc[c] \in {"idle", "done"} \/ Waits(c) \/ fault # "none"

-----------------------------------------------------------------------------
(* What one would expect, and the code does not keep: see README.md.       *)

\* The creator's reference to the handler is the last one: no other
\* connection goes on using it.
NoJoinerLeft == fault # "deleted handler"

\* Nor does a thread that StopProcess started.
NoClearerLeft == fault # "late clear"

\* A session that is joined exists and its process is alive.
JoinedIsAlive == [][\A c \in Conns :
  SelectSession(c) /\ found'[c] # NoHandler => processRunning[found'[c]]]_vars

\* A handler has one owner: its first connection.
OneOwner == \A c, d \in Conns :
  c # d /\ handler[c] = handler[d] => ~(owner[c] /\ owner[d])

\* Only the connections of a handler are dropped with it.
DropsOnlyAssociated == [][\A c, d \in Conns :
  Removed(c) /\ d \in dropped' \ dropped => handler[d] = handler[c]]_vars

\* What OnClientProcessRemoved reads of a listed connection is its handler.
NoUnsetRead == fault # "listed handler"

\* A user that left asks whether the process runs without there being none.
NoNullChild == fault # "null child"

\* A dropped connection is deleted when nobody refers to it any more.
NoConnectionOutlived == fault # "deleted connection"

\* A user whose client went away is stopped completely: its write thread does
\* not wait for its read thread for ever.
UserStops == \A c \in Conns :
  pc[c] = "joining" ~> pc[c] # "joining" \/ fault # "none"

\* The id that a running client process announces is the id of its session.
AnnouncedIsKnown == \A h \in Handlers :
  processRunning[h] /\ child[h] = "running" => Retrieved(AnnouncedID(h)) = {h}
=============================================================================

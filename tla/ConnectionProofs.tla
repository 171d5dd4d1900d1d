-------------------------- MODULE ConnectionProofs --------------------------
(***************************************************************************)
(* A connection.  Its session: how sessions are taken down, for any number *)
(* of connections and handlers: what can be looked up lives, nothing stays *)
(* listed, no child is left over, and a connection alone is done with its  *)
(* session before that is deleted.  What is read from it: the parser       *)
(* returns what was written, for instructions of any size, buffers of any  *)
(* size and bytes that come in any pieces.                                 *)
(***************************************************************************)
EXTENDS Sessions, Parser, SequenceTheorems, WellFoundedInduction, TLAPS

-----------------------------------------------------------------------------
(* The sessions.                                                           *)

\* The thread of c has no handler yet, or never got one.
Before == {"idle", "select"}
\* The thread of c has the handler that was found.
Assigned == Labels \ {"idle", "select", "found", "done"}
\* Only the thread that made the process is here.
Creating == {"start", "launched", "stop", "send", "wait", "stopped", "removed",
             "delete"} \union Params
\* The child was made, and not taken away by the thread of c.
WithChild == {"launched", "enter", "push", "add", "loop", "deref", "reading",
              "writing", "joining", "cleanup", "stopOwn", "sendOwn", "waitOwn"}
             \union Params
\* Nobody has told the child to stop.
Serving == {"enter", "push", "add", "loop", "deref", "reading", "writing",
            "joining", "cleanup", "stopOwn"}
\* c is not in the vector yet.
Unsaved == {"start", "launched", "enter", "push", "assigned"} \union Params

\* What a connection found and was assigned.
FoundInv == \A c \in Conns :
  /\ pc[c] \in Before => found[c] = NoHandler /\ ~new[c]
  /\ pc[c] \in Before \union {"found"} => handler[c] \in {NoHandler, Unset}
  /\ pc[c] \in Assigned => handler[c] = found[c] /\ found[c] \in Handlers
  /\ handler[c] \in Handlers => handler[c] = found[c]
  /\ pc[c] \in Creating => new[c]
  /\ new[c] => found[c] \in Handlers

\* A handler has one creator, whose thread goes on until it is deleted.
CreatorInv ==
  /\ \A c, d \in Conns : new[c] /\ new[d] /\ found[c] = found[d] => c = d
  /\ \A c \in Conns : new[c] => (pc[c] = "done" <=> found[c] \in deleted)
  /\ \A h \in map \union deleted : \E c \in Conns : new[c] /\ found[c] = h

\* The end of a handler: out of the map, then out of the list, then deleted.
DeletionInv ==
  /\ map \intersect deleted = {}
  /\ \A c \in list : found[c] \notin deleted
  /\ \A c \in Conns : pc[c] \in {"removed", "delete"} => handler[c] \notin map
  /\ \A c \in Conns : pc[c] = "delete" =>
       c \notin list /\ \A d \in list : found[d] # found[c]

\* A session that nobody joined.
Alone(c) == new[c] /\ ~Shared(found[c])

\* What the connection that is alone with its session has of it.
HasSession(c) ==
  /\ pc[c] \in WithChild => child[found[c]] # "null" /\ channel[found[c]]
  /\ pc[c] \in Serving => processRunning[found[c]]
  /\ pc[c] \in {"left", "stop"} /\ child[found[c]] = "running" =>
       processRunning[found[c]]
  /\ pc[c] \in {"stopped", "removed", "delete", "done"} =>
       child[found[c]] # "running"
  /\ pc[c] \in WithChild \ (Params \union {"launched", "enter"}) => owner[c]
  /\ c \notin removers

AloneInv == \A c \in Conns : Alone(c) => HasSession(c)

\* The vector holds connections of the handler, after they were pushed.
SavedInv == \A h \in Handlers : \A c \in vecConnections[h] :
  /\ pc[c] \notin Before \union Unsaved \union {"found"}
  /\ found[c] = h

\* The threads beside that of a connection.
BesideInv ==
  /\ \A c \in Conns : reader[c] # "off" =>
       pc[c] \in {"loop", "deref", "reading", "writing", "joining"}
  /\ \A c \in removers : found[c] \in Handlers /\ handler[c] = found[c]

\* The inductive invariant.
IInv == /\ TypeOK /\ FoundInv /\ CreatorInv /\ DeletionInv /\ NoneLeft
        /\ SavedInv /\ BesideInv /\ AloneInv /\ AloneInOrder

\* What a fault leaves as it is.
FaultVars == <<connVars, listVars, handlerVars>>

\* A fault changes nothing else.
LEMMA ConnFaultOnly ==
  ASSUME NEW c \in Conns, ConnFault(c)
  PROVE  UNCHANGED FaultVars
BY DEF FaultVars, ConnFault, Faults

\* What is written to the child is a command for it.
LEMMA WriteTypes ==
  ASSUME TypeOK, NEW h \in Handlers, NEW c \in Conns,
         NEW kind \in {"param", "ADD", "REMOVE", "STOP"}, Write(h, kind, c)
  PROVE  commands' \in [Handlers -> Seq(Commands)] /\ UNCHANGED childVars
<1>1. <<kind, c>> \in Commands
  BY DEF Commands
<1>2. Append(commands[h], <<kind, c>>) \in Seq(Commands)
  BY <1>1 DEF TypeOK
<1> QED BY <1>2 DEF Write, TypeOK

\* The types, with a handler that exists for whoever uses one.
LEMMA TypesKept ==
  ASSUME TypeOK, FoundInv, BesideInv, Next
  PROVE  TypeOK'
<1>h. \A c \in Conns : pc[c] \notin {"idle", "select", "found", "done"} =>
        handler[c] \in Handlers
  BY DEF TypeOK, FoundInv, Assigned
<1>0. /\ "found" \in Labels /\ "assigned" \in Labels /\ "select" \in Labels
      /\ "start" \in Labels /\ "launched" \in Labels /\ "folder" \in Labels
      /\ "protocol" \in Labels /\ "libraries" \in Labels /\ "fps" \in Labels
      /\ "enter" \in Labels /\ "push" \in Labels /\ "add" \in Labels
      /\ "loop" \in Labels /\ "deref" \in Labels /\ "reading" \in Labels
      /\ "writing" \in Labels /\ "joining" \in Labels /\ "cleanup" \in Labels
      /\ "stopOwn" \in Labels /\ "sendOwn" \in Labels /\ "waitOwn" \in Labels
      /\ "left" \in Labels /\ "stop" \in Labels /\ "send" \in Labels
      /\ "wait" \in Labels /\ "stopped" \in Labels /\ "removed" \in Labels
      /\ "delete" \in Labels /\ "done" \in Labels
  BY DEF Labels
<1> USE <1>0, <1>h DEF TypeOK, Goto, FaultVars, connVars, ioVars, listVars,
   handlerVars, processVars, Params, ringVars, childVars
<1>1. ASSUME NEW c \in Conns, Accept(c) PROVE TypeOK'
  BY <1>1 DEF Accept
<1>2. ASSUME NEW c \in Conns, SelectFails(c) PROVE TypeOK'
  BY <1>2 DEF SelectFails
<1>3. ASSUME NEW c \in Conns, SelectProtocol(c) PROVE TypeOK'
  BY <1>3 DEF SelectProtocol
<1>4. ASSUME NEW c \in Conns, SelectSession(c) PROVE TypeOK'
  BY <1>4 DEF SelectSession, Retrieved
<1>5. ASSUME NEW c \in Conns, Assign(c) PROVE TypeOK'
  BY <1>5 DEF Assign
<1>6. ASSUME NEW c \in Conns, SetRunning(c) PROVE TypeOK'
  BY <1>6 DEF SetRunning
<1>7. ASSUME NEW c \in Conns, Launch(c) PROVE TypeOK'
  BY <1>7 DEF Launch
<1>8. ASSUME NEW c \in Conns, LaunchFails(c) PROVE TypeOK'
  BY <1>8 DEF LaunchFails
<1>9. ASSUME NEW c \in Conns, Launched(c) PROVE TypeOK'
  <2>1. CASE child[handler[c]] = "running" BY <1>9, <2>1, ZenonT(40) DEF Launched
  <2>2. CASE child[handler[c]] # "running"
    <3>1. /\ pc' = [pc EXCEPT ![c] = "stopped"]
          /\ child' = [child EXCEPT ![handler[c]] = "null"]
      BY <1>9, <2>2 DEF Launched
    <3>2. pc' \in [Conns -> Labels]
      BY <3>1
    <3>3. child' \in [Handlers -> {"null", "running", "ended"}]
      BY <3>1
    <3> QED BY <1>9, <3>2, <3>3 DEF Launched
  <2> QED BY <2>1, <2>2
<1>10. ASSUME NEW c \in Conns, Enter(c) PROVE TypeOK'
  BY <1>10 DEF Enter
<1>11. ASSUME NEW c \in Conns, Push(c) PROVE TypeOK'
  BY <1>11 DEF Push
<1>12. ASSUME NEW c \in Conns, Add(c) PROVE TypeOK'
  <2>1. handler[c] \in Handlers
    BY <1>12 DEF Add
  <2>2. commands' \in [Handlers -> Seq(Commands)] /\ UNCHANGED childVars
    <3>1. CASE Write(handler[c], "ADD", c)
      BY <2>1, <3>1, WriteTypes
    <3>2. CASE UNCHANGED ringVars
      BY <3>2
    <3> QED BY <1>12, <3>1, <3>2 DEF Add
  <2>3. pc' \in [Conns -> Labels]
    BY <1>12 DEF Add
  <2>4. reader' \in [Conns -> {"off", "loop", "deref"}]
    BY <1>12 DEF Add
  <2> QED BY <1>12, <2>2, <2>3, <2>4 DEF Add
<1>13. ASSUME NEW c \in Conns, WriteLoop(c) PROVE TypeOK'
  BY <1>13 DEF WriteLoop
<1>14. ASSUME NEW c \in Conns, WriteDeref(c) PROVE TypeOK'
  BY <1>14 DEF WriteDeref
<1>15. ASSUME NEW c \in Conns, ReadError(c) PROVE TypeOK'
  BY <1>15 DEF ReadError
<1>16. ASSUME NEW c \in Conns, JoinReader(c) PROVE TypeOK'
  BY <1>16 DEF JoinReader
<1>17. ASSUME NEW c \in Conns, Cleanup(c) PROVE TypeOK'
  BY <1>17 DEF Cleanup
<1>18. ASSUME NEW c \in Conns, StopProcess(c) PROVE TypeOK'
  <2>1. pc' \in [Conns -> Labels]
    BY <1>18 DEF StopProcess, Stopping, Telling, Stopped
  <2>2. handler[c] \in Handlers BY <1>18 DEF StopProcess, Stopping
  <2>3. processRunning' \in [Handlers -> BOOLEAN]
    BY <1>18, <2>2 DEF StopProcess
  <2>4. clearers' \subseteq Handlers BY <1>18, <2>2 DEF StopProcess
  <2> QED BY <1>18, <2>1, <2>3, <2>4 DEF StopProcess
<1>19. ASSUME NEW c \in Conns, StopWait(c) PROVE TypeOK'
  BY <1>19 DEF StopWait, Stopped
<1>20. ASSUME NEW c \in Conns, LeaveCreator(c) PROVE TypeOK'
  BY <1>20 DEF LeaveCreator
<1>21. ASSUME NEW c \in Conns, LeaveJoiner(c) PROVE TypeOK'
  BY <1>21 DEF LeaveJoiner
<1>22. ASSUME NEW c \in Conns, RemoveProcess(c) PROVE TypeOK'
  BY <1>22 DEF RemoveProcess
<1>23. ASSUME NEW c \in Conns, Removed(c) PROVE TypeOK'
  BY <1>23 DEF Removed, Droppable, Lives
<1>24. ASSUME NEW c \in Conns, Delete(c) PROVE TypeOK'
  BY <1>24 DEF Delete
<1>25. ASSUME NEW c \in Conns, ReadData(c) PROVE TypeOK'
  <2>1. pc' \in [Conns -> Labels]
    BY <1>25 DEF ReadData
  <2> QED BY <1>25, <2>1 DEF ReadData
<1>26. ASSUME NEW c \in Conns, ClientCloses(c) PROVE TypeOK'
  BY <1>26 DEF ClientCloses
<1>27. ASSUME NEW c \in Conns, ReaderLoop(c) PROVE TypeOK'
  BY <1>27 DEF ReaderLoop
<1>28. ASSUME NEW c \in Conns, ReaderDeref(c) PROVE TypeOK'
  BY <1>28 DEF ReaderDeref
<1>29. ASSUME NEW c \in Conns, ReaderError(c) PROVE TypeOK'
  BY <1>29 DEF ReaderError
<1>30. ASSUME NEW c \in Conns, ConnFault(c) PROVE TypeOK'
  BY <1>30, ConnFaultOnly
<1>31. ASSUME NEW c \in Conns, Failure(c) PROVE TypeOK'
  BY <1>31 DEF Failure
<1>32. ASSUME NEW c \in Conns, Drop(c) PROVE TypeOK'
  BY <1>32 DEF Drop
<1>33. ASSUME NEW c \in Conns, RemoveUser(c) PROVE TypeOK'
  <2>1. handler[c] \in Handlers
    BY <1>33 DEF RemoveUser, BesideInv
  <2>2. commands' \in [Handlers -> Seq(Commands)] /\ UNCHANGED childVars
    BY <1>33, <2>1, WriteTypes DEF RemoveUser
  <2> QED BY <1>33, <2>1, <2>2 DEF RemoveUser
<1>34. ASSUME NEW h \in Handlers, ChildEnds(h) PROVE TypeOK'
  BY <1>34 DEF ChildEnds, Ends
<1>35. ASSUME NEW h \in Handlers, HandlerFault(h) PROVE TypeOK'
  BY <1>35 DEF HandlerFault, Faults
<1>36. ASSUME NEW h \in Handlers, Clear(h) PROVE TypeOK'
  BY <1>36 DEF Clear
<1>37. ASSUME NEW c \in Conns, SendParam(c) PROVE TypeOK'
  <2>1. handler[c] \in Handlers
    BY <1>37 DEF SendParam
  <2>2. commands' \in [Handlers -> Seq(Commands)] /\ UNCHANGED childVars
    BY <1>37, <2>1, WriteTypes DEF SendParam
  <2>3. pc' \in [Conns -> Labels]
    BY <1>37 DEF SendParam, AfterParam
  <2>4. processRunning' \in [Handlers -> BOOLEAN]
    BY <1>37, <2>1 DEF SendParam
  <2> QED BY <1>37, <2>2, <2>3, <2>4 DEF SendParam
<1>38. ASSUME NEW c \in Conns, SendStop(c) PROVE TypeOK'
  <2>1. handler[c] \in Handlers
    BY <1>38 DEF SendStop
  <2>2. commands' \in [Handlers -> Seq(Commands)] /\ UNCHANGED childVars
    BY <1>38, <2>1, WriteTypes DEF SendStop
  <2> QED BY <1>38, <2>2 DEF SendStop, Waiting
<1>39. ASSUME NEW c \in Conns, DataWritten(c) PROVE TypeOK'
  BY <1>39 DEF DataWritten
<1>40. ASSUME NEW c \in Conns, UserEnds(c) PROVE TypeOK'
  BY <1>40 DEF UserEnds
<1>41. ASSUME NEW h \in Handlers, ChildReads(h) PROVE TypeOK'
  <2>1. commands[h] \in Seq(Commands) /\ commands[h] # <<>>
    BY <1>41 DEF ChildReads
  <2>2. Head(commands[h]) \in Commands /\ Tail(commands[h]) \in Seq(Commands)
    BY <2>1
  <2>3. Head(commands[h])[2] \in Conns
    BY <2>2 DEF Commands
  <2>4. commands' \in [Handlers -> Seq(Commands)]
    BY <1>41, <2>2 DEF ChildReads
  <2>5. users' \subseteq Conns /\ hung' \subseteq Handlers
    BY <1>41, <2>3 DEF ChildReads, Ends
  <2>6. child' \in [Handlers -> {"null", "running", "ended"}]
    BY <1>41 DEF ChildReads, Ends
  <2> QED BY <1>41, <2>4, <2>5, <2>6 DEF ChildReads
<1> QED
  BY <1>1, <1>2, <1>3, <1>4, <1>5, <1>6, <1>7, <1>8, <1>9, <1>10, <1>11,
     <1>12, <1>13, <1>14, <1>15, <1>16, <1>17, <1>18, <1>19, <1>20, <1>21,
     <1>22, <1>23, <1>24, <1>25, <1>26, <1>27, <1>28, <1>29, <1>30, <1>31,
     <1>32, <1>33, <1>34, <1>35, <1>36, <1>37, <1>38, <1>39, <1>40, <1>41
     DEF Next, Thread, Reader, Detached

\* What a connection found and was assigned.
LEMMA FoundKept ==
  ASSUME TypeOK, FoundInv, Next
  PROVE  FoundInv'
<1> USE HandlerAssumption DEF TypeOK, Labels, FoundInv, Before, Assigned,
   Creating, Goto, FaultVars, connVars, ioVars, listVars, handlerVars,
   processVars, Params, ringVars, childVars
<1>1. ASSUME NEW c \in Conns, Accept(c) PROVE FoundInv'
  BY <1>1 DEF Accept
<1>2. ASSUME NEW c \in Conns, SelectFails(c) PROVE FoundInv'
  BY <1>2 DEF SelectFails
<1>3. ASSUME NEW c \in Conns, SelectProtocol(c) PROVE FoundInv'
  <2>1. PICK h \in Handlers : found' = [found EXCEPT ![c] = h]
    BY <1>3 DEF SelectProtocol
  <2> QED BY <1>3, <2>1 DEF SelectProtocol
<1>4. ASSUME NEW c \in Conns, SelectSession(c) PROVE FoundInv'
  <2>1. PICK h \in Handlers \union {NoHandler} :
          found' = [found EXCEPT ![c] = h]
    BY <1>4 DEF SelectSession, Retrieved
  <2> QED BY <1>4, <2>1 DEF SelectSession
<1>5. ASSUME NEW c \in Conns, Assign(c) PROVE FoundInv'
  BY <1>5 DEF Assign
<1>6. ASSUME NEW c \in Conns, SetRunning(c) PROVE FoundInv'
  BY <1>6 DEF SetRunning
<1>7. ASSUME NEW c \in Conns, Launch(c) PROVE FoundInv'
  BY <1>7 DEF Launch
<1>8. ASSUME NEW c \in Conns, LaunchFails(c) PROVE FoundInv'
  BY <1>8 DEF LaunchFails
<1>9. ASSUME NEW c \in Conns, Launched(c) PROVE FoundInv'
  BY <1>9 DEF Launched
<1>10. ASSUME NEW c \in Conns, Enter(c) PROVE FoundInv'
  BY <1>10 DEF Enter
<1>11. ASSUME NEW c \in Conns, Push(c) PROVE FoundInv'
  BY <1>11 DEF Push
<1>12. ASSUME NEW c \in Conns, Add(c) PROVE FoundInv'
  BY <1>12 DEF Add
<1>13. ASSUME NEW c \in Conns, WriteLoop(c) PROVE FoundInv'
  BY <1>13 DEF WriteLoop
<1>14. ASSUME NEW c \in Conns, WriteDeref(c) PROVE FoundInv'
  BY <1>14 DEF WriteDeref
<1>15. ASSUME NEW c \in Conns, ReadError(c) PROVE FoundInv'
  BY <1>15 DEF ReadError
<1>16. ASSUME NEW c \in Conns, JoinReader(c) PROVE FoundInv'
  BY <1>16 DEF JoinReader
<1>17. ASSUME NEW c \in Conns, Cleanup(c) PROVE FoundInv'
  BY <1>17 DEF Cleanup
<1>18. ASSUME NEW c \in Conns, StopProcess(c) PROVE FoundInv'
  BY <1>18 DEF StopProcess, Stopping, Telling, Stopped
<1>19. ASSUME NEW c \in Conns, StopWait(c) PROVE FoundInv'
  BY <1>19 DEF StopWait, Stopped
<1>20. ASSUME NEW c \in Conns, LeaveCreator(c) PROVE FoundInv'
  BY <1>20 DEF LeaveCreator
<1>21. ASSUME NEW c \in Conns, LeaveJoiner(c) PROVE FoundInv'
  BY <1>21 DEF LeaveJoiner
<1>22. ASSUME NEW c \in Conns, RemoveProcess(c) PROVE FoundInv'
  BY <1>22 DEF RemoveProcess
<1>23. ASSUME NEW c \in Conns, Removed(c) PROVE FoundInv'
  BY <1>23 DEF Removed, Droppable, Lives
<1>24. ASSUME NEW c \in Conns, Delete(c) PROVE FoundInv'
  BY <1>24 DEF Delete
<1>25. ASSUME NEW c \in Conns, ReadData(c) PROVE FoundInv'
  BY <1>25 DEF ReadData
<1>26. ASSUME NEW c \in Conns, ClientCloses(c) PROVE FoundInv'
  BY <1>26 DEF ClientCloses
<1>27. ASSUME NEW c \in Conns, ReaderLoop(c) PROVE FoundInv'
  BY <1>27 DEF ReaderLoop
<1>28. ASSUME NEW c \in Conns, ReaderDeref(c) PROVE FoundInv'
  BY <1>28 DEF ReaderDeref
<1>29. ASSUME NEW c \in Conns, ReaderError(c) PROVE FoundInv'
  BY <1>29 DEF ReaderError
<1>30. ASSUME NEW c \in Conns, ConnFault(c) PROVE FoundInv'
  BY <1>30, ConnFaultOnly
<1>31. ASSUME NEW c \in Conns, Failure(c) PROVE FoundInv'
  BY <1>31 DEF Failure
<1>32. ASSUME NEW c \in Conns, Drop(c) PROVE FoundInv'
  BY <1>32 DEF Drop
<1>33. ASSUME NEW c \in Conns, RemoveUser(c) PROVE FoundInv'
  BY <1>33 DEF RemoveUser
<1>34. ASSUME NEW h \in Handlers, ChildEnds(h) PROVE FoundInv'
  BY <1>34 DEF ChildEnds, Ends
<1>35. ASSUME NEW h \in Handlers, HandlerFault(h) PROVE FoundInv'
  BY <1>35 DEF HandlerFault, Faults
<1>36. ASSUME NEW h \in Handlers, Clear(h) PROVE FoundInv'
  BY <1>36 DEF Clear
<1>37. ASSUME NEW c \in Conns, SendParam(c) PROVE FoundInv'
  BY <1>37 DEF SendParam, AfterParam
<1>38. ASSUME NEW c \in Conns, SendStop(c) PROVE FoundInv'
  BY <1>38 DEF SendStop, Waiting
<1>39. ASSUME NEW c \in Conns, DataWritten(c) PROVE FoundInv'
  BY <1>39 DEF DataWritten
<1>40. ASSUME NEW c \in Conns, UserEnds(c) PROVE FoundInv'
  BY <1>40 DEF UserEnds
<1>41. ASSUME NEW h \in Handlers, ChildReads(h) PROVE FoundInv'
  BY <1>41 DEF ChildReads, Ends
<1> QED
  BY <1>1, <1>2, <1>3, <1>4, <1>5, <1>6, <1>7, <1>8, <1>9, <1>10, <1>11,
     <1>12, <1>13, <1>14, <1>15, <1>16, <1>17, <1>18, <1>19, <1>20, <1>21,
     <1>22, <1>23, <1>24, <1>25, <1>26, <1>27, <1>28, <1>29, <1>30, <1>31,
     <1>32, <1>33, <1>34, <1>35, <1>36, <1>37, <1>38, <1>39, <1>40, <1>41
     DEF Next, Thread, Reader, Detached

\* The creator of a handler is the only one that deletes it.
LEMMA CreatorKept ==
  ASSUME TypeOK, FoundInv, CreatorInv, DeletionInv, Next
  PROVE  CreatorInv'
<1> USE HandlerAssumption DEF TypeOK, Labels, FoundInv, Before, Assigned,
   Creating, CreatorInv, DeletionInv, Goto, FaultVars, connVars, ioVars,
   listVars, handlerVars,
   processVars, Params, ringVars, childVars
<1>1. ASSUME NEW c \in Conns, Accept(c) PROVE CreatorInv'
  BY <1>1 DEF Accept
<1>2. ASSUME NEW c \in Conns, SelectFails(c) PROVE CreatorInv'
  BY <1>2 DEF SelectFails
<1>3. ASSUME NEW c \in Conns, SelectProtocol(c) PROVE CreatorInv'
  BY <1>3 DEF SelectProtocol
<1>4. ASSUME NEW c \in Conns, SelectSession(c) PROVE CreatorInv'
  BY <1>4 DEF SelectSession, Retrieved
<1>5. ASSUME NEW c \in Conns, Assign(c) PROVE CreatorInv'
  BY <1>5 DEF Assign
<1>6. ASSUME NEW c \in Conns, SetRunning(c) PROVE CreatorInv'
  BY <1>6 DEF SetRunning
<1>7. ASSUME NEW c \in Conns, Launch(c) PROVE CreatorInv'
  BY <1>7 DEF Launch
<1>8. ASSUME NEW c \in Conns, LaunchFails(c) PROVE CreatorInv'
  BY <1>8 DEF LaunchFails
<1>9. ASSUME NEW c \in Conns, Launched(c) PROVE CreatorInv'
  BY <1>9 DEF Launched
<1>10. ASSUME NEW c \in Conns, Enter(c) PROVE CreatorInv'
  BY <1>10 DEF Enter
<1>11. ASSUME NEW c \in Conns, Push(c) PROVE CreatorInv'
  BY <1>11 DEF Push
<1>12. ASSUME NEW c \in Conns, Add(c) PROVE CreatorInv'
  BY <1>12 DEF Add
<1>13. ASSUME NEW c \in Conns, WriteLoop(c) PROVE CreatorInv'
  BY <1>13 DEF WriteLoop
<1>14. ASSUME NEW c \in Conns, WriteDeref(c) PROVE CreatorInv'
  BY <1>14 DEF WriteDeref
<1>15. ASSUME NEW c \in Conns, ReadError(c) PROVE CreatorInv'
  BY <1>15 DEF ReadError
<1>16. ASSUME NEW c \in Conns, JoinReader(c) PROVE CreatorInv'
  BY <1>16 DEF JoinReader
<1>17. ASSUME NEW c \in Conns, Cleanup(c) PROVE CreatorInv'
  BY <1>17 DEF Cleanup
<1>18. ASSUME NEW c \in Conns, StopProcess(c) PROVE CreatorInv'
  BY <1>18 DEF StopProcess, Stopping, Telling, Stopped
<1>19. ASSUME NEW c \in Conns, StopWait(c) PROVE CreatorInv'
  BY <1>19 DEF StopWait, Stopped
<1>20. ASSUME NEW c \in Conns, LeaveCreator(c) PROVE CreatorInv'
  BY <1>20 DEF LeaveCreator
<1>21. ASSUME NEW c \in Conns, LeaveJoiner(c) PROVE CreatorInv'
  BY <1>21 DEF LeaveJoiner
<1>22. ASSUME NEW c \in Conns, RemoveProcess(c) PROVE CreatorInv'
  BY <1>22 DEF RemoveProcess
<1>23. ASSUME NEW c \in Conns, Removed(c) PROVE CreatorInv'
  BY <1>23 DEF Removed, Droppable, Lives
<1>24. ASSUME NEW c \in Conns, Delete(c) PROVE CreatorInv'
  BY <1>24 DEF Delete
<1>25. ASSUME NEW c \in Conns, ReadData(c) PROVE CreatorInv'
  BY <1>25 DEF ReadData
<1>26. ASSUME NEW c \in Conns, ClientCloses(c) PROVE CreatorInv'
  BY <1>26 DEF ClientCloses
<1>27. ASSUME NEW c \in Conns, ReaderLoop(c) PROVE CreatorInv'
  BY <1>27 DEF ReaderLoop
<1>28. ASSUME NEW c \in Conns, ReaderDeref(c) PROVE CreatorInv'
  BY <1>28 DEF ReaderDeref
<1>29. ASSUME NEW c \in Conns, ReaderError(c) PROVE CreatorInv'
  BY <1>29 DEF ReaderError
<1>30. ASSUME NEW c \in Conns, ConnFault(c) PROVE CreatorInv'
  BY <1>30, ConnFaultOnly
<1>31. ASSUME NEW c \in Conns, Failure(c) PROVE CreatorInv'
  BY <1>31 DEF Failure
<1>32. ASSUME NEW c \in Conns, Drop(c) PROVE CreatorInv'
  BY <1>32 DEF Drop
<1>33. ASSUME NEW c \in Conns, RemoveUser(c) PROVE CreatorInv'
  BY <1>33 DEF RemoveUser
<1>34. ASSUME NEW h \in Handlers, ChildEnds(h) PROVE CreatorInv'
  BY <1>34 DEF ChildEnds, Ends
<1>35. ASSUME NEW h \in Handlers, HandlerFault(h) PROVE CreatorInv'
  BY <1>35 DEF HandlerFault, Faults
<1>36. ASSUME NEW h \in Handlers, Clear(h) PROVE CreatorInv'
  BY <1>36 DEF Clear
<1>37. ASSUME NEW c \in Conns, SendParam(c) PROVE CreatorInv'
  BY <1>37 DEF SendParam, AfterParam
<1>38. ASSUME NEW c \in Conns, SendStop(c) PROVE CreatorInv'
  BY <1>38 DEF SendStop, Waiting
<1>39. ASSUME NEW c \in Conns, DataWritten(c) PROVE CreatorInv'
  BY <1>39 DEF DataWritten
<1>40. ASSUME NEW c \in Conns, UserEnds(c) PROVE CreatorInv'
  BY <1>40 DEF UserEnds
<1>41. ASSUME NEW h \in Handlers, ChildReads(h) PROVE CreatorInv'
  BY <1>41 DEF ChildReads, Ends
<1> QED
  BY <1>1, <1>2, <1>3, <1>4, <1>5, <1>6, <1>7, <1>8, <1>9, <1>10, <1>11,
     <1>12, <1>13, <1>14, <1>15, <1>16, <1>17, <1>18, <1>19, <1>20, <1>21,
     <1>22, <1>23, <1>24, <1>25, <1>26, <1>27, <1>28, <1>29, <1>30, <1>31,
     <1>32, <1>33, <1>34, <1>35, <1>36, <1>37, <1>38, <1>39, <1>40, <1>41
     DEF Next, Thread, Reader, Detached

\* RemoveProcessHandler, OnClientProcessRemoved and delete, in this order.
LEMMA DeletionKept ==
  ASSUME TypeOK, FoundInv, CreatorInv, DeletionInv, Next
  PROVE  DeletionInv'
<1> USE HandlerAssumption DEF TypeOK, Labels, FoundInv, Before, Assigned,
   Creating, CreatorInv, DeletionInv, Goto, FaultVars, connVars, ioVars,
   listVars, handlerVars,
   processVars, Params, ringVars, childVars
<1>1. ASSUME NEW c \in Conns, Accept(c) PROVE DeletionInv'
  BY <1>1 DEF Accept
<1>2. ASSUME NEW c \in Conns, SelectFails(c) PROVE DeletionInv'
  BY <1>2 DEF SelectFails
<1>3. ASSUME NEW c \in Conns, SelectProtocol(c) PROVE DeletionInv'
  BY <1>3 DEF SelectProtocol
<1>4. ASSUME NEW c \in Conns, SelectSession(c) PROVE DeletionInv'
  <2>1. PICK r \in map \union {NoHandler} : found' = [found EXCEPT ![c] = r]
    BY <1>4 DEF SelectSession, Retrieved
  <2>2. UNCHANGED <<list, map, deleted>>
    BY <1>4 DEF SelectSession
  <2>3. c \in list => found'[c] \notin deleted
    BY <2>1
  <2>4. \A d \in Conns : pc'[d] = "delete" =>
          d \notin list /\ \A e \in list : found'[e] # found'[d]
    BY <1>4, <2>1 DEF SelectSession
  <2> QED BY <1>4, <2>1, <2>2, <2>3, <2>4 DEF SelectSession
<1>5. ASSUME NEW c \in Conns, Assign(c) PROVE DeletionInv'
  BY <1>5 DEF Assign
<1>6. ASSUME NEW c \in Conns, SetRunning(c) PROVE DeletionInv'
  BY <1>6 DEF SetRunning
<1>7. ASSUME NEW c \in Conns, Launch(c) PROVE DeletionInv'
  BY <1>7 DEF Launch
<1>8. ASSUME NEW c \in Conns, LaunchFails(c) PROVE DeletionInv'
  BY <1>8 DEF LaunchFails
<1>9. ASSUME NEW c \in Conns, Launched(c) PROVE DeletionInv'
  BY <1>9 DEF Launched
<1>10. ASSUME NEW c \in Conns, Enter(c) PROVE DeletionInv'
  BY <1>10 DEF Enter
<1>11. ASSUME NEW c \in Conns, Push(c) PROVE DeletionInv'
  BY <1>11 DEF Push
<1>12. ASSUME NEW c \in Conns, Add(c) PROVE DeletionInv'
  BY <1>12 DEF Add
<1>13. ASSUME NEW c \in Conns, WriteLoop(c) PROVE DeletionInv'
  BY <1>13 DEF WriteLoop
<1>14. ASSUME NEW c \in Conns, WriteDeref(c) PROVE DeletionInv'
  BY <1>14 DEF WriteDeref
<1>15. ASSUME NEW c \in Conns, ReadError(c) PROVE DeletionInv'
  BY <1>15 DEF ReadError
<1>16. ASSUME NEW c \in Conns, JoinReader(c) PROVE DeletionInv'
  BY <1>16 DEF JoinReader
<1>17. ASSUME NEW c \in Conns, Cleanup(c) PROVE DeletionInv'
  BY <1>17 DEF Cleanup
<1>18. ASSUME NEW c \in Conns, StopProcess(c) PROVE DeletionInv'
  BY <1>18 DEF StopProcess, Stopping, Telling, Stopped
<1>19. ASSUME NEW c \in Conns, StopWait(c) PROVE DeletionInv'
  BY <1>19 DEF StopWait, Stopped
<1>20. ASSUME NEW c \in Conns, LeaveCreator(c) PROVE DeletionInv'
  BY <1>20 DEF LeaveCreator
<1>21. ASSUME NEW c \in Conns, LeaveJoiner(c) PROVE DeletionInv'
  BY <1>21 DEF LeaveJoiner
<1>22. ASSUME NEW c \in Conns, RemoveProcess(c) PROVE DeletionInv'
  BY <1>22 DEF RemoveProcess
<1>23. ASSUME NEW c \in Conns, Removed(c) PROVE DeletionInv'
  BY <1>23 DEF Removed, Droppable, Lives
<1>24. ASSUME NEW c \in Conns, Delete(c) PROVE DeletionInv'
  BY <1>24 DEF Delete
<1>25. ASSUME NEW c \in Conns, ReadData(c) PROVE DeletionInv'
  BY <1>25 DEF ReadData
<1>26. ASSUME NEW c \in Conns, ClientCloses(c) PROVE DeletionInv'
  BY <1>26 DEF ClientCloses
<1>27. ASSUME NEW c \in Conns, ReaderLoop(c) PROVE DeletionInv'
  BY <1>27 DEF ReaderLoop
<1>28. ASSUME NEW c \in Conns, ReaderDeref(c) PROVE DeletionInv'
  BY <1>28 DEF ReaderDeref
<1>29. ASSUME NEW c \in Conns, ReaderError(c) PROVE DeletionInv'
  BY <1>29 DEF ReaderError
<1>30. ASSUME NEW c \in Conns, ConnFault(c) PROVE DeletionInv'
  BY <1>30, ConnFaultOnly
<1>31. ASSUME NEW c \in Conns, Failure(c) PROVE DeletionInv'
  BY <1>31 DEF Failure
<1>32. ASSUME NEW c \in Conns, Drop(c) PROVE DeletionInv'
  BY <1>32 DEF Drop
<1>33. ASSUME NEW c \in Conns, RemoveUser(c) PROVE DeletionInv'
  BY <1>33 DEF RemoveUser
<1>34. ASSUME NEW h \in Handlers, ChildEnds(h) PROVE DeletionInv'
  BY <1>34 DEF ChildEnds, Ends
<1>35. ASSUME NEW h \in Handlers, HandlerFault(h) PROVE DeletionInv'
  BY <1>35 DEF HandlerFault, Faults
<1>36. ASSUME NEW h \in Handlers, Clear(h) PROVE DeletionInv'
  BY <1>36 DEF Clear
<1>37. ASSUME NEW c \in Conns, SendParam(c) PROVE DeletionInv'
  BY <1>37 DEF SendParam, AfterParam
<1>38. ASSUME NEW c \in Conns, SendStop(c) PROVE DeletionInv'
  BY <1>38 DEF SendStop, Waiting
<1>39. ASSUME NEW c \in Conns, DataWritten(c) PROVE DeletionInv'
  BY <1>39 DEF DataWritten
<1>40. ASSUME NEW c \in Conns, UserEnds(c) PROVE DeletionInv'
  BY <1>40 DEF UserEnds
<1>41. ASSUME NEW h \in Handlers, ChildReads(h) PROVE DeletionInv'
  BY <1>41 DEF ChildReads, Ends
<1> QED
  BY <1>1, <1>2, <1>3, <1>4, <1>5, <1>6, <1>7, <1>8, <1>9, <1>10, <1>11,
     <1>12, <1>13, <1>14, <1>15, <1>16, <1>17, <1>18, <1>19, <1>20, <1>21,
     <1>22, <1>23, <1>24, <1>25, <1>26, <1>27, <1>28, <1>29, <1>30, <1>31,
     <1>32, <1>33, <1>34, <1>35, <1>36, <1>37, <1>38, <1>39, <1>40, <1>41
     DEF Next, Thread, Reader, Detached

\* StartConnectionUser saves connections of the handler only.
LEMMA SavedKept ==
  ASSUME TypeOK, FoundInv, SavedInv, BesideInv, Next
  PROVE  SavedInv'
<1> USE HandlerAssumption DEF TypeOK, Labels, FoundInv, Before, Assigned,
   Creating, SavedInv, Unsaved, BesideInv, Goto, FaultVars, connVars, ioVars,
   listVars, handlerVars,
   processVars, Params, ringVars, childVars
<1>1. ASSUME NEW c \in Conns, Accept(c) PROVE SavedInv'
  BY <1>1 DEF Accept
<1>2. ASSUME NEW c \in Conns, SelectFails(c) PROVE SavedInv'
  BY <1>2 DEF SelectFails
<1>3. ASSUME NEW c \in Conns, SelectProtocol(c) PROVE SavedInv'
  BY <1>3 DEF SelectProtocol
<1>4. ASSUME NEW c \in Conns, SelectSession(c) PROVE SavedInv'
  BY <1>4 DEF SelectSession, Retrieved
<1>5. ASSUME NEW c \in Conns, Assign(c) PROVE SavedInv'
  BY <1>5 DEF Assign
<1>6. ASSUME NEW c \in Conns, SetRunning(c) PROVE SavedInv'
  BY <1>6 DEF SetRunning
<1>7. ASSUME NEW c \in Conns, Launch(c) PROVE SavedInv'
  BY <1>7 DEF Launch
<1>8. ASSUME NEW c \in Conns, LaunchFails(c) PROVE SavedInv'
  BY <1>8 DEF LaunchFails
<1>9. ASSUME NEW c \in Conns, Launched(c) PROVE SavedInv'
  BY <1>9 DEF Launched
<1>10. ASSUME NEW c \in Conns, Enter(c) PROVE SavedInv'
  BY <1>10 DEF Enter
<1>11. ASSUME NEW c \in Conns, Push(c) PROVE SavedInv'
  BY <1>11 DEF Push
<1>12. ASSUME NEW c \in Conns, Add(c) PROVE SavedInv'
  BY <1>12 DEF Add
<1>13. ASSUME NEW c \in Conns, WriteLoop(c) PROVE SavedInv'
  BY <1>13 DEF WriteLoop
<1>14. ASSUME NEW c \in Conns, WriteDeref(c) PROVE SavedInv'
  BY <1>14 DEF WriteDeref
<1>15. ASSUME NEW c \in Conns, ReadError(c) PROVE SavedInv'
  BY <1>15 DEF ReadError
<1>16. ASSUME NEW c \in Conns, JoinReader(c) PROVE SavedInv'
  BY <1>16 DEF JoinReader
<1>17. ASSUME NEW c \in Conns, Cleanup(c) PROVE SavedInv'
  BY <1>17 DEF Cleanup
<1>18. ASSUME NEW c \in Conns, StopProcess(c) PROVE SavedInv'
  BY <1>18 DEF StopProcess, Stopping, Telling, Stopped
<1>19. ASSUME NEW c \in Conns, StopWait(c) PROVE SavedInv'
  BY <1>19 DEF StopWait, Stopped
<1>20. ASSUME NEW c \in Conns, LeaveCreator(c) PROVE SavedInv'
  BY <1>20 DEF LeaveCreator
<1>21. ASSUME NEW c \in Conns, LeaveJoiner(c) PROVE SavedInv'
  BY <1>21 DEF LeaveJoiner
<1>22. ASSUME NEW c \in Conns, RemoveProcess(c) PROVE SavedInv'
  BY <1>22 DEF RemoveProcess
<1>23. ASSUME NEW c \in Conns, Removed(c) PROVE SavedInv'
  BY <1>23 DEF Removed, Droppable, Lives
<1>24. ASSUME NEW c \in Conns, Delete(c) PROVE SavedInv'
  BY <1>24 DEF Delete
<1>25. ASSUME NEW c \in Conns, ReadData(c) PROVE SavedInv'
  BY <1>25 DEF ReadData
<1>26. ASSUME NEW c \in Conns, ClientCloses(c) PROVE SavedInv'
  BY <1>26 DEF ClientCloses
<1>27. ASSUME NEW c \in Conns, ReaderLoop(c) PROVE SavedInv'
  BY <1>27 DEF ReaderLoop
<1>28. ASSUME NEW c \in Conns, ReaderDeref(c) PROVE SavedInv'
  BY <1>28 DEF ReaderDeref
<1>29. ASSUME NEW c \in Conns, ReaderError(c) PROVE SavedInv'
  BY <1>29 DEF ReaderError
<1>30. ASSUME NEW c \in Conns, ConnFault(c) PROVE SavedInv'
  BY <1>30, ConnFaultOnly
<1>31. ASSUME NEW c \in Conns, Failure(c) PROVE SavedInv'
  BY <1>31 DEF Failure
<1>32. ASSUME NEW c \in Conns, Drop(c) PROVE SavedInv'
  BY <1>32 DEF Drop
<1>33. ASSUME NEW c \in Conns, RemoveUser(c) PROVE SavedInv'
  BY <1>33 DEF RemoveUser
<1>34. ASSUME NEW h \in Handlers, ChildEnds(h) PROVE SavedInv'
  BY <1>34 DEF ChildEnds, Ends
<1>35. ASSUME NEW h \in Handlers, HandlerFault(h) PROVE SavedInv'
  BY <1>35 DEF HandlerFault, Faults
<1>36. ASSUME NEW h \in Handlers, Clear(h) PROVE SavedInv'
  BY <1>36 DEF Clear
<1>37. ASSUME NEW c \in Conns, SendParam(c) PROVE SavedInv'
  BY <1>37 DEF SendParam, AfterParam
<1>38. ASSUME NEW c \in Conns, SendStop(c) PROVE SavedInv'
  BY <1>38 DEF SendStop, Waiting
<1>39. ASSUME NEW c \in Conns, DataWritten(c) PROVE SavedInv'
  BY <1>39 DEF DataWritten
<1>40. ASSUME NEW c \in Conns, UserEnds(c) PROVE SavedInv'
  BY <1>40 DEF UserEnds
<1>41. ASSUME NEW h \in Handlers, ChildReads(h) PROVE SavedInv'
  BY <1>41 DEF ChildReads, Ends
<1> QED
  BY <1>1, <1>2, <1>3, <1>4, <1>5, <1>6, <1>7, <1>8, <1>9, <1>10, <1>11,
     <1>12, <1>13, <1>14, <1>15, <1>16, <1>17, <1>18, <1>19, <1>20, <1>21,
     <1>22, <1>23, <1>24, <1>25, <1>26, <1>27, <1>28, <1>29, <1>30, <1>31,
     <1>32, <1>33, <1>34, <1>35, <1>36, <1>37, <1>38, <1>39, <1>40, <1>41
     DEF Next, Thread, Reader, Detached

\* The read thread is joined; CleanupUserIO is for connections with a handler.
LEMMA BesideKept ==
  ASSUME TypeOK, FoundInv, BesideInv, Next
  PROVE  BesideInv'
<1>f. \A c \in Conns : pc[c] \in {"idle", "select"} => found[c] \notin Handlers
  BY HandlerAssumption DEF FoundInv, Before
<1>h. \A c \in Conns : pc[c] = "cleanup" =>
        handler[c] = found[c] /\ found[c] \in Handlers
  BY DEF FoundInv, Assigned, Labels
<1> USE <1>f, <1>h DEF TypeOK, BesideInv, Goto, FaultVars, connVars, ioVars,
   listVars, handlerVars, processVars, Params, ringVars, childVars
<1>1. ASSUME NEW c \in Conns, Accept(c) PROVE BesideInv'
  BY <1>1 DEF Accept
<1>2. ASSUME NEW c \in Conns, SelectFails(c) PROVE BesideInv'
  BY <1>2 DEF SelectFails
<1>3. ASSUME NEW c \in Conns, SelectProtocol(c) PROVE BesideInv'
  BY <1>3 DEF SelectProtocol
<1>4. ASSUME NEW c \in Conns, SelectSession(c) PROVE BesideInv'
  BY <1>4 DEF SelectSession, Retrieved
<1>5. ASSUME NEW c \in Conns, Assign(c) PROVE BesideInv'
  BY <1>5 DEF Assign
<1>6. ASSUME NEW c \in Conns, SetRunning(c) PROVE BesideInv'
  BY <1>6 DEF SetRunning
<1>7. ASSUME NEW c \in Conns, Launch(c) PROVE BesideInv'
  BY <1>7 DEF Launch
<1>8. ASSUME NEW c \in Conns, LaunchFails(c) PROVE BesideInv'
  BY <1>8 DEF LaunchFails
<1>9. ASSUME NEW c \in Conns, Launched(c) PROVE BesideInv'
  BY <1>9 DEF Launched
<1>10. ASSUME NEW c \in Conns, Enter(c) PROVE BesideInv'
  BY <1>10 DEF Enter
<1>11. ASSUME NEW c \in Conns, Push(c) PROVE BesideInv'
  BY <1>11 DEF Push
<1>12. ASSUME NEW c \in Conns, Add(c) PROVE BesideInv'
  <2>1. UNCHANGED <<handler, found, removers>>
    BY <1>12 DEF Add
  <2>2. CASE reader' = [reader EXCEPT ![c] = "loop"] /\ pc' = [pc EXCEPT ![c] = "loop"]
    BY <2>1, <2>2
  <2>3. CASE pc' = [pc EXCEPT ![c] = "left"] /\ UNCHANGED reader
    BY <1>12, <2>1, <2>3 DEF Add
  <2> QED BY <1>12, <2>2, <2>3 DEF Add
<1>13. ASSUME NEW c \in Conns, WriteLoop(c) PROVE BesideInv'
  BY <1>13 DEF WriteLoop
<1>14. ASSUME NEW c \in Conns, WriteDeref(c) PROVE BesideInv'
  BY <1>14 DEF WriteDeref
<1>15. ASSUME NEW c \in Conns, ReadError(c) PROVE BesideInv'
  BY <1>15 DEF ReadError
<1>16. ASSUME NEW c \in Conns, JoinReader(c) PROVE BesideInv'
  BY <1>16 DEF JoinReader
<1>17. ASSUME NEW c \in Conns, Cleanup(c) PROVE BesideInv'
  BY <1>17 DEF Cleanup
<1>18. ASSUME NEW c \in Conns, StopProcess(c) PROVE BesideInv'
  BY <1>18 DEF StopProcess, Stopping, Telling, Stopped
<1>19. ASSUME NEW c \in Conns, StopWait(c) PROVE BesideInv'
  BY <1>19 DEF StopWait, Stopped
<1>20. ASSUME NEW c \in Conns, LeaveCreator(c) PROVE BesideInv'
  BY <1>20 DEF LeaveCreator
<1>21. ASSUME NEW c \in Conns, LeaveJoiner(c) PROVE BesideInv'
  BY <1>21 DEF LeaveJoiner
<1>22. ASSUME NEW c \in Conns, RemoveProcess(c) PROVE BesideInv'
  BY <1>22 DEF RemoveProcess
<1>23. ASSUME NEW c \in Conns, Removed(c) PROVE BesideInv'
  BY <1>23 DEF Removed, Droppable, Lives
<1>24. ASSUME NEW c \in Conns, Delete(c) PROVE BesideInv'
  BY <1>24 DEF Delete
<1>25. ASSUME NEW c \in Conns, ReadData(c) PROVE BesideInv'
  BY <1>25 DEF ReadData
<1>26. ASSUME NEW c \in Conns, ClientCloses(c) PROVE BesideInv'
  BY <1>26 DEF ClientCloses
<1>27. ASSUME NEW c \in Conns, ReaderLoop(c) PROVE BesideInv'
  BY <1>27 DEF ReaderLoop
<1>28. ASSUME NEW c \in Conns, ReaderDeref(c) PROVE BesideInv'
  BY <1>28 DEF ReaderDeref
<1>29. ASSUME NEW c \in Conns, ReaderError(c) PROVE BesideInv'
  BY <1>29 DEF ReaderError
<1>30. ASSUME NEW c \in Conns, ConnFault(c) PROVE BesideInv'
  BY <1>30, ConnFaultOnly
<1>31. ASSUME NEW c \in Conns, Failure(c) PROVE BesideInv'
  BY <1>31 DEF Failure
<1>32. ASSUME NEW c \in Conns, Drop(c) PROVE BesideInv'
  BY <1>32 DEF Drop
<1>33. ASSUME NEW c \in Conns, RemoveUser(c) PROVE BesideInv'
  BY <1>33 DEF RemoveUser
<1>34. ASSUME NEW h \in Handlers, ChildEnds(h) PROVE BesideInv'
  BY <1>34 DEF ChildEnds, Ends
<1>35. ASSUME NEW h \in Handlers, HandlerFault(h) PROVE BesideInv'
  BY <1>35 DEF HandlerFault, Faults
<1>36. ASSUME NEW h \in Handlers, Clear(h) PROVE BesideInv'
  BY <1>36 DEF Clear
<1>37. ASSUME NEW c \in Conns, SendParam(c) PROVE BesideInv'
  BY <1>37 DEF SendParam, AfterParam
<1>38. ASSUME NEW c \in Conns, SendStop(c) PROVE BesideInv'
  BY <1>38 DEF SendStop, Waiting
<1>39. ASSUME NEW c \in Conns, DataWritten(c) PROVE BesideInv'
  BY <1>39 DEF DataWritten
<1>40. ASSUME NEW c \in Conns, UserEnds(c) PROVE BesideInv'
  BY <1>40 DEF UserEnds
<1>41. ASSUME NEW h \in Handlers, ChildReads(h) PROVE BesideInv'
  BY <1>41 DEF ChildReads, Ends
<1> QED
  BY <1>1, <1>2, <1>3, <1>4, <1>5, <1>6, <1>7, <1>8, <1>9, <1>10, <1>11,
     <1>12, <1>13, <1>14, <1>15, <1>16, <1>17, <1>18, <1>19, <1>20, <1>21,
     <1>22, <1>23, <1>24, <1>25, <1>26, <1>27, <1>28, <1>29, <1>30, <1>31,
     <1>32, <1>33, <1>34, <1>35, <1>36, <1>37, <1>38, <1>39, <1>40, <1>41
     DEF Next, Thread, Reader, Detached

\* A thread is through only when its connection is erased, or failed.
LEMMA NoneLeftKept ==
  ASSUME TypeOK, FoundInv, DeletionInv, NoneLeft, Next
  PROVE  NoneLeft'
<1> USE HandlerAssumption DEF TypeOK, Labels, FoundInv, Before, Assigned,
   Creating, DeletionInv, NoneLeft, Goto, FaultVars, connVars, ioVars,
   listVars, handlerVars,
   processVars, Params, ringVars, childVars
<1>1. ASSUME NEW c \in Conns, Accept(c) PROVE NoneLeft'
  BY <1>1 DEF Accept
<1>2. ASSUME NEW c \in Conns, SelectFails(c) PROVE NoneLeft'
  BY <1>2 DEF SelectFails
<1>3. ASSUME NEW c \in Conns, SelectProtocol(c) PROVE NoneLeft'
  BY <1>3 DEF SelectProtocol
<1>4. ASSUME NEW c \in Conns, SelectSession(c) PROVE NoneLeft'
  BY <1>4 DEF SelectSession, Retrieved
<1>5. ASSUME NEW c \in Conns, Assign(c) PROVE NoneLeft'
  BY <1>5 DEF Assign
<1>6. ASSUME NEW c \in Conns, SetRunning(c) PROVE NoneLeft'
  BY <1>6 DEF SetRunning
<1>7. ASSUME NEW c \in Conns, Launch(c) PROVE NoneLeft'
  BY <1>7 DEF Launch
<1>8. ASSUME NEW c \in Conns, LaunchFails(c) PROVE NoneLeft'
  BY <1>8 DEF LaunchFails
<1>9. ASSUME NEW c \in Conns, Launched(c) PROVE NoneLeft'
  BY <1>9 DEF Launched
<1>10. ASSUME NEW c \in Conns, Enter(c) PROVE NoneLeft'
  BY <1>10 DEF Enter
<1>11. ASSUME NEW c \in Conns, Push(c) PROVE NoneLeft'
  BY <1>11 DEF Push
<1>12. ASSUME NEW c \in Conns, Add(c) PROVE NoneLeft'
  BY <1>12 DEF Add
<1>13. ASSUME NEW c \in Conns, WriteLoop(c) PROVE NoneLeft'
  BY <1>13 DEF WriteLoop
<1>14. ASSUME NEW c \in Conns, WriteDeref(c) PROVE NoneLeft'
  BY <1>14 DEF WriteDeref
<1>15. ASSUME NEW c \in Conns, ReadError(c) PROVE NoneLeft'
  BY <1>15 DEF ReadError
<1>16. ASSUME NEW c \in Conns, JoinReader(c) PROVE NoneLeft'
  BY <1>16 DEF JoinReader
<1>17. ASSUME NEW c \in Conns, Cleanup(c) PROVE NoneLeft'
  BY <1>17 DEF Cleanup
<1>18. ASSUME NEW c \in Conns, StopProcess(c) PROVE NoneLeft'
  BY <1>18 DEF StopProcess, Stopping, Telling, Stopped
<1>19. ASSUME NEW c \in Conns, StopWait(c) PROVE NoneLeft'
  BY <1>19 DEF StopWait, Stopped
<1>20. ASSUME NEW c \in Conns, LeaveCreator(c) PROVE NoneLeft'
  BY <1>20 DEF LeaveCreator
<1>21. ASSUME NEW c \in Conns, LeaveJoiner(c) PROVE NoneLeft'
  BY <1>21 DEF LeaveJoiner
<1>22. ASSUME NEW c \in Conns, RemoveProcess(c) PROVE NoneLeft'
  BY <1>22 DEF RemoveProcess
<1>23. ASSUME NEW c \in Conns, Removed(c) PROVE NoneLeft'
  BY <1>23 DEF Removed, Droppable, Lives
<1>24. ASSUME NEW c \in Conns, Delete(c) PROVE NoneLeft'
  BY <1>24 DEF Delete
<1>25. ASSUME NEW c \in Conns, ReadData(c) PROVE NoneLeft'
  BY <1>25 DEF ReadData
<1>26. ASSUME NEW c \in Conns, ClientCloses(c) PROVE NoneLeft'
  BY <1>26 DEF ClientCloses
<1>27. ASSUME NEW c \in Conns, ReaderLoop(c) PROVE NoneLeft'
  BY <1>27 DEF ReaderLoop
<1>28. ASSUME NEW c \in Conns, ReaderDeref(c) PROVE NoneLeft'
  BY <1>28 DEF ReaderDeref
<1>29. ASSUME NEW c \in Conns, ReaderError(c) PROVE NoneLeft'
  BY <1>29 DEF ReaderError
<1>30. ASSUME NEW c \in Conns, ConnFault(c) PROVE NoneLeft'
  BY <1>30, ConnFaultOnly
<1>31. ASSUME NEW c \in Conns, Failure(c) PROVE NoneLeft'
  BY <1>31 DEF Failure
<1>32. ASSUME NEW c \in Conns, Drop(c) PROVE NoneLeft'
  BY <1>32 DEF Drop
<1>33. ASSUME NEW c \in Conns, RemoveUser(c) PROVE NoneLeft'
  BY <1>33 DEF RemoveUser
<1>34. ASSUME NEW h \in Handlers, ChildEnds(h) PROVE NoneLeft'
  BY <1>34 DEF ChildEnds, Ends
<1>35. ASSUME NEW h \in Handlers, HandlerFault(h) PROVE NoneLeft'
  BY <1>35 DEF HandlerFault, Faults
<1>36. ASSUME NEW h \in Handlers, Clear(h) PROVE NoneLeft'
  BY <1>36 DEF Clear
<1>37. ASSUME NEW c \in Conns, SendParam(c) PROVE NoneLeft'
  BY <1>37 DEF SendParam, AfterParam
<1>38. ASSUME NEW c \in Conns, SendStop(c) PROVE NoneLeft'
  BY <1>38 DEF SendStop, Waiting
<1>39. ASSUME NEW c \in Conns, DataWritten(c) PROVE NoneLeft'
  BY <1>39 DEF DataWritten
<1>40. ASSUME NEW c \in Conns, UserEnds(c) PROVE NoneLeft'
  BY <1>40 DEF UserEnds
<1>41. ASSUME NEW h \in Handlers, ChildReads(h) PROVE NoneLeft'
  BY <1>41 DEF ChildReads, Ends
<1> QED
  BY <1>1, <1>2, <1>3, <1>4, <1>5, <1>6, <1>7, <1>8, <1>9, <1>10, <1>11,
     <1>12, <1>13, <1>14, <1>15, <1>16, <1>17, <1>18, <1>19, <1>20, <1>21,
     <1>22, <1>23, <1>24, <1>25, <1>26, <1>27, <1>28, <1>29, <1>30, <1>31,
     <1>32, <1>33, <1>34, <1>35, <1>36, <1>37, <1>38, <1>39, <1>40, <1>41
     DEF Next, Thread, Reader, Detached

\* No other connection has found the handler of one that is alone.
LEMMA NoOther ==
  ASSUME FoundInv, CreatorInv, NEW a \in Conns, NEW c \in Conns,
         Alone(a), c # a
  PROVE  found[c] # found[a]
BY DEF FoundInv, CreatorInv, Alone, Shared

\* What a connection found it found for good, and whether it made it.
LEMMA FoundForGood ==
  ASSUME TypeOK, FoundInv, NEW x \in Conns, found[x] # NoHandler, Next
  PROVE  new[x]' = new[x] /\ found[x]' = found[x]
<1> USE HandlerAssumption DEF TypeOK, Labels, FoundInv, Before, Assigned,
   Creating, Goto, FaultVars, connVars, ioVars, listVars, handlerVars,
   processVars, Params, ringVars, childVars
<1>1. ASSUME NEW c \in Conns, SelectProtocol(c)
      PROVE  new[x]' = new[x] /\ found[x]' = found[x]
  BY <1>1 DEF SelectProtocol
<1>2. ASSUME NEW c \in Conns, SelectSession(c)
      PROVE  new[x]' = new[x] /\ found[x]' = found[x]
  BY <1>2 DEF SelectSession, Retrieved
<1>3. ASSUME NEW c \in Conns, Accept(c) \/ SelectFails(c) \/ Assign(c) \/
             SetRunning(c) \/ Launch(c) \/ LaunchFails(c) \/ Launched(c) \/
             Enter(c) \/ Push(c) \/ Add(c) \/ WriteLoop(c) \/ WriteDeref(c) \/
             SendParam(c) \/ SendStop(c) \/ DataWritten(c) \/ UserEnds(c)
      PROVE  new[x]' = new[x] /\ found[x]' = found[x]
  BY <1>3 DEF Accept, SelectFails, Assign, SetRunning, Launch, LaunchFails,
     Launched, Enter, Push, Add, WriteLoop, WriteDeref, SendParam, SendStop,
     DataWritten, UserEnds
<1>4. ASSUME NEW c \in Conns, ReadError(c) \/ JoinReader(c) \/ Cleanup(c) \/
             StopProcess(c) \/ StopWait(c) \/ LeaveCreator(c) \/
             LeaveJoiner(c) \/ RemoveProcess(c) \/ Removed(c) \/ Delete(c) \/
             ReadData(c) \/ ClientCloses(c)
      PROVE  new[x]' = new[x] /\ found[x]' = found[x]
  BY <1>4 DEF ReadError, JoinReader, Cleanup, StopProcess, Stopping, Telling,
     Stopped, StopWait, LeaveCreator, LeaveJoiner, RemoveProcess, Removed, Droppable,
     Lives, Delete, ReadData, ClientCloses
<1>5. ASSUME NEW c \in Conns, ReaderLoop(c) \/ ReaderDeref(c) \/
             ReaderError(c) \/ Failure(c) \/ Drop(c) \/ RemoveUser(c)
      PROVE  new[x]' = new[x] /\ found[x]' = found[x]
  BY <1>5 DEF ReaderLoop, ReaderDeref, ReaderError, Failure, Drop, RemoveUser
<1>6. ASSUME NEW c \in Conns, ConnFault(c)
      PROVE  new[x]' = new[x] /\ found[x]' = found[x]
  BY <1>6, ConnFaultOnly
<1>7. ASSUME NEW h \in Handlers, ChildEnds(h) \/ ChildReads(h) \/
             HandlerFault(h) \/ Clear(h)
      PROVE  new[x]' = new[x] /\ found[x]' = found[x]
  BY <1>7 DEF ChildEnds, ChildReads, Ends, HandlerFault, Faults, Clear
<1> QED
  BY <1>1, <1>2, <1>3, <1>4, <1>5, <1>6, <1>7 DEF Next, Thread, Reader,
     Detached

\* Whoever is alone with a session was so before: connections only join.
LEMMA StaysAlone ==
  ASSUME TypeOK, FoundInv, Next, NEW a \in Conns, new[a], Alone(a)'
  PROVE  Alone(a)
<1>1. found[a] \in Handlers /\ new[a]' = new[a] /\ found[a]' = found[a]
  BY FoundForGood, HandlerAssumption DEF FoundInv
<1>2. ASSUME NEW c \in Conns, ~new[c], found[c] = found[a] PROVE FALSE
  <2>1. new[c]' = new[c] /\ found[c]' = found[c]
    BY <1>1, <1>2, FoundForGood, HandlerAssumption
  <2> QED BY <1>1, <1>2, <2>1 DEF Alone, Shared
<1> QED BY <1>1, <1>2 DEF Alone, Shared

\* A step of the session, or of any other one, leaves it what it has.
LEMMA AloneOldKept ==
  ASSUME TypeOK, FoundInv, CreatorInv, SavedInv, BesideInv, Next,
         NEW a \in Conns, Alone(a), HasSession(a), found[a]' = found[a]
  PROVE  HasSession(a)'
<1> USE HandlerAssumption DEF TypeOK, Labels, FoundInv, Before, Assigned,
   Creating, SavedInv, BesideInv, HasSession, Unsaved, WithChild, Serving,
   Goto, FaultVars, connVars, ioVars, listVars, handlerVars,
   processVars, Params, ringVars, childVars
<1>o. \A c \in Conns : c # a => found[c] # found[a]
  BY NoOther
<1>n. new[a]
  BY DEF Alone
<1>1. ASSUME NEW c \in Conns, Accept(c) PROVE HasSession(a)'
  BY <1>o, <1>n, <1>1 DEF Accept
<1>2. ASSUME NEW c \in Conns, SelectFails(c) PROVE HasSession(a)'
  BY <1>o, <1>n, <1>2 DEF SelectFails
<1>3. ASSUME NEW c \in Conns, SelectProtocol(c) PROVE HasSession(a)'
  BY <1>o, <1>n, <1>3 DEF SelectProtocol
<1>4. ASSUME NEW c \in Conns, SelectSession(c) PROVE HasSession(a)'
  BY <1>o, <1>n, <1>4 DEF SelectSession, Retrieved
<1>5. ASSUME NEW c \in Conns, Assign(c) PROVE HasSession(a)'
  BY <1>o, <1>n, <1>5 DEF Assign
<1>6. ASSUME NEW c \in Conns, SetRunning(c) PROVE HasSession(a)'
  BY <1>o, <1>n, <1>6 DEF SetRunning
<1>7. ASSUME NEW c \in Conns, Launch(c) PROVE HasSession(a)'
  BY <1>o, <1>n, <1>7 DEF Launch
<1>8. ASSUME NEW c \in Conns, LaunchFails(c) PROVE HasSession(a)'
  BY <1>o, <1>n, <1>8 DEF LaunchFails
<1>9. ASSUME NEW c \in Conns, Launched(c) PROVE HasSession(a)'
  <2>1. CASE child[handler[c]] = "running"
    <3>1. CASE c = a
      BY <1>n, <1>9, <2>1, <3>1 DEF Launched
    <3>2. CASE c # a
      BY <1>o, <1>n, <1>9, <2>1, <3>2 DEF Launched
    <3> QED BY <3>1, <3>2
  <2>2. CASE child[handler[c]] # "running"
    BY <1>o, <1>n, <1>9, <2>2 DEF Launched
  <2> QED BY <2>1, <2>2
<1>10. ASSUME NEW c \in Conns, Enter(c) PROVE HasSession(a)'
  BY <1>o, <1>n, <1>10 DEF Enter
<1>11. ASSUME NEW c \in Conns, Push(c) PROVE HasSession(a)'
  BY <1>o, <1>n, <1>11 DEF Push
<1>12. ASSUME NEW c \in Conns, Add(c) PROVE HasSession(a)'
  BY <1>o, <1>n, <1>12 DEF Add
<1>13. ASSUME NEW c \in Conns, WriteLoop(c) PROVE HasSession(a)'
  BY <1>o, <1>n, <1>13 DEF WriteLoop
<1>14. ASSUME NEW c \in Conns, WriteDeref(c) PROVE HasSession(a)'
  BY <1>o, <1>n, <1>14 DEF WriteDeref
<1>15. ASSUME NEW c \in Conns, ReadError(c) PROVE HasSession(a)'
  BY <1>o, <1>n, <1>15 DEF ReadError
<1>16. ASSUME NEW c \in Conns, JoinReader(c) PROVE HasSession(a)'
  BY <1>o, <1>n, <1>16 DEF JoinReader
<1>17. ASSUME NEW c \in Conns, Cleanup(c) PROVE HasSession(a)'
  BY <1>o, <1>n, <1>17 DEF Cleanup
<1>18. ASSUME NEW c \in Conns, StopProcess(c) PROVE HasSession(a)'
  BY <1>o, <1>n, <1>18 DEF StopProcess, Stopping, Telling, Stopped
<1>19. ASSUME NEW c \in Conns, StopWait(c) PROVE HasSession(a)'
  BY <1>o, <1>n, <1>19 DEF StopWait, Stopped
<1>20. ASSUME NEW c \in Conns, LeaveCreator(c) PROVE HasSession(a)'
  BY <1>o, <1>n, <1>20 DEF LeaveCreator
<1>21. ASSUME NEW c \in Conns, LeaveJoiner(c) PROVE HasSession(a)'
  BY <1>o, <1>n, <1>21 DEF LeaveJoiner
<1>22. ASSUME NEW c \in Conns, RemoveProcess(c) PROVE HasSession(a)'
  BY <1>o, <1>n, <1>22 DEF RemoveProcess
<1>23. ASSUME NEW c \in Conns, Removed(c) PROVE HasSession(a)'
  BY <1>o, <1>n, <1>23 DEF Removed, Droppable, Lives
<1>24. ASSUME NEW c \in Conns, Delete(c) PROVE HasSession(a)'
  BY <1>o, <1>n, <1>24 DEF Delete
<1>25. ASSUME NEW c \in Conns, ReadData(c) PROVE HasSession(a)'
  BY <1>o, <1>n, <1>25 DEF ReadData
<1>26. ASSUME NEW c \in Conns, ClientCloses(c) PROVE HasSession(a)'
  BY <1>o, <1>n, <1>26 DEF ClientCloses
<1>27. ASSUME NEW c \in Conns, ReaderLoop(c) PROVE HasSession(a)'
  BY <1>o, <1>n, <1>27 DEF ReaderLoop
<1>28. ASSUME NEW c \in Conns, ReaderDeref(c) PROVE HasSession(a)'
  BY <1>o, <1>n, <1>28 DEF ReaderDeref
<1>29. ASSUME NEW c \in Conns, ReaderError(c) PROVE HasSession(a)'
  BY <1>o, <1>n, <1>29 DEF ReaderError
<1>30. ASSUME NEW c \in Conns, ConnFault(c) PROVE HasSession(a)'
  BY <1>30, ConnFaultOnly
<1>31. ASSUME NEW c \in Conns, Failure(c) PROVE HasSession(a)'
  BY <1>o, <1>n, <1>31 DEF Failure
<1>32. ASSUME NEW c \in Conns, Drop(c) PROVE HasSession(a)'
  BY <1>o, <1>n, <1>32 DEF Drop
<1>33. ASSUME NEW c \in Conns, RemoveUser(c) PROVE HasSession(a)'
  BY <1>o, <1>n, <1>33 DEF RemoveUser
<1>34. ASSUME NEW h \in Handlers, ChildEnds(h) PROVE HasSession(a)'
  BY <1>o, <1>n, <1>34 DEF ChildEnds, Ends
<1>35. ASSUME NEW h \in Handlers, HandlerFault(h) PROVE HasSession(a)'
  BY <1>o, <1>n, <1>35 DEF HandlerFault, Faults
<1>36. ASSUME NEW h \in Handlers, Clear(h) PROVE HasSession(a)'
  BY <1>o, <1>n, <1>36 DEF Clear
<1>37. ASSUME NEW c \in Conns, SendParam(c) PROVE HasSession(a)'
  BY <1>o, <1>n, <1>37 DEF SendParam, AfterParam
<1>38. ASSUME NEW c \in Conns, SendStop(c) PROVE HasSession(a)'
  BY <1>o, <1>n, <1>38 DEF SendStop, Waiting
<1>39. ASSUME NEW c \in Conns, DataWritten(c) PROVE HasSession(a)'
  BY <1>o, <1>n, <1>39 DEF DataWritten
<1>40. ASSUME NEW c \in Conns, UserEnds(c) PROVE HasSession(a)'
  BY <1>o, <1>n, <1>40 DEF UserEnds
<1>41. ASSUME NEW h \in Handlers, ChildReads(h) PROVE HasSession(a)'
  BY <1>o, <1>n, <1>41 DEF ChildReads, Ends
<1> QED
  BY <1>1, <1>2, <1>3, <1>4, <1>5, <1>6, <1>7, <1>8, <1>9, <1>10, <1>11,
     <1>12, <1>13, <1>14, <1>15, <1>16, <1>17, <1>18, <1>19, <1>20, <1>21,
     <1>22, <1>23, <1>24, <1>25, <1>26, <1>27, <1>28, <1>29, <1>30, <1>31,
     <1>32, <1>33, <1>34, <1>35, <1>36, <1>37, <1>38, <1>39, <1>40, <1>41
     DEF Next, Thread, Reader, Detached

\* Only undefined behaviour is recorded as a fault.
LEMMA FaultKept ==
  ASSUME fault = "none", Next,
         ~(\E c \in Conns : ConnFault(c)),
         ~(\E h \in Handlers : HandlerFault(h))
  PROVE  fault' = "none"
<1> USE HandlerAssumption DEF Goto, FaultVars, connVars, ioVars, listVars,
   handlerVars,
   processVars, Params, ringVars, childVars
<1>1. ASSUME NEW c \in Conns, Accept(c) \/ SelectFails(c) \/
             SelectProtocol(c) \/ SelectSession(c) \/ Assign(c) \/
             SetRunning(c) \/ Launch(c) \/ LaunchFails(c) \/ Launched(c) \/
             Enter(c) \/ Push(c) \/ Add(c)
      PROVE  fault' = "none"
  BY <1>1 DEF Accept, SelectFails, SelectProtocol, SelectSession, Retrieved,
     Assign, SetRunning, Launch, LaunchFails, Launched, Enter, Push, Add
<1>2. ASSUME NEW c \in Conns, WriteLoop(c) \/ WriteDeref(c) \/
             ReadError(c) \/ JoinReader(c) \/ Cleanup(c) \/
             StopProcess(c) \/ StopWait(c) \/ LeaveCreator(c) \/
             LeaveJoiner(c) \/ RemoveProcess(c) \/ Removed(c) \/ Delete(c)
      PROVE  fault' = "none"
  BY <1>2 DEF WriteLoop, WriteDeref, ReadError, JoinReader, Cleanup,
     StopProcess, Stopping, Telling, Stopped, StopWait, LeaveCreator,
     LeaveJoiner, RemoveProcess, Removed, Droppable, Lives, Delete
<1>3. ASSUME NEW c \in Conns, ReadData(c) \/ ClientCloses(c) \/
             ReaderLoop(c) \/ ReaderDeref(c) \/ ReaderError(c) \/
             Failure(c) \/ Drop(c) \/ RemoveUser(c) \/
             SendParam(c) \/ SendStop(c) \/ DataWritten(c) \/ UserEnds(c)
      PROVE  fault' = "none"
  BY <1>3 DEF ReadData, ClientCloses, ReaderLoop, ReaderDeref, ReaderError,
     Failure, Drop, RemoveUser, SendParam, SendStop, DataWritten, UserEnds
<1>4. ASSUME NEW c \in Conns, ConnFault(c)
      PROVE  fault' = "none"
  BY <1>4
<1>5. ASSUME NEW h \in Handlers, ChildEnds(h) \/ ChildReads(h) \/
             HandlerFault(h) \/ Clear(h)
      PROVE  fault' = "none"
  BY <1>5 DEF ChildEnds, ChildReads, Ends, Clear
<1> QED
  BY <1>1, <1>2, <1>3, <1>4, <1>5 DEF Next, Thread, Reader, Detached

\* A connection becomes the creator of a handler with SelectProtocol.
LEMMA MadeBySelect ==
  ASSUME TypeOK, NEW a \in Conns, ~new[a], new[a]', Next
  PROVE  SelectProtocol(a)
<1> USE HandlerAssumption DEF TypeOK, Labels, FoundInv, Before, Assigned,
   Creating, Goto, FaultVars, connVars, ioVars, listVars, handlerVars,
   processVars, Params, ringVars, childVars
<1>1. ASSUME NEW c \in Conns, SelectProtocol(c)
      PROVE  SelectProtocol(a)
  BY <1>1 DEF SelectProtocol
<1>2. ASSUME NEW c \in Conns, Accept(c) \/ SelectFails(c) \/
             SelectSession(c) \/ Assign(c) \/ SetRunning(c) \/ Launch(c) \/
             LaunchFails(c) \/ Launched(c) \/ Enter(c) \/ Push(c) \/
             Add(c) \/ WriteLoop(c)
      PROVE  SelectProtocol(a)
  BY <1>2 DEF Accept, SelectFails, SelectSession, Retrieved, Assign,
     SetRunning, Launch, LaunchFails, Launched, Enter, Push, Add, WriteLoop
<1>3. ASSUME NEW c \in Conns, WriteDeref(c) \/ ReadError(c) \/
             JoinReader(c) \/ Cleanup(c) \/ StopProcess(c) \/ StopWait(c) \/
             LeaveCreator(c) \/ LeaveJoiner(c) \/ RemoveProcess(c) \/ Removed(c) \/
             Delete(c) \/ ReadData(c)
      PROVE  SelectProtocol(a)
  BY <1>3 DEF WriteDeref, ReadError, JoinReader, Cleanup, StopProcess,
     Stopping, Telling, Stopped, StopWait, LeaveCreator, LeaveJoiner, RemoveProcess,
     Removed, Droppable, Lives, Delete, ReadData
<1>4. ASSUME NEW c \in Conns, ClientCloses(c) \/ ReaderLoop(c) \/
             ReaderDeref(c) \/ ReaderError(c) \/ Failure(c) \/ Drop(c) \/
             RemoveUser(c) \/ SendParam(c) \/ SendStop(c) \/ DataWritten(c) \/
             UserEnds(c)
      PROVE  SelectProtocol(a)
  BY <1>4 DEF ClientCloses, ReaderLoop, ReaderDeref, ReaderError, Failure,
     Drop, RemoveUser, SendParam, SendStop, DataWritten, UserEnds
<1>5. ASSUME NEW c \in Conns, ConnFault(c)
      PROVE  SelectProtocol(a)
  BY <1>5, ConnFaultOnly
<1>6. ASSUME NEW h \in Handlers, ChildEnds(h) \/ ChildReads(h) \/
             HandlerFault(h) \/ Clear(h)
      PROVE  SelectProtocol(a)
  BY <1>6 DEF ChildEnds, ChildReads, Ends, HandlerFault, Faults, Clear
<1> QED
  BY <1>1, <1>2, <1>3, <1>4, <1>5, <1>6 DEF Next, Thread, Reader, Detached

\* The session of a connection that is alone.
LEMMA AloneKept ==
  ASSUME TypeOK, FoundInv, CreatorInv, SavedInv, BesideInv, AloneInv, Next
  PROVE  AloneInv'
<1> SUFFICES ASSUME NEW a \in Conns, Alone(a)'
             PROVE  HasSession(a)'
  BY DEF AloneInv
<1>1. CASE new[a]
  <2>1. Alone(a) /\ HasSession(a)
    BY <1>1, StaysAlone DEF AloneInv
  <2>2. found[a]' = found[a]
    BY <1>1, FoundForGood, HandlerAssumption DEF FoundInv
  <2> QED BY <2>1, <2>2, AloneOldKept
<1>2. CASE ~new[a]
  <2>1. SelectProtocol(a)
    BY <1>2, MadeBySelect DEF Alone
  <2>2. found[a] = NoHandler
    BY <2>1 DEF SelectProtocol, FoundInv, Before
  <2> QED BY <2>1, <2>2, HandlerAssumption DEF SelectProtocol, HasSession,
     TypeOK, BesideInv, WithChild, Serving, Params, Goto, handlerVars
<1> QED BY <1>1, <1>2

\* The three faults need a joiner: the creator alone has what it uses.
LEMMA ReachedInOrder ==
  ASSUME TypeOK, FoundInv, CreatorInv, BesideInv, AloneInv,
         NEW c \in Conns, ConnFault(c)
  PROVE  AloneInOrder'
<1>0. \A h \in Handlers : Shared(h)' = Shared(h)
  BY ConnFaultOnly DEF FaultVars, Shared, connVars
<1>1. SUFFICES ASSUME fault' \in
                        {"deleted handler", "null child", "no channel"},
                      \A h \in Handlers : ~Shared(h)
               PROVE  FALSE
  BY <1>0 DEF AloneInOrder
<1>2. UsesDeletedHandler(c) \/ UsesNullChild(c) \/ UsesNoChannel(c)
  BY <1>1 DEF ConnFault, Faults
<1>3. ASSUME found[c] \in Handlers
      PROVE  new[c] /\ Alone(c) /\ HasSession(c)
  BY <1>1, <1>3 DEF AloneInv, Alone, Shared
<1>4. CASE UsesDeletedHandler(c)
  <2>1. found[c] \in Handlers /\ handler[c] = found[c]
    BY <1>4 DEF UsesDeletedHandler, Lives, FoundInv, BesideInv, Assigned,
       Labels, TypeOK
  <2>2. c \notin removers /\ pc[c] = "done"
    BY <1>3, <1>4, <2>1 DEF UsesDeletedHandler, Lives, CreatorInv, HasSession
  <2> QED BY <1>4, <2>2 DEF UsesDeletedHandler, BesideInv
<1>5. CASE UsesNullChild(c)
  <2>1. pc[c] \in WithChild
    BY <1>5 DEF UsesNullChild, BesideInv, WithChild
  <2>2. found[c] \in Handlers /\ handler[c] = found[c]
    BY <2>1 DEF FoundInv, Assigned, Labels, Params, TypeOK, WithChild
  <2> QED BY <1>3, <1>5, <2>1, <2>2 DEF UsesNullChild, HasSession
<1>6. CASE UsesNoChannel(c)
  <2>1. found[c] \in Handlers /\ handler[c] = found[c]
    BY <1>6 DEF UsesNoChannel, FoundInv, Assigned, Labels, TypeOK
  <2> QED BY <1>3, <1>6, <2>1 DEF UsesNoChannel, HasSession, WithChild
<1> QED BY <1>2, <1>4, <1>5, <1>6

\* The other steps record no fault, or the late clear.
LEMMA AloneInOrderKept ==
  ASSUME TypeOK, FoundInv, CreatorInv, BesideInv, AloneInv, Next
  PROVE  AloneInOrder'
<1>0. fault = "none"
  BY DEF Next
<1>1. CASE \E c \in Conns : ConnFault(c)
  BY <1>1, ReachedInOrder
<1>2. CASE \E h \in Handlers : HandlerFault(h)
  BY <1>2 DEF HandlerFault, Faults, AloneInOrder
<1>3. CASE /\ ~(\E c \in Conns : ConnFault(c))
           /\ ~(\E h \in Handlers : HandlerFault(h))
  BY <1>0, <1>3, FaultKept DEF AloneInOrder
<1> QED BY <1>1, <1>2, <1>3

\* The inductive invariant: every state the service reaches satisfies it.
THEOREM Invariance == Spec => []IInv
<1>1. Init => IInv
  <2> SUFFICES ASSUME Init PROVE IInv
    OBVIOUS
  <2>1. \A h \in Handlers : commands[h] = <<>>
    BY DEF Init
  <2>2. commands \in [Handlers -> Seq(Commands)]
    BY <2>1 DEF Init
  <2>3. TypeOK
    BY <2>2 DEF Init, TypeOK, Labels
  <2>4. FoundInv /\ CreatorInv /\ DeletionInv /\ NoneLeft
    BY HandlerAssumption DEF Init, FoundInv, CreatorInv, DeletionInv, NoneLeft,
       Labels, Before, Assigned, Creating, Params
  <2>5. SavedInv /\ BesideInv /\ AloneInv /\ AloneInOrder
    BY DEF Init, SavedInv, BesideInv, AloneInv, Alone, AloneInOrder
  <2> QED BY <2>3, <2>4, <2>5 DEF IInv
<1>2. IInv /\ [Next]_vars => IInv'
  <2>1. ASSUME IInv, Next PROVE IInv'
    BY <2>1, TypesKept, FoundKept, CreatorKept, DeletionKept, NoneLeftKept,
       SavedKept, BesideKept, AloneKept, AloneInOrderKept DEF IInv
  <2>2. ASSUME IInv, UNCHANGED vars PROVE IInv'
    <3>1. TypeOK' /\ FoundInv' /\ CreatorInv' /\ DeletionInv' /\ NoneLeft'
      BY <2>2 DEF IInv, TypeOK, FoundInv, CreatorInv, DeletionInv, NoneLeft,
         vars, connVars, ioVars, listVars, handlerVars,
   processVars, Params, ringVars, childVars
    <3>2. SavedInv' /\ BesideInv'
      BY <2>2 DEF IInv, SavedInv, BesideInv, vars, connVars, ioVars, listVars,
         handlerVars,
   processVars, Params, ringVars, childVars
    <3>3. AloneInv' /\ AloneInOrder'
      BY <2>2 DEF IInv, AloneInv, AloneInOrder, Alone, Shared, HasSession,
         vars, connVars, ioVars, listVars, handlerVars,
   processVars, Params, ringVars, childVars
    <3> QED BY <3>1, <3>2, <3>3 DEF IInv
  <2> QED BY <2>1, <2>2
<1> QED BY <1>1, <1>2, PTL DEF Spec

\* Whatever can be looked up, or is asked for its id by
\* OnClientProcessRemoved, was not deleted.
THEOREM AlwaysListedLives == Spec => []ListedLives
<1>1. IInv => ListedLives
  <2> SUFFICES ASSUME IInv, NEW c \in list PROVE handler[c] \notin deleted
    BY DEF IInv, ListedLives, Lives, DeletionInv
  <2>1. handler[c] \in Handlers => handler[c] = found[c]
    BY DEF IInv, FoundInv, TypeOK
  <2> QED BY <2>1 DEF IInv, DeletionInv, TypeOK
<1> QED BY <1>1, Invariance, PTL

\* The thread of a connection that is through has erased it from the list.
THEOREM AlwaysNoneLeft == Spec => []NoneLeft
<1>1. IInv => NoneLeft
  BY DEF IInv
<1> QED BY <1>1, Invariance, PTL

\* The handler of a session nobody joined is deleted after its child ended.
THEOREM AlwaysNoOrphan == Spec => []NoOrphan
<1>1. IInv => NoOrphan
  <2> SUFFICES ASSUME IInv, NEW h \in deleted, ~Shared(h)
               PROVE  child[h] # "running"
    BY DEF NoOrphan
  <2>1. PICK c \in Conns : new[c] /\ found[c] = h
    BY DEF IInv, CreatorInv
  <2>2. pc[c] = "done"
    BY <2>1 DEF IInv, CreatorInv
  <2> QED BY <2>1, <2>2 DEF IInv, AloneInv, Alone, HasSession
<1> QED BY <1>1, Invariance, PTL

\* IOThread and ConnectionThread are done with the handler, the child and the
\* channel of a session nobody joined before these are gone.
THEOREM AlwaysAloneInOrder == Spec => []AloneInOrder
<1>1. IInv => AloneInOrder
  BY DEF IInv
<1> QED BY <1>1, Invariance, PTL

-----------------------------------------------------------------------------
(* The parser: numbers and sequences.                                      *)

\* A set of natural numbers has a smallest one.
LEMMA SmallestNumber ==
  ASSUME NEW T \in SUBSET Nat, T # {}
  PROVE  \E x \in T : \A y \in T : x <= y
<1> DEFINE R == {p \in Nat \X Nat : p[1] < p[2]}
<1>1. OpToRel(<, Nat) = R
  BY DEF OpToRel
<1>2. IsWellFoundedOn(R, Nat)
  BY <1>1, NatLessThanWellFounded, Zenon
<1>3. PICK x \in T : \A y \in T : ~ (<<y, x>> \in R)
  <2> HIDE DEF R
  <2> QED BY <1>2, WFMin
<1>4. \A y \in T : ~ (y < x)
  BY <1>3
<1> QED
  BY <1>4

\* What holds for 0 and, with a number, for the next one up to n, holds for all
\* up to n.
LEMMA UpTo ==
  ASSUME NEW n \in Nat, NEW P, 0 \in P, \A d \in 1 .. n : d - 1 \in P => d \in P
  PROVE  \A d \in 0 .. n : d \in P
<1> DEFINE T == {d \in 0 .. n : d \notin P}
<1>1. SUFFICES ASSUME T # {} PROVE FALSE
  OBVIOUS
<1>2. PICK d \in T : \A y \in T : d <= y
  <2>1. T \in SUBSET Nat
    OBVIOUS
  <2> HIDE DEF T
  <2> QED BY <1>1, <2>1, SmallestNumber
<1>3. d \in 1 .. n /\ d - 1 \in 0 .. n /\ ~ (d <= d - 1)
  BY <1>2
<1>4. d - 1 \in P
  BY <1>2, <1>3
<1> QED BY <1>2, <1>3, <1>4

\* The elements of a sequence.
LEMMA SequenceIs ==
  ASSUME NEW S, NEW s \in Seq(S)
  PROVE  Len(s) \in Nat /\ \A i \in 1 .. Len(s) : s[i] \in S
OBVIOUS

LEMMA SequenceOf ==
  ASSUME NEW S, NEW s \in Seq(S), NEW T, \A i \in 1 .. Len(s) : s[i] \in T
  PROVE  s \in Seq(T)
OBVIOUS

LEMMA JoinedAre ==
  ASSUME NEW S, NEW s \in Seq(S), NEW t \in Seq(S)
  PROVE  /\ s \o t \in Seq(S) /\ Len(s \o t) = Len(s) + Len(t)
         /\ \A x \in 1 .. Len(s) : (s \o t)[x] = s[x]
         /\ \A x \in Len(s) + 1 .. Len(s) + Len(t) : (s \o t)[x] = t[x - Len(s)]
OBVIOUS

-----------------------------------------------------------------------------
(* Functions that are defined by steps.                                    *)

\* f has a value and what the steps G make of it, one after the other.
FollowsSteps(f, V, n, base, G) ==
  f \in [0 .. n -> V] /\ f[0] = base /\ \A i \in 1 .. n : f[i] = G[<<i, f[i - 1]>>]

LEMMA StepsExist ==
  ASSUME NEW V, NEW n \in Nat, NEW base \in V, NEW G \in [(1 .. n) \X V -> V]
  PROVE  \E f : FollowsSteps(f, V, n, base, G)
<1> DEFINE Steps(d, f) == f[0] = base /\ \A i \in 1 .. d : f[i] = G[<<i, f[i - 1]>>]
           P == {d \in 0 .. n : \E f \in [0 .. d -> V] : Steps(d, f)}
<1>1. 0 \in P
  <2>1. [i \in 0 .. 0 |-> base] \in [0 .. 0 -> V] /\ Steps(0, [i \in 0 .. 0 |-> base])
    OBVIOUS
  <2> HIDE DEF Steps
  <2> QED BY <2>1
<1>2. ASSUME NEW d \in 1 .. n, d - 1 \in P PROVE d \in P
  <2>1. PICK f \in [0 .. d - 1 -> V] : Steps(d - 1, f)
    BY <1>2
  <2> DEFINE g == [i \in 0 .. d |-> IF i < d THEN f[i] ELSE G[<<d, f[d - 1]>>]]
  <2>2. f[d - 1] \in V /\ G[<<d, f[d - 1]>>] \in V
    BY <2>1
  <2>3. g \in [0 .. d -> V]
    BY <2>2
  <2>4. g[0] = base
    BY <2>1
  <2>5. ASSUME NEW i \in 1 .. d PROVE g[i] = G[<<i, g[i - 1]>>]
    <3>1. g[i - 1] = f[i - 1]
      OBVIOUS
    <3>2. CASE i = d
      <4>1. g[d] = G[<<d, f[d - 1]>>]
        OBVIOUS
      <4> HIDE DEF g
      <4> QED BY <3>1, <3>2, <4>1
    <3>3. CASE i # d
      <4>1. i \in 1 .. d - 1 /\ g[i] = f[i]
        BY <3>3
      <4> HIDE DEF g
      <4> QED BY <2>1, <3>1, <4>1
    <3> QED BY <3>2, <3>3
  <2>6. Steps(d, g)
    BY <2>4, <2>5
  <2> HIDE DEF g, Steps
  <2> QED BY <2>3, <2>6
<1>3. n \in P
  <2>1. n \in 0 .. n
    OBVIOUS
  <2> HIDE DEF P
  <2> QED BY <1>1, <1>2, <2>1, UpTo
<1>4. PICK f \in [0 .. n -> V] : Steps(n, f)
  BY <1>3
<1>5. FollowsSteps(f, V, n, base, G)
  BY <1>4 DEF FollowsSteps
<1> QED BY <1>5

\* FlattenSeq joins sequences one after the other.
JoinsTo(s, f) ==
  /\ f[0] = <<>>
  /\ \A i \in 1 .. Len(s) : f[i] = f[i - 1] \o s[i]

LEMMA JoinsExist ==
  ASSUME NEW S, NEW s \in Seq(Seq(S))
  PROVE  \E f \in [0 .. Len(s) -> Seq(S)] : JoinsTo(s, f)
<1> DEFINE G == [p \in (1 .. Len(s)) \X Seq(S) |-> p[2] \o s[p[1]]]
<1>1. G \in [(1 .. Len(s)) \X Seq(S) -> Seq(S)]
  OBVIOUS
<1>2. <<>> \in Seq(S) /\ Len(s) \in Nat
  OBVIOUS
<1>3. PICK f : FollowsSteps(f, Seq(S), Len(s), <<>>, G)
  <2> HIDE DEF G
  <2> QED BY <1>1, <1>2, StepsExist
<1>6. /\ f \in [0 .. Len(s) -> Seq(S)] /\ f[0] = <<>>
      /\ \A i \in 1 .. Len(s) : f[i] = G[<<i, f[i - 1]>>]
  <2> HIDE DEF G
  <2> QED BY <1>3 DEF FollowsSteps
<1>4. ASSUME NEW i \in 1 .. Len(s) PROVE f[i] = f[i - 1] \o s[i]
  <2>1. i - 1 \in 0 .. Len(s) /\ f[i - 1] \in Seq(S)
    <3>1. i - 1 \in 0 .. Len(s)
      BY <1>2
    <3> DEFINE V == Seq(S)
    <3>2. f \in [0 .. Len(s) -> V]
      BY <1>6
    <3> HIDE DEF V, G
    <3>3. f[i - 1] \in V
      BY <3>1, <3>2
    <3> QED BY <3>1, <3>3 DEF V
  <2>2. <<i, f[i - 1]>> \in (1 .. Len(s)) \X Seq(S)
    BY <2>1
  <2>3. G[<<i, f[i - 1]>>] = f[i - 1] \o s[i]
    BY <2>2
  <2> HIDE DEF G
  <2> QED BY <1>6, <2>3
<1>5. JoinsTo(s, f)
  BY <1>4, <1>6 DEF JoinsTo
<1> QED BY <1>5, <1>6

\* There is one way to do so, and it is that of FlattenSeq.
LEMMA FlattenJoins ==
  ASSUME NEW S, NEW s \in Seq(Seq(S)), NEW f \in [0 .. Len(s) -> Seq(S)], JoinsTo(s, f)
  PROVE  FlattenSeq(s) = f[Len(s)]
<1> DEFINE n == Len(s)
           R(h) == h = [i \in 1 .. n |-> IF i = 1 THEN s[i] ELSE h[i - 1] \o s[i]]
           V == CHOOSE h : R(h)
<1>1. CASE n = 0
  BY <1>1 DEF FlattenSeq, JoinsTo
<1>2. CASE n # 0
  <2>1. FlattenSeq(s) = V[n]
    BY <1>2, Zenon DEF FlattenSeq
  <2>2. R([i \in 1 .. n |-> f[i]])
    <3>1. f[1] = s[1]
      <4>1. 1 \in 1 .. n /\ s[1] \in Seq(S) /\ <<>> \o s[1] = s[1] /\ 1 - 1 = 0
        BY <1>2
      <4>2. f[1] = f[1 - 1] \o s[1] /\ f[0] = <<>>
        BY <4>1 DEF JoinsTo
      <4> HIDE DEF n
      <4> QED BY <4>1, <4>2
    <3>2. \A i \in 1 .. n : f[i] = IF i = 1 THEN s[i] ELSE f[i - 1] \o s[i]
      BY <3>1 DEF JoinsTo
    <3>3. \A i \in 1 .. n : i # 1 => i - 1 \in 1 .. n
      OBVIOUS
    <3> DEFINE h == [i \in 1 .. n |-> f[i]]
    <3>4. \A i \in 1 .. n : h[i] = IF i = 1 THEN s[i] ELSE h[i - 1] \o s[i]
      BY <3>2, <3>3
    <3>5. h = [i \in 1 .. n |-> h[i]]
      OBVIOUS
    <3> HIDE DEF h
    <3>6. R(h)
      BY <3>4, <3>5, Zenon
    <3> QED BY <3>6 DEF h
  <2>3. R(V)
    <3> HIDE DEF R
    <3>1. \E h : R(h)
      BY <2>2
    <3> QED BY <3>1, Zenon
  <2>4. \A i \in 1 .. n : V[i] = IF i = 1 THEN s[i] ELSE V[i - 1] \o s[i]
    <3> HIDE DEF V
    <3> QED BY <2>3
  <2> HIDE DEF V
  <2> DEFINE P == {d \in 0 .. n : d = 0 \/ V[d] = f[d]}
  <2>5. \A d \in 1 .. n : d - 1 \in P => d \in P
    <3>1. ASSUME NEW d \in 1 .. n, d - 1 \in P PROVE V[d] = f[d]
      <4>1. f[d] = f[d - 1] \o s[d] /\ f[0] = <<>> /\ V[d] = IF d = 1 THEN s[d] ELSE V[d - 1] \o s[d]
        BY <2>4 DEF JoinsTo
      <4>2. CASE d = 1
        <5>1. s[d] \in Seq(S) /\ <<>> \o s[d] = s[d] /\ d - 1 = 0
          BY <4>2
        <5> HIDE DEF n
        <5> QED BY <4>1, <4>2, <5>1
      <4>3. CASE d # 1
        <5>1. V[d - 1] = f[d - 1]
          BY <3>1, <4>3
        <5> HIDE DEF n, P
        <5> QED BY <4>1, <4>3, <5>1
      <4> QED BY <4>2, <4>3
    <3> QED BY <3>1
  <2>6. n \in P
    <3>1. n \in Nat /\ 0 \in P /\ n \in 0 .. n
      OBVIOUS
    <3> HIDE DEF P, n
    <3> QED BY <2>5, <3>1, UpTo
  <2> QED BY <1>2, <2>1, <2>6
<1> QED BY <1>1, <1>2

\* Where the i-th of several sequences ends when they are joined.
Offset(s, i) == Len(FlattenSeq(SubSeq(s, 1, i)))

\* What FlattenSeq makes, and that of the first i sequences.
LEMMA FlattenIs ==
  ASSUME NEW S, NEW s \in Seq(Seq(S))
  PROVE  /\ FlattenSeq(s) \in Seq(S) /\ Offset(s, 0) = 0
         /\ Offset(s, Len(s)) = Len(FlattenSeq(s))
         /\ \A i \in 0 .. Len(s) : /\ FlattenSeq(SubSeq(s, 1, i)) \in Seq(S)
                                  /\ Offset(s, i) \in Nat
                                  /\ Offset(s, i) <= Len(FlattenSeq(s))
                                  /\ \A x \in 1 .. Offset(s, i) :
                                       FlattenSeq(SubSeq(s, 1, i))[x] = FlattenSeq(s)[x]
         /\ \A i \in 1 .. Len(s) :
              /\ Offset(s, i) = Offset(s, i - 1) + Len(s[i])
              /\ \A b \in 1 .. Len(s[i]) : FlattenSeq(s)[Offset(s, i - 1) + b] = s[i][b]
<1> DEFINE n == Len(s)
<1>1. PICK f \in [0 .. n -> Seq(S)] : JoinsTo(s, f)
  BY JoinsExist
<1>2. n \in Nat /\ \A i \in 0 .. n : f[i] \in Seq(S)
  <2>1. n \in Nat
    OBVIOUS
  <2> DEFINE V == Seq(S)
  <2>2. \A i \in 0 .. n : f[i] \in V
    <3>1. f \in [0 .. n -> V]
      OBVIOUS
    <3> HIDE DEF V, n
    <3> QED BY <3>1
  <2> QED BY <2>1, <2>2
<1>3. ASSUME NEW i \in 0 .. n PROVE FlattenSeq(SubSeq(s, 1, i)) = f[i]
  <2> DEFINE t == SubSeq(s, 1, i)
             g == [j \in 0 .. i |-> f[j]]
  <2>1. t \in Seq(Seq(S)) /\ Len(t) = i /\ \A j \in 1 .. i : t[j] = s[j]
    BY <1>2
  <2>2. g \in [0 .. i -> Seq(S)]
    BY <1>2
  <2>3. JoinsTo(t, g)
    <3>1. g[0] = <<>>
      BY <1>1, <1>2 DEF JoinsTo
    <3>2. ASSUME NEW j \in 1 .. i PROVE g[j] = g[j - 1] \o t[j]
      <4>3. j \in 1 .. Len(s)
        BY <1>2
      <4>1. f[j] = f[j - 1] \o s[j]
        <5> HIDE DEF g, t, n
        <5> QED BY <1>1, <4>3 DEF JoinsTo
      <4>2. g[j] = f[j] /\ g[j - 1] = f[j - 1] /\ t[j] = s[j]
        <5>1. j \in 0 .. i /\ j - 1 \in 0 .. i
          BY <1>2
        <5>2. t[j] = s[j]
          BY <2>1
        <5> HIDE DEF t
        <5> QED BY <5>1, <5>2
      <4> HIDE DEF g, t
      <4> QED BY <4>1, <4>2
    <3> HIDE DEF g, t
    <3> QED BY <2>1, <3>1, <3>2 DEF JoinsTo
  <2>4. FlattenSeq(t) = g[Len(t)]
    <3> HIDE DEF t, g
    <3> QED BY <2>1, <2>2, <2>3, FlattenJoins
  <2>5. g[Len(t)] = f[i]
    BY <2>1
  <2> QED BY <2>4, <2>5
<1>4. FlattenSeq(s) = f[n] /\ f[0] = <<>>
  BY <1>1, FlattenJoins DEF JoinsTo
<1>5. ASSUME NEW i \in 1 .. n
      PROVE  f[i] = f[i - 1] \o s[i] /\ s[i] \in Seq(S) /\ i - 1 \in 0 .. n
  <2>1. f[i] = f[i - 1] \o s[i]
    BY <1>1 DEF JoinsTo
  <2>2. s[i] \in Seq(S)
    OBVIOUS
  <2> QED BY <2>1, <2>2
<1>6. \A i \in 0 .. n : Offset(s, i) = Len(f[i])
  BY <1>3 DEF Offset
<1>7. ASSUME NEW i \in 1 .. n
      PROVE  /\ Len(f[i]) = Len(f[i - 1]) + Len(s[i])
             /\ \A x \in 1 .. Len(f[i - 1]) : f[i][x] = f[i - 1][x]
             /\ \A b \in 1 .. Len(s[i]) : f[i][Len(f[i - 1]) + b] = s[i][b]
  <2> DEFINE a == f[i - 1]
             c == s[i]
  <2>1. a \in Seq(S) /\ c \in Seq(S) /\ f[i] = a \o c
    BY <1>2, <1>5
  <2> HIDE DEF a, c
  <2>2. /\ Len(f[i]) = Len(a) + Len(c)
        /\ \A x \in 1 .. Len(a) : f[i][x] = a[x]
        /\ \A b \in 1 .. Len(c) : f[i][Len(a) + b] = c[b]
    BY <2>1
  <2> QED BY <2>2 DEF a, c
<1>8. ASSUME NEW i \in 0 .. n
      PROVE  Len(f[i]) <= Len(f[n]) /\ \A x \in 1 .. Len(f[i]) : f[n][x] = f[i][x]
  <2> DEFINE Q(d) == Len(f[i]) <= Len(f[d]) /\ \A x \in 1 .. Len(f[i]) : f[d][x] = f[i][x]
             P == {d \in 0 .. n : d >= i => Q(d)}
  <2>1. Q(i) /\ Len(f[i]) \in Nat
    BY <1>2
  <2>2. ASSUME NEW d \in 1 .. n, d - 1 \in P PROVE d \in P
    <3>1. CASE d <= i
      <4>1. d >= i => d = i
        BY <1>2, <3>1
      <4> HIDE DEF Q
      <4> QED BY <2>1, <4>1
    <3>2. CASE d > i
      <4>1. Q(d - 1) /\ Len(f[d - 1]) \in Nat /\ Len(s[d]) \in Nat
        <5>1. d - 1 >= i
          BY <1>2, <3>2
        <5>2. f[d - 1] \in Seq(S) /\ s[d] \in Seq(S)
          BY <1>2, <1>5
        <5> QED BY <2>2, <5>1, <5>2
      <4>2. Q(d)
        <5>1. /\ Len(f[d]) = Len(f[d - 1]) + Len(s[d])
              /\ \A x \in 1 .. Len(f[d - 1]) : f[d][x] = f[d - 1][x]
          BY <1>7
        <5>2. \A x \in 1 .. Len(f[i]) : x \in 1 .. Len(f[d - 1])
          BY <2>1, <4>1
        <5>3. \A x \in 1 .. Len(f[i]) : f[d][x] = f[i][x]
          BY <4>1, <5>1, <5>2
        <5> DEFINE a == Len(f[i])
                   b == Len(f[d - 1])
                   c == Len(s[d])
        <5>4. a \in Nat /\ b \in Nat /\ c \in Nat /\ a <= b
          BY <2>1, <4>1
        <5> HIDE DEF a, b, c
        <5>5. a <= b + c
          BY <5>4
        <5> QED BY <5>1, <5>3, <5>5 DEF a, b, c
      <4> HIDE DEF Q
      <4> QED BY <4>2
    <3> QED BY <1>2, <3>1, <3>2
  <2>3. 0 \in P
    <3>1. 0 >= i => i = 0
      BY <1>2
    <3> HIDE DEF Q
    <3> QED BY <1>2, <2>1, <3>1
  <2>4. n \in P
    <3>1. n \in 0 .. n
      BY <1>2
    <3> HIDE DEF P, n
    <3> QED BY <1>2, <2>2, <2>3, <3>1, UpTo
  <2>5. n >= i
    BY <1>2
  <2> QED BY <2>4, <2>5
<1>9. \A i \in 0 .. n : Len(f[i]) \in Nat
  BY <1>2
<1> HIDE DEF n
<1>10. /\ FlattenSeq(s) \in Seq(S) /\ Offset(s, 0) = 0
       /\ Offset(s, n) = Len(FlattenSeq(s))
  BY <1>2, <1>4, <1>6
<1>11. \A i \in 0 .. n : /\ FlattenSeq(SubSeq(s, 1, i)) \in Seq(S)
                        /\ Offset(s, i) \in Nat
                        /\ Offset(s, i) <= Len(FlattenSeq(s))
                        /\ \A x \in 1 .. Offset(s, i) :
                             FlattenSeq(SubSeq(s, 1, i))[x] = FlattenSeq(s)[x]
  BY <1>2, <1>3, <1>4, <1>6, <1>8, <1>9
<1>12. ASSUME NEW i \in 1 .. n
       PROVE  /\ Offset(s, i) = Offset(s, i - 1) + Len(s[i])
              /\ \A b \in 1 .. Len(s[i]) : FlattenSeq(s)[Offset(s, i - 1) + b] = s[i][b]
  <2>1. i \in 0 .. n /\ i - 1 \in 0 .. n
    BY <1>2
  <2>2. Offset(s, i) = Len(f[i]) /\ Offset(s, i - 1) = Len(f[i - 1])
    BY <1>6, <2>1
  <2>3. ASSUME NEW b \in 1 .. Len(s[i]) PROVE f[n][Len(f[i - 1]) + b] = s[i][b]
    <3>1. Len(f[i - 1]) + b \in 1 .. Len(f[i])
      <4>1. Len(f[i - 1]) \in Nat /\ Len(f[i]) = Len(f[i - 1]) + Len(s[i])
            /\ Len(s[i]) \in Nat
        <5>1. Len(f[i]) = Len(f[i - 1]) + Len(s[i])
          BY <1>7
        <5>2. Len(s[i]) \in Nat
          BY <1>5
        <5> QED BY <1>9, <2>1, <5>1, <5>2
      <4> DEFINE a == Len(f[i - 1])
                 c == Len(s[i])
      <4>2. a \in Nat /\ c \in Nat /\ Len(f[i]) = a + c /\ b \in 1 .. c
        BY <4>1
      <4> HIDE DEF a, c
      <4>3. a + b \in 1 .. a + c
        BY <4>2
      <4> QED BY <4>2, <4>3 DEF a
    <3>2. f[i][Len(f[i - 1]) + b] = s[i][b]
      BY <1>7
    <3>3. f[n][Len(f[i - 1]) + b] = f[i][Len(f[i - 1]) + b]
      BY <1>8, <2>1, <3>1
    <3> QED BY <3>2, <3>3
  <2> QED BY <1>4, <1>7, <2>2, <2>3
<1> QED BY <1>10, <1>11, <1>12 DEF n

LEMMA OffsetsGrow ==
  ASSUME NEW S, NEW s \in Seq(Seq(S)), NEW i \in 0 .. Len(s), NEW j \in i .. Len(s)
  PROVE  Offset(s, i) <= Offset(s, j)
<1> DEFINE n == Len(s)
           P == {d \in 0 .. n : d >= i => Offset(s, i) <= Offset(s, d)}
<1>1. \A d \in 0 .. n : Offset(s, d) \in Nat
  BY FlattenIs
<1>2. \A d \in 1 .. n : Offset(s, d) = Offset(s, d - 1) + Len(s[d]) /\ Len(s[d]) \in Nat
  BY FlattenIs
<1>3. n \in Nat
  OBVIOUS
<1> HIDE DEF n
<1>4. 0 \in P
  <2>1. 0 >= i => i = 0
    OBVIOUS
  <2> QED BY <1>1, <1>3, <2>1
<1>5. ASSUME NEW d \in 1 .. n, d - 1 \in P PROVE d \in P
  <2>1. Offset(s, d) >= Offset(s, d - 1) /\ d \in 0 .. n
    <3>1. d - 1 \in 0 .. n /\ d \in 0 .. n
      BY <1>3
    <3>2. Offset(s, d - 1) \in Nat /\ Offset(s, d) \in Nat
      BY <1>1, <3>1
    <3> DEFINE y == Offset(s, d - 1)
               z == Offset(s, d)
               l == Len(s[d])
    <3>3. y \in Nat /\ z \in Nat /\ l \in Nat /\ z = y + l
      BY <1>2, <3>2
    <3> HIDE DEF y, z, l
    <3>4. z >= y
      BY <3>3
    <3> QED BY <3>1, <3>4 DEF y, z
  <2>2. CASE d <= i
    <3>1. d >= i => d = i
      BY <2>2
    <3> QED BY <1>1, <2>1, <3>1
  <2>3. CASE d > i
    <3>1. d - 1 >= i /\ d - 1 \in 0 .. n /\ i \in 0 .. n
      BY <2>3 DEF n
    <3> QED BY <1>1, <1>5, <2>1, <3>1
  <2> QED BY <2>2, <2>3
<1>6. j \in P
  <2>1. \A d \in 0 .. n : d \in P
    <3> HIDE DEF P
    <3> QED BY <1>3, <1>4, <1>5, UpTo
  <2> QED BY <2>1 DEF n
<1> QED BY <1>6

\* Whatever is among the first n sequences that are joined is in one of them.
LEMMA PlaceOf ==
  ASSUME NEW S, NEW s \in Seq(Seq(S)), NEW n \in 0 .. Len(s), NEW x \in 1 .. Offset(s, n)
  PROVE  \E i \in 1 .. n : \E b \in 1 .. Len(s[i]) : x = Offset(s, i - 1) + b
<1> DEFINE Found(d) == \A y \in 1 .. Offset(s, d) :
             \E i \in 1 .. d : \E b \in 1 .. Len(s[i]) : y = Offset(s, i - 1) + b
           P == {d \in 0 .. n : Found(d)}
<1>1. \A d \in 0 .. n : Offset(s, d) \in Nat
  BY FlattenIs
<1>2. ASSUME NEW d \in 1 .. n
      PROVE  Offset(s, d) = Offset(s, d - 1) + Len(s[d]) /\ Len(s[d]) \in Nat
  <2>1. d \in 1 .. Len(s)
    OBVIOUS
  <2> QED BY <2>1, FlattenIs
<1>3. n \in Nat /\ Offset(s, 0) = 0
  BY FlattenIs
<1>4. 0 \in P
  BY <1>3
<1>5. ASSUME NEW d \in 1 .. n, d - 1 \in P PROVE d \in P
  <2>1. ASSUME NEW y \in 1 .. Offset(s, d)
        PROVE  \E i \in 1 .. d : \E b \in 1 .. Len(s[i]) : y = Offset(s, i - 1) + b
    <3>1. CASE y <= Offset(s, d - 1)
      <4>1. y \in 1 .. Offset(s, d - 1)
        BY <1>1, <3>1
      <4>2. PICK i \in 1 .. d - 1 : \E b \in 1 .. Len(s[i]) : y = Offset(s, i - 1) + b
        BY <1>5, <4>1
      <4>3. i \in 1 .. d
        OBVIOUS
      <4> QED BY <4>2, <4>3
    <3>2. CASE y > Offset(s, d - 1)
      <4>1. d - 1 \in 0 .. n /\ Offset(s, d - 1) \in Nat
        BY <1>1, <1>3
      <4> DEFINE z == Offset(s, d - 1)
                 l == Len(s[d])
      <4>2. z \in Nat /\ l \in Nat /\ y \in 1 .. z + l /\ y > z
        BY <1>2, <3>2, <4>1
      <4> HIDE DEF z, l
      <4>3. y - z \in 1 .. l /\ y = z + (y - z)
        BY <4>2
      <4> QED BY <4>3 DEF z, l
    <3> QED BY <1>1, <3>1, <3>2
  <2> QED BY <2>1
<1>6. n \in P
  <2>1. n \in 0 .. n
    BY <1>3
  <2> HIDE DEF P
  <2> QED BY <1>3, <1>4, <1>5, <2>1, UpTo
<1> QED BY <1>6

-----------------------------------------------------------------------------
(* Numbers.                                                                *)

\* The bytes that are written.
Symbols == STRING \cup {DigitSymbols[i] : i \in 1 .. 10} \cup {".", ",", ";"}

\* The values of a number as its digits are read.
Values(s, v) ==
  /\ v \in [0 .. Len(s) -> Nat] /\ v[0] = 0
  /\ \A d \in 1 .. Len(s) : IsDigit(s[d]) /\ v[d] = v[d - 1] * Base + Value(s[d])
  /\ \A d \in 0 .. Len(s) : v[d] <= v[Len(s)]

Writes(s, n) ==
  s \in Seq(Symbols) /\ s # <<>> /\ \E v : Values(s, v) /\ v[Len(s)] = n

LEMMA DigitIs ==
  ASSUME NEW m \in 0 .. Base - 1
  PROVE  Digit(m) \in Symbols /\ IsDigit(Digit(m)) /\ Value(Digit(m)) = m
<1>1. m + 1 \in 1 .. Base /\ m + 1 \in 1 .. 10
  BY BaseAssumption
<1>2. \A i, j \in 1 .. 10 : DigitSymbols[i] = DigitSymbols[j] => i = j
  BY DEF DigitSymbols
<1>3. DigitSymbols[m + 1] \in Symbols
  <2> HIDE DEF DigitSymbols
  <2> QED BY <1>1 DEF Symbols
<1>4. \A i \in 1 .. Base : DigitSymbols[i] = DigitSymbols[m + 1] => i = m + 1
  BY <1>1, <1>2, BaseAssumption
<1> HIDE DEF DigitSymbols
<1> QED BY <1>1, <1>3, <1>4 DEF Digit, IsDigit, Value

LEMMA OtherIsNoDigit ==
  ~IsDigit(".")
<1>1. \A i \in 1 .. 10 : DigitSymbols[i] # "."
  BY DEF DigitSymbols
<1> QED BY <1>1, BaseAssumption DEF IsDigit

LEMMA DigitValue ==
  ASSUME NEW byte, IsDigit(byte) PROVE Value(byte) \in Nat
<1>1. PICK i \in 1 .. Base : DigitSymbols[i] = byte
  BY DEF IsDigit
<1>2. (CHOOSE k \in 1 .. Base : DigitSymbols[k] = byte) \in 1 .. Base
  BY <1>1
<1> QED BY <1>2, BaseAssumption DEF Value

LEMMA DivideByBase ==
  ASSUME NEW m \in Nat
  PROVE  /\ m \div Base \in Nat /\ m % Base \in 0 .. Base - 1
         /\ m = (m \div Base) * Base + (m % Base) /\ m \div Base <= m
         /\ m >= Base => m \div Base < m
<1> Base \in 2 .. 10
  BY BaseAssumption
<1> DEFINE Goal(b) == /\ m \div b \in Nat /\ m % b \in 0 .. b - 1
                      /\ m = (m \div b) * b + (m % b) /\ m \div b <= m
                      /\ m >= b => m \div b < m
<1>1. Goal(2) /\ Goal(3) /\ Goal(4)
  OBVIOUS
<1>2. Goal(5) /\ Goal(6) /\ Goal(7)
  OBVIOUS
<1>3. Goal(8) /\ Goal(9) /\ Goal(10)
  OBVIOUS
<1>4. Base \in {2, 3, 4, 5, 6, 7, 8, 9, 10}
  OBVIOUS
<1>5. Goal(Base)
  <2> HIDE DEF Goal
  <2> QED BY <1>1, <1>2, <1>3, <1>4
<1> QED BY <1>5

\* A digit more.
LEMMA AppendDigit ==
  ASSUME NEW s, NEW q \in Nat, Writes(s, q), NEW r \in 0 .. Base - 1
  PROVE  Writes(Append(s, Digit(r)), q * Base + r)
<1> DEFINE n == Len(s)
           t == Append(s, Digit(r))
<1>1. PICK v : Values(s, v) /\ v[n] = q
  BY DEF Writes
<1>2. n \in Nat /\ s \in Seq(Symbols) /\ Digit(r) \in Symbols /\ r \in Nat /\ Base \in 2 .. 10
  BY DigitIs, BaseAssumption DEF Writes
<1>3. t \in Seq(Symbols) /\ t # <<>> /\ Len(t) = n + 1 /\ t[n + 1] = Digit(r)
      /\ \A d \in 1 .. n : t[d] = s[d]
  <2> DEFINE S == Symbols
             x == Digit(r)
  <2>1. s \in Seq(S) /\ x \in S
    BY <1>2
  <2> HIDE DEF S, x
  <2>2. Append(s, x) \in Seq(S) /\ Append(s, x) # <<>> /\ Len(Append(s, x)) = n + 1
        /\ Append(s, x)[n + 1] = x /\ \A d \in 1 .. n : Append(s, x)[d] = s[d]
    BY <2>1
  <2> QED BY <2>2 DEF S, x
<1>4. v \in [0 .. n -> Nat] /\ v[0] = 0
      /\ (\A d \in 1 .. n : IsDigit(s[d]) /\ v[d] = v[d - 1] * Base + Value(s[d]))
      /\ \A d \in 0 .. n : v[d] <= v[n]
  BY <1>1 DEF Values
<1> DEFINE e == q * Base + r
           w == [d \in 0 .. n + 1 |-> IF d <= n THEN v[d] ELSE e]
<1>5. e \in Nat /\ q <= e
  BY <1>2, Base \in {2, 3, 4, 5, 6, 7, 8, 9, 10}
<1> HIDE DEF e, t
<1>6. w \in [0 .. n + 1 -> Nat] /\ w[0] = 0 /\ w[n + 1] = e
      /\ \A d \in 0 .. n : w[d] = v[d]
  <2> HIDE DEF n
  <2> QED BY <1>2, <1>4, <1>5
<1>7. ASSUME NEW d \in 1 .. n + 1
      PROVE  IsDigit(t[d]) /\ w[d] = w[d - 1] * Base + Value(t[d])
  <2>1. CASE d \in 1 .. n
    <3>1. d - 1 \in 0 .. n /\ d \in 0 .. n
      BY <1>2, <2>1
    <3> HIDE DEF w, n
    <3> QED BY <1>3, <1>4, <1>6, <2>1, <3>1
  <2>2. CASE d = n + 1
    <3>1. d - 1 = n /\ n \in 0 .. n
      BY <1>2, <2>2
    <3>2. IsDigit(Digit(r)) /\ Value(Digit(r)) = r
      BY DigitIs
    <3> HIDE DEF w, n
    <3> QED BY <1>1, <1>3, <1>6, <2>2, <3>1, <3>2 DEF e
  <2> HIDE DEF n
  <2> QED BY <1>2, <2>1, <2>2
<1>8. ASSUME NEW d \in 0 .. n + 1 PROVE w[d] <= w[n + 1]
  <2>1. CASE d \in 0 .. n
    <3>1. v[d] <= q /\ v[d] \in Nat
      <4> HIDE DEF w, n
      <4> QED BY <1>1, <1>4, <2>1
    <3> HIDE DEF w, n
    <3> QED BY <1>5, <1>6, <2>1, <3>1
  <2>2. CASE d = n + 1
    <3> HIDE DEF w, n
    <3> QED BY <1>5, <1>6, <2>2
  <2> HIDE DEF n
  <2> QED BY <1>2, <2>1, <2>2
<1>9. Values(t, w)
  <2> HIDE DEF w, n
  <2> QED BY <1>3, <1>6, <1>7, <1>8 DEF Values
<1> HIDE DEF w, n
<1>10. Writes(t, e)
  BY <1>3, <1>6, <1>9 DEF Writes
<1> QED BY <1>10 DEF t, e

LEMMA OneDigit ==
  ASSUME NEW m \in 0 .. Base - 1 PROVE Writes(<<Digit(m)>>, m)
<1> DEFINE s == <<Digit(m)>>
           v == [d \in 0 .. 1 |-> IF d = 0 THEN 0 ELSE m]
<1>1. Digit(m) \in Symbols /\ IsDigit(Digit(m)) /\ Value(Digit(m)) = m /\ m \in Nat
  BY DigitIs, BaseAssumption
<1>2. s \in Seq(Symbols) /\ s # <<>> /\ Len(s) = 1 /\ s[1] = Digit(m)
  BY <1>1
<1>3. v \in [0 .. 1 -> Nat] /\ v[0] = 0 /\ v[1] = m
  BY <1>1
<1> HIDE DEF s, v
<1>4. Values(s, v)
  <2>1. \A d \in 1 .. 1 : d = 1 /\ d - 1 = 0
    OBVIOUS
  <2>2. 0 * Base + m = m
    BY <1>1, BaseAssumption
  <2>3. \A d \in 0 .. 1 : v[d] <= v[1]
    BY <1>1, <1>3, \A d \in 0 .. 1 : d = 0 \/ d = 1
  <2> QED BY <1>1, <1>2, <1>3, <2>1, <2>2, <2>3 DEF Values
<1>5. Writes(s, m)
  BY <1>2, <1>3, <1>4 DEF Writes
<1> QED BY <1>5 DEF s

\* The digits of all numbers up to n.
Writings(f, n) ==
  f = [m \in 0 .. n |-> IF m < Base THEN <<Digit(m)>>
                        ELSE Append(f[m \div Base], Digit(m % Base))]

LEMMA WritingsExist ==
  ASSUME NEW n \in Nat PROVE \E f : Writings(f, n)
<1> DEFINE Q == {d \in 0 .. n : \E f : Writings(f, d)}
<1>1. 0 \in Q
  <2> DEFINE f == [m \in 0 .. 0 |-> <<Digit(0)>>]
  <2>1. \A m \in 0 .. 0 : m = 0 /\ m < Base
    BY BaseAssumption
  <2>2. f = [m \in 0 .. 0 |-> IF m < Base THEN <<Digit(m)>>
                              ELSE Append(f[m \div Base], Digit(m % Base))]
    <3>1. \A m \in 0 .. 0 : f[m] = IF m < Base THEN <<Digit(m)>>
                              ELSE Append(f[m \div Base], Digit(m % Base))
      BY <2>1
    <3>2. f = [m \in 0 .. 0 |-> f[m]]
      OBVIOUS
    <3> HIDE DEF f
    <3> QED BY <3>1, <3>2
  <2>3. Writings(f, 0)
    BY <2>2, Zenon DEF Writings
  <2> HIDE DEF f
  <2> QED BY <2>3
<1>2. ASSUME NEW d \in 1 .. n, d - 1 \in Q PROVE d \in Q
  <2>1. PICK f : Writings(f, d - 1)
    BY <1>2
  <2>2. \A m \in 0 .. d - 1 :
          f[m] = IF m < Base THEN <<Digit(m)>> ELSE Append(f[m \div Base], Digit(m % Base))
    BY <2>1 DEF Writings
  <2> DEFINE g == [m \in 0 .. d |->
                IF m < d THEN f[m] ELSE
                IF m < Base THEN <<Digit(m)>> ELSE Append(f[m \div Base], Digit(m % Base))]
  <2>3. ASSUME NEW m \in 0 .. d
        PROVE  g[m] = IF m < Base THEN <<Digit(m)>> ELSE Append(g[m \div Base], Digit(m % Base))
    <3>1. g[m] = IF m < Base THEN <<Digit(m)>> ELSE Append(f[m \div Base], Digit(m % Base))
      BY <2>2
    <3>2. m >= Base => m \div Base \in 0 .. d /\ m \div Base < d
      BY DivideByBase
    <3>3. m >= Base => g[m \div Base] = f[m \div Base]
      BY <3>2
    <3> HIDE DEF g
    <3>4. m \in Nat /\ Base \in Nat
      BY BaseAssumption
    <3> QED BY <3>1, <3>3, <3>4
  <2>4. g = [m \in 0 .. d |-> g[m]]
    OBVIOUS
  <2> HIDE DEF g
  <2>5. Writings(g, d)
    BY <2>3, <2>4 DEF Writings
  <2> QED BY <2>5
<1>3. n \in 0 .. n
  OBVIOUS
<1> HIDE DEF Q
<1>4. n \in Q
  BY <1>1, <1>2, <1>3, UpTo
<1> QED BY <1>4 DEF Q

LEMMA NumberIs ==
  ASSUME NEW n \in Nat PROVE Writes(Number(n), n)
<1> DEFINE V == CHOOSE f : Writings(f, n)
<1>1. Number(n) = V[n]
  BY Zenon DEF Number, Writings
<1>2. Writings(V, n)
  BY WritingsExist
<1> HIDE DEF V
<1>3. \A m \in 0 .. n :
        V[m] = IF m < Base THEN <<Digit(m)>> ELSE Append(V[m \div Base], Digit(m % Base))
  BY <1>2 DEF Writings
<1> DEFINE Q == {d \in 0 .. n : \A m \in 0 .. d : Writes(V[m], m)}
<1>4. ASSUME NEW m \in 0 .. n, \A i \in 0 .. n : i < m => Writes(V[i], i)
      PROVE  Writes(V[m], m)
  <2>1. CASE m < Base
    <3>1. m \in 0 .. Base - 1
      BY <2>1, BaseAssumption
    <3> QED BY <1>3, <2>1, <3>1, OneDigit
  <2>2. CASE m >= Base
    <3>1. V[m] = Append(V[m \div Base], Digit(m % Base))
      <4>1. ~ (m < Base) /\ m \in 0 .. n
        BY <2>2, BaseAssumption
      <4> QED BY <1>3, <4>1, Zenon
    <3>2. /\ m \div Base \in 0 .. n /\ m \div Base < m /\ m % Base \in 0 .. Base - 1
          /\ m = (m \div Base) * Base + (m % Base)
      BY <2>2, DivideByBase
    <3>3. Writes(V[m \div Base], m \div Base)
      BY <1>4, <3>2
    <3> DEFINE q == m \div Base
               r == m % Base
    <3>4. q \in Nat /\ r \in 0 .. Base - 1 /\ V[m] = Append(V[q], Digit(r))
          /\ m = q * Base + r /\ Writes(V[q], q)
      BY <3>1, <3>2, <3>3
    <3> HIDE DEF q, r
    <3>5. Writes(Append(V[q], Digit(r)), q * Base + r)
      BY <3>4, AppendDigit
    <3> QED BY <3>4, <3>5
  <2> QED BY <2>1, <2>2, BaseAssumption
<1>5. 0 \in Q
  BY <1>4
<1>6. ASSUME NEW d \in 1 .. n, d - 1 \in Q PROVE d \in Q
  <2>1. \A i \in 0 .. n : i < d => Writes(V[i], i)
    BY <1>6
  <2>2. Writes(V[d], d)
    BY <1>4, <2>1
  <2>3. \A m \in 0 .. d : m = d \/ (m \in 0 .. n /\ m < d)
    OBVIOUS
  <2> QED BY <2>1, <2>2, <2>3
<1>7. n \in Q
  <2>1. n \in 0 .. n
    OBVIOUS
  <2> HIDE DEF Q
  <2> QED BY <1>5, <1>6, <2>1, UpTo
<1> QED BY <1>1, <1>7

\* The value of the first d digits of n.
Partial(n, d) ==
  LET v == CHOOSE v : Values(Number(n), v) /\ v[Len(Number(n))] = n
  IN  v[d]

LEMMA PartialIs ==
  ASSUME NEW n \in Nat
  PROVE  /\ Number(n) \in Seq(Symbols) /\ Len(Number(n)) \in Nat \ {0}
         /\ Partial(n, 0) = 0 /\ Partial(n, Len(Number(n))) = n
         /\ \A d \in 0 .. Len(Number(n)) : Partial(n, d) \in Nat /\ Partial(n, d) <= n
         /\ \A d \in 1 .. Len(Number(n)) :
              /\ IsDigit(Number(n)[d])
              /\ Partial(n, d) = Partial(n, d - 1) * Base + Value(Number(n)[d])
<1> DEFINE s == Number(n)
           v == CHOOSE v : Values(s, v) /\ v[Len(s)] = n
<1>1. Writes(s, n)
  BY NumberIs
<1> HIDE DEF s
<1>2. s \in Seq(Symbols) /\ s # <<>> /\ \E w : Values(s, w) /\ w[Len(s)] = n
  BY <1>1 DEF Writes
<1>3. Values(s, v) /\ v[Len(s)] = n
  BY <1>2
<1>4. \A d : Partial(n, d) = v[d]
  BY DEF Partial, s
<1> HIDE DEF v
<1>5. Len(s) \in Nat \ {0}
  BY <1>2
<1>6. /\ v \in [0 .. Len(s) -> Nat] /\ v[0] = 0
      /\ \A d \in 1 .. Len(s) : IsDigit(s[d]) /\ v[d] = v[d - 1] * Base + Value(s[d])
      /\ \A d \in 0 .. Len(s) : v[d] <= v[Len(s)]
  BY <1>3 DEF Values
<1>7. /\ Partial(n, 0) = 0 /\ Partial(n, Len(s)) = n
      /\ \A d \in 0 .. Len(s) : Partial(n, d) \in Nat /\ Partial(n, d) <= n
  BY <1>3, <1>4, <1>6
<1>8. \A d \in 1 .. Len(s) :
        IsDigit(s[d]) /\ Partial(n, d) = Partial(n, d - 1) * Base + Value(s[d])
  BY <1>4, <1>6
<1> QED BY <1>2, <1>5, <1>7, <1>8 DEF s

-----------------------------------------------------------------------------
(* Where the parts of an input are.                                        *)

Instructions(in) == [k \in 1 .. Len(in.instructions) |-> Instruction(in.instructions[k])]
BytesOf(in) == FlattenSeq(Instructions(in)) \o in.rest
Parts(elements) ==
  [i \in 1 .. Len(elements) |->
     Element(elements[i]) \o <<IF i = Len(elements) THEN ";" ELSE ",">>]

\* The bytes before an instruction, an element of it, its content and what
\* follows a number of characters of that.
Start(in, k) == Offset(Instructions(in), k - 1)
Begin(in, k, j) == Start(in, k) + Offset(Parts(in.instructions[k]), j - 1)
After(in, k, j, c) ==
  Begin(in, k, j) + Len(Number(Len(in.instructions[k][j]))) + 1
                  + Offset(in.instructions[k][j], c)

LEMMA Joined ==
  ASSUME NEW S, NEW s \in Seq(S), NEW t \in Seq(S)
  PROVE  /\ s \o t \in Seq(S) /\ Len(s) \in Nat /\ Len(t) \in Nat
         /\ Len(s \o t) = Len(s) + Len(t)
         /\ \A x \in 1 .. Len(s) : (s \o t)[x] = s[x]
         /\ \A x \in 1 .. Len(t) : (s \o t)[Len(s) + x] = t[x]
OBVIOUS

IsElement(e) ==
  e \in Seq(Seq(Symbols)) /\ \A c \in 1 .. Len(e) : IsCharacter(e[c])

LEMMA ElementIs ==
  ASSUME NEW e, IsElement(e)
  PROVE  LET number == Number(Len(e))
             l == Len(number)
             m == Len(FlattenSeq(e))
         IN  /\ Element(e) \in Seq(Symbols) /\ l \in Nat /\ m \in Nat
             /\ Len(Element(e)) = l + 1 + m
             /\ \A d \in 1 .. l : Element(e)[d] = number[d]
             /\ Element(e)[l + 1] = "."
             /\ \A x \in 1 .. m : Element(e)[l + 1 + x] = FlattenSeq(e)[x]
<1> DEFINE number == Number(Len(e))
           l == Len(number)
           flat == FlattenSeq(e)
           m == Len(flat)
           head == number \o <<".">>
<1>1. e \in Seq(Seq(Symbols)) /\ Len(e) \in Nat
  BY DEF IsElement
<1>2. number \in Seq(Symbols) /\ flat \in Seq(Symbols)
  BY <1>1, PartialIs, FlattenIs
<1>3. <<".">> \in Seq(Symbols) /\ Len(<<".">>) = 1 /\ <<".">>[1] = "."
  BY DEF Symbols
<1>4. Element(e) = head \o flat
  BY DEF Element
<1> HIDE DEF number, flat
<1>5. /\ head \in Seq(Symbols) /\ l \in Nat /\ Len(head) = l + 1
      /\ (\A x \in 1 .. l : head[x] = number[x]) /\ head[l + 1] = "."
  BY <1>2, <1>3
<1> HIDE DEF head
<1>6. /\ head \o flat \in Seq(Symbols) /\ m \in Nat /\ Len(head \o flat) = l + 1 + m
      /\ \A x \in 1 .. l + 1 : (head \o flat)[x] = head[x]
      /\ \A x \in 1 .. m : (head \o flat)[l + 1 + x] = flat[x]
  <2>1. /\ head \o flat \in Seq(Symbols) /\ Len(flat) \in Nat
        /\ Len(head \o flat) = Len(head) + Len(flat)
        /\ \A x \in 1 .. Len(head) : (head \o flat)[x] = head[x]
        /\ \A x \in 1 .. Len(flat) : (head \o flat)[Len(head) + x] = flat[x]
    <3>1. head \in Seq(Symbols) /\ flat \in Seq(Symbols)
      BY <1>2, <1>5
    <3> HIDE DEF m, l
    <3> QED BY <3>1
  <2> QED BY <1>5, <2>1
<1>7. \A x \in 1 .. l : x \in 1 .. l + 1
  BY <1>5
<1>8. l + 1 \in 1 .. l + 1
  BY <1>5
<1> HIDE DEF l, m
<1>9. /\ Element(e) \in Seq(Symbols) /\ l \in Nat /\ m \in Nat
      /\ Len(Element(e)) = l + 1 + m
      /\ \A d \in 1 .. l : Element(e)[d] = number[d]
      /\ Element(e)[l + 1] = "."
      /\ \A x \in 1 .. m : Element(e)[l + 1 + x] = flat[x]
  BY <1>4, <1>5, <1>6, <1>7, <1>8
<1> QED BY <1>9 DEF l, m, number, flat

\* The parts of what is written of an element.
LEMMA CharactersAre ==
  ASSUME NEW e, IsElement(e)
  PROVE  /\ Offset(e, 0) = 0 /\ Offset(e, Len(e)) = Len(FlattenSeq(e))
         /\ \A c \in 0 .. Len(e) : /\ Offset(e, c) \in Nat
                                   /\ Offset(e, c) <= Len(FlattenSeq(e))
         /\ \A c \in 1 .. Len(e) :
              /\ Offset(e, c) = Offset(e, c - 1) + CharSize(e[c][1])
              /\ FlattenSeq(e)[Offset(e, c - 1) + 1] = e[c][1]
         /\ \A x \in 1 .. Len(FlattenSeq(e)) : FlattenSeq(e)[x] # "0"
<1>1. e \in Seq(Seq(Symbols)) /\ Len(e) \in Nat
  BY DEF IsElement
<1>2. \A c \in 1 .. Len(e) : e[c] \in Seq(Symbols) /\ e[c] # <<>>
        /\ Len(e[c]) = CharSize(e[c][1]) /\ \A b \in 1 .. Len(e[c]) : e[c][b] # "0"
  BY <1>1 DEF IsElement, IsCharacter
<1>3. \A c \in 1 .. Len(e) : 1 \in 1 .. Len(e[c])
  <2> SUFFICES ASSUME NEW c \in 1 .. Len(e) PROVE 1 \in 1 .. Len(e[c])
    OBVIOUS
  <2>1. e[c] \in Seq(Symbols) /\ e[c] # <<>>
    BY <1>2
  <2> QED BY <2>1
<1>4. /\ Offset(e, 0) = 0 /\ Offset(e, Len(e)) = Len(FlattenSeq(e))
      /\ \A c \in 0 .. Len(e) : /\ Offset(e, c) \in Nat
                                /\ Offset(e, c) <= Len(FlattenSeq(e))
      /\ \A c \in 1 .. Len(e) :
           /\ Offset(e, c) = Offset(e, c - 1) + Len(e[c])
           /\ \A b \in 1 .. Len(e[c]) : FlattenSeq(e)[Offset(e, c - 1) + b] = e[c][b]
  BY <1>1, FlattenIs
<1>5. ASSUME NEW x \in 1 .. Len(FlattenSeq(e)) PROVE FlattenSeq(e)[x] # "0"
  <2>1. Len(e) \in 0 .. Len(e) /\ x \in 1 .. Offset(e, Len(e))
    BY <1>1, <1>4
  <2>2. PICK c \in 1 .. Len(e) : \E b \in 1 .. Len(e[c]) : x = Offset(e, c - 1) + b
    BY <1>1, <2>1, PlaceOf
  <2>3. PICK b \in 1 .. Len(e[c]) : x = Offset(e, c - 1) + b
    BY <2>2
  <2>4. FlattenSeq(e)[Offset(e, c - 1) + b] = e[c][b] /\ e[c][b] # "0"
    BY <1>2, <1>4
  <2> QED BY <2>3, <2>4
<1> QED BY <1>2, <1>3, <1>4, <1>5

IsInstruction(els) ==
  /\ els # <<>> /\ Len(els) \in Nat \ {0}
  /\ \A j \in 1 .. Len(els) : IsElement(els[j])

LEMMA PartsAre ==
  ASSUME NEW els, IsInstruction(els)
  PROVE  /\ Parts(els) \in Seq(Seq(Symbols)) /\ Len(Parts(els)) = Len(els)
         /\ Instruction(els) = FlattenSeq(Parts(els))
         /\ \A j \in 1 .. Len(els) :
              /\ Len(Parts(els)[j]) = Len(Element(els[j])) + 1
              /\ \A x \in 1 .. Len(Element(els[j])) : Parts(els)[j][x] = Element(els[j])[x]
              /\ Parts(els)[j][Len(Element(els[j])) + 1] = IF j = Len(els) THEN ";" ELSE ","
<1>1. ASSUME NEW j \in 1 .. Len(els)
      PROVE  LET p == Element(els[j]) \o <<IF j = Len(els) THEN ";" ELSE ",">>
             IN  /\ p \in Seq(Symbols) /\ Len(p) = Len(Element(els[j])) + 1
                 /\ \A x \in 1 .. Len(Element(els[j])) : p[x] = Element(els[j])[x]
                 /\ p[Len(Element(els[j])) + 1] = IF j = Len(els) THEN ";" ELSE ","
  <2> DEFINE t == IF j = Len(els) THEN ";" ELSE ","
             w == Element(els[j])
  <2>1. w \in Seq(Symbols)
    <3>1. IsElement(els[j])
      BY DEF IsInstruction
    <3> QED BY <3>1, ElementIs
  <2>2. <<t>> \in Seq(Symbols) /\ Len(<<t>>) = 1 /\ <<t>>[1] = t
    BY DEF Symbols
  <2> HIDE DEF t, w
  <2>3. /\ w \o <<t>> \in Seq(Symbols) /\ Len(w \o <<t>>) = Len(w) + 1
        /\ \A x \in 1 .. Len(w) : (w \o <<t>>)[x] = w[x]
        /\ (w \o <<t>>)[Len(w) + 1] = t
    BY <2>1, <2>2
  <2> QED BY <2>3 DEF t, w
<1>2. Len(els) \in Nat
  BY DEF IsInstruction
<1>3. Parts(els) \in [1 .. Len(els) -> Seq(Symbols)]
  BY <1>1 DEF Parts
<1>4. Parts(els) \in Seq(Seq(Symbols)) /\ Len(Parts(els)) = Len(els)
  <2> DEFINE T == Seq(Symbols)
             p == Parts(els)
  <2>1. p \in [1 .. Len(els) -> T]
    BY <1>3
  <2> HIDE DEF T, p
  <2>2. p \in Seq(T) /\ Len(p) = Len(els)
    BY <1>2, <2>1
  <2> QED BY <2>2 DEF T, p
<1>5. \A j \in 1 .. Len(els) :
        Parts(els)[j] = Element(els[j]) \o <<IF j = Len(els) THEN ";" ELSE ",">>
  BY DEF Parts
<1>6. Instruction(els) = FlattenSeq(Parts(els))
  BY Zenon DEF Instruction, Parts
<1>7. ASSUME NEW j \in 1 .. Len(els)
      PROVE  /\ Len(Parts(els)[j]) = Len(Element(els[j])) + 1
             /\ \A x \in 1 .. Len(Element(els[j])) : Parts(els)[j][x] = Element(els[j])[x]
             /\ Parts(els)[j][Len(Element(els[j])) + 1] = IF j = Len(els) THEN ";" ELSE ","
  <2> DEFINE p == Element(els[j]) \o <<IF j = Len(els) THEN ";" ELSE ",">>
  <2>1. Parts(els)[j] = p
    BY <1>5
  <2>2. /\ Len(p) = Len(Element(els[j])) + 1
        /\ \A x \in 1 .. Len(Element(els[j])) : p[x] = Element(els[j])[x]
        /\ p[Len(Element(els[j])) + 1] = IF j = Len(els) THEN ";" ELSE ","
    BY <1>1
  <2> HIDE DEF p
  <2> QED BY <2>1, <2>2
<1> QED BY <1>4, <1>6, <1>7

\* An element's length and content are in some bytes, after the first o ones.
WrittenAt(bytes, o, number, flat) ==
  /\ \A d \in 1 .. Len(number) : bytes[o + d] = number[d]
  /\ bytes[o + Len(number) + 1] = "."
  /\ \A x \in 1 .. Len(flat) : bytes[o + Len(number) + 1 + x] = flat[x]

LEMMA PartIs ==
  ASSUME NEW els, IsInstruction(els), NEW j \in 1 .. Len(els)
  PROVE  LET o == Offset(Parts(els), j - 1)
             written == Instruction(els)
             l == Len(Number(Len(els[j])))
             m == Len(FlattenSeq(els[j]))
         IN  /\ written \in Seq(Symbols) /\ Offset(Parts(els), 0) = 0
             /\ Offset(Parts(els), Len(els)) = Len(written) /\ Len(written) \in Nat
             /\ o \in Nat /\ l \in Nat /\ m \in Nat
             /\ Offset(Parts(els), j) = o + l + m + 2
             /\ Offset(Parts(els), j) <= Len(written)
             /\ WrittenAt(written, o, Number(Len(els[j])), FlattenSeq(els[j]))
             /\ written[o + l + m + 2] = IF j = Len(els) THEN ";" ELSE ","
<1> DEFINE p == Parts(els)
           o == Offset(p, j - 1)
           written == Instruction(els)
           e == els[j]
           number == Number(Len(e))
           l == Len(number)
           flat == FlattenSeq(e)
           m == Len(flat)
           w == Element(e)
           t == IF j = Len(els) THEN ";" ELSE ","
<1>1. /\ p \in Seq(Seq(Symbols)) /\ Len(p) = Len(els) /\ written = FlattenSeq(p)
      /\ Len(p[j]) = Len(w) + 1 /\ (\A x \in 1 .. Len(w) : p[j][x] = w[x])
      /\ p[j][Len(w) + 1] = t
  <2>1. /\ Parts(els) \in Seq(Seq(Symbols)) /\ Len(Parts(els)) = Len(els)
        /\ Instruction(els) = FlattenSeq(Parts(els))
        /\ Len(Parts(els)[j]) = Len(Element(els[j])) + 1
        /\ \A x \in 1 .. Len(Element(els[j])) : Parts(els)[j][x] = Element(els[j])[x]
        /\ Parts(els)[j][Len(Element(els[j])) + 1] = IF j = Len(els) THEN ";" ELSE ","
    <3>1. /\ Parts(els) \in Seq(Seq(Symbols)) /\ Len(Parts(els)) = Len(els)
          /\ Instruction(els) = FlattenSeq(Parts(els))
      BY PartsAre, Zenon
    <3>2. /\ Len(Parts(els)[j]) = Len(Element(els[j])) + 1
          /\ \A x \in 1 .. Len(Element(els[j])) : Parts(els)[j][x] = Element(els[j])[x]
          /\ Parts(els)[j][Len(Element(els[j])) + 1] = IF j = Len(els) THEN ";" ELSE ","
      BY PartsAre, Zenon
    <3> QED BY <3>1, <3>2, Zenon
  <2> QED BY <2>1, Zenon
<1>2. IsElement(e) /\ Len(els) \in Nat \ {0}
  BY DEF IsInstruction
<1>3. /\ l \in Nat /\ m \in Nat /\ Len(w) = l + 1 + m
      /\ (\A d \in 1 .. l : w[d] = number[d]) /\ w[l + 1] = "."
      /\ \A x \in 1 .. m : w[l + 1 + x] = flat[x]
  BY <1>2, ElementIs, Zenon
<1>4. /\ written \in Seq(Symbols) /\ Offset(p, 0) = 0
      /\ Offset(p, Len(els)) = Len(written) /\ Len(written) \in Nat
      /\ o \in Nat /\ Offset(p, j) <= Len(written)
      /\ Offset(p, j) = o + Len(p[j])
      /\ \A b \in 1 .. Len(p[j]) : written[o + b] = p[j][b]
  <2>1. j \in 1 .. Len(p) /\ j \in 0 .. Len(p) /\ j - 1 \in 0 .. Len(p)
    <3>1. Len(p) = Len(els) /\ Len(els) \in Nat
      BY <1>1, <1>2, Zenon
    <3> HIDE DEF p
    <3> QED BY <3>1
  <2>2. p \in Seq(Seq(Symbols))
    BY <1>1, Zenon
  <2>4. Len(p) = Len(els) /\ written = FlattenSeq(p)
    BY <1>1, Zenon
  <2> HIDE DEF p
  <2>3. /\ FlattenSeq(p) \in Seq(Symbols) /\ Offset(p, 0) = 0
        /\ Offset(p, Len(p)) = Len(FlattenSeq(p))
        /\ Offset(p, j - 1) \in Nat /\ Offset(p, j) <= Len(FlattenSeq(p))
        /\ Offset(p, j) = Offset(p, j - 1) + Len(p[j])
        /\ \A b \in 1 .. Len(p[j]) : FlattenSeq(p)[Offset(p, j - 1) + b] = p[j][b]
    BY <2>1, <2>2, FlattenIs
  <2>5. \A s \in Seq(Symbols) : Len(s) \in Nat
    OBVIOUS
  <2> HIDE DEF written
  <2> QED BY <2>3, <2>4, <2>5
<1> HIDE DEF p, o, written, e, number, l, flat, m, w, t
<1>5. Offset(p, j) = o + l + m + 2 /\ written[o + l + m + 2] = t
  <2>1. Len(p[j]) = l + m + 2 /\ l + m + 2 \in 1 .. Len(p[j]) /\ Len(w) + 1 = l + m + 2
    BY <1>1, <1>3
  <2>2. written[o + (l + m + 2)] = t
    BY <1>1, <1>4, <2>1
  <2>3. o + (l + m + 2) = o + l + m + 2
    BY <1>3, <1>4
  <2> QED BY <1>4, <2>1, <2>2, <2>3
<1>6. ASSUME NEW x \in 1 .. Len(w) PROVE written[o + x] = w[x]
  <2>1. x \in 1 .. Len(p[j])
    BY <1>1, <1>3
  <2> QED BY <1>1, <1>4, <2>1
<1>7. ASSUME NEW d \in 1 .. l PROVE written[o + d] = number[d]
  BY <1>3, <1>6
<1>8. written[o + l + 1] = "."
  <2>1. l + 1 \in 1 .. Len(w) /\ o + (l + 1) = o + l + 1
    BY <1>3, <1>4
  <2> QED BY <1>3, <1>6, <2>1
<1>9. ASSUME NEW x \in 1 .. m PROVE written[o + l + 1 + x] = flat[x]
  <2>1. l + 1 + x \in 1 .. Len(w) /\ o + (l + 1 + x) = o + l + 1 + x
    BY <1>3, <1>4
  <2> QED BY <1>3, <1>6, <2>1
<1>10. WrittenAt(written, o, number, flat)
  BY <1>7, <1>8, <1>9 DEF WrittenAt, l, m
<1> QED BY <1>3, <1>4, <1>5, <1>10, Zenon DEF p, o, written, e, number, l, flat, m, t

\* An input that is allowed.
IsInput(in) ==
  /\ Len(in.instructions) \in Nat /\ in.rest \in Seq(Symbols)
  /\ \A k \in 1 .. Len(in.instructions) : IsInstruction(in.instructions[k])
  /\ \A b \in 1 .. Len(in.rest) : in.rest[b] # ";"

LEMMA InputIs ==
  ASSUME NEW in \in Inputs PROVE IsInput(in)
<1> DEFINE S1 == Seq(STRING)
           S2 == Seq(S1)
           S3 == Seq(S2)
           n == Len(in.instructions)
<1>1. /\ in.instructions \in Seq(S3) /\ in.rest \in Seq(STRING)
      /\ \A k \in 1 .. n :
           /\ in.instructions[k] # <<>>
           /\ \A j \in 1 .. Len(in.instructions[k]) :
                \A c \in 1 .. Len(in.instructions[k][j]) : IsCharacter(in.instructions[k][j][c])
      /\ \A b \in 1 .. Len(in.rest) : in.rest[b] # ";"
  BY InputAssumption, Zenon
<1>2. n \in Nat /\ \A k \in 1 .. n : in.instructions[k] \in S3
  <2>1. in.instructions \in Seq(S3)
    BY <1>1
  <2> HIDE DEF S3
  <2> QED BY <2>1, SequenceIs
<1>3. ASSUME NEW s \in Seq(STRING) PROVE s \in Seq(Symbols)
  <2>1. \A i \in 1 .. Len(s) : s[i] \in Symbols
    BY SequenceIs DEF Symbols
  <2> QED BY <2>1, SequenceOf
<1>4. ASSUME NEW k \in 1 .. n PROVE IsInstruction(in.instructions[k])
  <2> DEFINE els == in.instructions[k]
  <2>1. els \in S3 /\ els # <<>>
    BY <1>1, <1>2
  <2>2. /\ Len(els) \in Nat \ {0} /\ \A j \in 1 .. Len(els) : els[j] \in S2
    <3> HIDE DEF S2, els
    <3> QED BY <2>1
  <2>3. ASSUME NEW j \in 1 .. Len(els) PROVE IsElement(els[j])
    <3> DEFINE e == els[j]
    <3>1. e \in Seq(S1) /\ Len(e) \in Nat
      <4> HIDE DEF S1, els
      <4> QED BY <2>2
    <3>2. \A c \in 1 .. Len(e) : e[c] \in S1
      <4> HIDE DEF S1, e
      <4> QED BY <3>1
    <3>3. \A c \in 1 .. Len(e) : e[c] \in Seq(Symbols)
      <4> HIDE DEF e
      <4> QED BY <1>3, <3>2
    <3>4. e \in Seq(Seq(Symbols))
      <4> HIDE DEF e, S1
      <4> QED BY <3>1, <3>3, SequenceOf
    <3>5. \A c \in 1 .. Len(e) : IsCharacter(e[c])
      BY <1>1
    <3> QED BY <3>4, <3>5 DEF IsElement
  <2> QED BY <2>1, <2>2, <2>3 DEF IsInstruction
<1> QED BY <1>1, <1>2, <1>3, <1>4 DEF IsInput

LEMMA InstructionsAre ==
  ASSUME NEW in, IsInput(in)
  PROVE  LET n == Len(in.instructions)
         IN  /\ BytesOf(in) \in Seq(Symbols) /\ Len(BytesOf(in)) \in Nat
             /\ Start(in, 1) = 0
             /\ Len(BytesOf(in)) = Start(in, n + 1) + Len(in.rest) /\ Len(in.rest) \in Nat
             /\ \A x \in (Start(in, n + 1) + 1) .. Len(BytesOf(in)) : BytesOf(in)[x] # ";"
             /\ \A k \in 0 .. n :
                  /\ Start(in, k + 1) \in Nat /\ Start(in, k + 1) <= Start(in, n + 1)
                  /\ FlattenSeq(SubSeq(Instructions(in), 1, k)) \in Seq(Symbols)
                  /\ Len(FlattenSeq(SubSeq(Instructions(in), 1, k))) = Start(in, k + 1)
                  /\ \A x \in 1 .. Start(in, k + 1) :
                       FlattenSeq(SubSeq(Instructions(in), 1, k))[x] = BytesOf(in)[x]
             /\ \A k \in 1 .. n :
                  /\ Start(in, k + 1) = Start(in, k) + Len(Instruction(in.instructions[k]))
                  /\ \A x \in 1 .. Len(Instruction(in.instructions[k])) :
                       BytesOf(in)[Start(in, k) + x] = Instruction(in.instructions[k])[x]
<1> DEFINE n == Len(in.instructions)
           s == Instructions(in)
           flat == FlattenSeq(s)
           B == BytesOf(in)
           W(k) == Instruction(in.instructions[k])
<1>1. n \in Nat /\ in.rest \in Seq(Symbols) /\ \A b \in 1 .. Len(in.rest) : in.rest[b] # ";"
  BY DEF IsInput
<1>0. n \in Nat
  BY <1>1
<1>2. ASSUME NEW k \in 1 .. n PROVE W(k) \in Seq(Symbols)
  <2>1. IsInstruction(in.instructions[k])
    BY DEF IsInput
  <2>2. 1 \in 1 .. Len(in.instructions[k])
    BY <2>1 DEF IsInstruction
  <2> QED BY <2>1, <2>2, PartIs, Zenon
<1>3. s \in Seq(Seq(Symbols)) /\ Len(s) = n /\ \A k \in 1 .. n : s[k] = W(k)
  <2> DEFINE T == Seq(Symbols)
  <2>1. s = [k \in 1 .. n |-> W(k)]
    BY DEF Instructions
  <2>2. \A k \in 1 .. n : W(k) \in T
    BY <1>2
  <2> HIDE DEF T, W, s, n
  <2>3. s \in Seq(T) /\ Len(s) = n
    BY <1>0, <2>1, <2>2
  <2> QED BY <2>1, <2>3 DEF T
<1>4. B = flat \o in.rest
  BY DEF BytesOf
<1>5. /\ flat \in Seq(Symbols) /\ Offset(s, 0) = 0 /\ Offset(s, n) = Len(flat)
      /\ \A i \in 0 .. n : /\ FlattenSeq(SubSeq(s, 1, i)) \in Seq(Symbols)
                           /\ Offset(s, i) \in Nat
                           /\ Offset(s, i) <= Len(flat)
                           /\ \A x \in 1 .. Offset(s, i) :
                                FlattenSeq(SubSeq(s, 1, i))[x] = flat[x]
      /\ \A i \in 1 .. n :
              /\ Offset(s, i) = Offset(s, i - 1) + Len(W(i))
              /\ \A b \in 1 .. Len(W(i)) : flat[Offset(s, i - 1) + b] = W(i)[b]
  <2> HIDE DEF n, W
  <2>1. /\ FlattenSeq(s) \in Seq(Symbols) /\ Offset(s, 0) = 0 /\ Offset(s, Len(s)) = Len(FlattenSeq(s))
        /\ \A i \in 0 .. Len(s) : /\ FlattenSeq(SubSeq(s, 1, i)) \in Seq(Symbols)
                           /\ Offset(s, i) \in Nat
                           /\ Offset(s, i) <= Len(FlattenSeq(s))
                           /\ \A x \in 1 .. Offset(s, i) :
                                FlattenSeq(SubSeq(s, 1, i))[x] = FlattenSeq(s)[x]
    BY <1>3, FlattenIs
  <2>2. \A i \in 1 .. Len(s) :
              /\ Offset(s, i) = Offset(s, i - 1) + Len(s[i])
              /\ \A b \in 1 .. Len(s[i]) : FlattenSeq(s)[Offset(s, i - 1) + b] = s[i][b]
    BY <1>3, FlattenIs
  <2> HIDE DEF s
  <2> QED BY <1>3, <2>1, <2>2
<1>6. /\ B \in Seq(Symbols) /\ Len(flat) \in Nat /\ Len(in.rest) \in Nat
      /\ Len(B) = Len(flat) + Len(in.rest)
      /\ \A x \in 1 .. Len(flat) : B[x] = flat[x]
      /\ \A x \in 1 .. Len(in.rest) : B[Len(flat) + x] = in.rest[x]
  <2> DEFINE r == in.rest
  <2>1. flat \in Seq(Symbols) /\ r \in Seq(Symbols) /\ B = flat \o r
    BY <1>1, <1>4, <1>5
  <2> HIDE DEF r, flat, B
  <2>2. /\ B \in Seq(Symbols) /\ Len(flat) \in Nat /\ Len(r) \in Nat
        /\ Len(B) = Len(flat) + Len(r)
        /\ \A x \in 1 .. Len(flat) : B[x] = flat[x]
        /\ \A x \in 1 .. Len(r) : B[Len(flat) + x] = r[x]
    BY <2>1
  <2> QED BY <2>2 DEF r
<1>7. \A k \in Nat : Start(in, k + 1) = Offset(s, k)
  BY \A k \in Nat : (k + 1) - 1 = k DEF Start
<1>8. Start(in, 1) = Offset(s, 0)
  BY DEF Start
<1>9. \A k \in 1 .. n : Start(in, k) = Offset(s, k - 1)
  BY DEF Start
<1> HIDE DEF n, s, flat, B, W
<1>10. Start(in, n + 1) = Len(flat)
  BY <1>0, <1>5, <1>7
<1>11. ASSUME NEW x \in (Start(in, n + 1) + 1) .. Len(B) PROVE B[x] # ";"
  <2>1. x - Len(flat) \in 1 .. Len(in.rest) /\ Len(flat) + (x - Len(flat)) = x
    BY <1>6, <1>10
  <2> QED BY <1>1, <1>6, <2>1
<1>12. ASSUME NEW k \in 0 .. n
       PROVE  /\ Start(in, k + 1) \in Nat /\ Start(in, k + 1) <= Start(in, n + 1)
              /\ FlattenSeq(SubSeq(s, 1, k)) \in Seq(Symbols)
              /\ Len(FlattenSeq(SubSeq(s, 1, k))) = Start(in, k + 1)
              /\ \A x \in 1 .. Start(in, k + 1) : FlattenSeq(SubSeq(s, 1, k))[x] = B[x]
  <2>1. Start(in, k + 1) = Offset(s, k)
    BY <1>0, <1>7
  <2>2. Len(FlattenSeq(SubSeq(s, 1, k))) = Start(in, k + 1)
    BY <2>1 DEF Offset
  <2>3. \A x \in 1 .. Offset(s, k) : x \in 1 .. Len(flat)
    BY <1>5, <1>6
  <2> QED BY <1>5, <1>6, <1>10, <2>1, <2>2, <2>3
<1>13. ASSUME NEW k \in 1 .. n
       PROVE  /\ Start(in, k + 1) = Start(in, k) + Len(W(k))
              /\ \A x \in 1 .. Len(W(k)) : B[Start(in, k) + x] = W(k)[x]
  <2>1. Start(in, k + 1) = Offset(s, k) /\ Start(in, k) = Offset(s, k - 1)
    BY <1>0, <1>7, <1>9
  <2>2. Offset(s, k) <= Len(flat) /\ Offset(s, k) = Offset(s, k - 1) + Len(W(k))
        /\ Offset(s, k - 1) \in Nat /\ Len(W(k)) \in Nat
    <3>1. k \in 0 .. n /\ k - 1 \in 0 .. n
      BY <1>0
    <3>2. Len(W(k)) \in Nat
      BY <1>2, SequenceIs
    <3> QED BY <1>5, <3>1, <3>2
  <2>3. ASSUME NEW x \in 1 .. Len(W(k)) PROVE B[Start(in, k) + x] = W(k)[x]
    <3>1. Offset(s, k - 1) + x \in 1 .. Len(flat)
      BY <1>6, <2>2
    <3> QED BY <1>5, <1>6, <2>1, <3>1
  <2> QED BY <2>1, <2>2, <2>3
<1>14. /\ B \in Seq(Symbols) /\ Len(B) \in Nat
       /\ Start(in, 1) = 0
       /\ Len(B) = Start(in, n + 1) + Len(in.rest) /\ Len(in.rest) \in Nat
  <2> DEFINE r == Len(in.rest)
             b == Len(B)
  <2>1. b = Len(flat) + r /\ Len(flat) \in Nat /\ r \in Nat /\ B \in Seq(Symbols)
    BY <1>6
  <2> HIDE DEF r, b
  <2>2. b \in Nat /\ b = Start(in, n + 1) + r
    BY <1>10, <2>1
  <2>3. Start(in, 1) = 0
    BY <1>5, <1>8
  <2> QED BY <2>1, <2>2, <2>3 DEF r, b
<1> QED BY <1>11, <1>12, <1>13, <1>14, Zenon DEF n, s, B, W

\* Where the bytes of an element are in those of an input.
ElementLies(in, k, j) ==
  LET els == in.instructions[k]
      e == els[j]
      l == Len(Number(Len(e)))
      m == Len(FlattenSeq(e))
      o == Begin(in, k, j)
      last == After(in, k, j, Len(e))
      B == BytesOf(in)
  IN  /\ o \in Nat /\ l \in Nat \ {0} /\ m \in Nat /\ Len(e) \in Nat
      /\ Begin(in, k, 1) = Start(in, k) /\ Start(in, k) <= o
      /\ After(in, k, j, 0) = o + l + 1
      /\ \A c \in 0 .. Len(e) :
           /\ After(in, k, j, c) \in Nat
           /\ o + l + 1 <= After(in, k, j, c) /\ After(in, k, j, c) <= last
      /\ last = o + l + 1 + m
      /\ last + 1 <= Start(in, k + 1) /\ Start(in, k + 1) \in Nat
      /\ Start(in, k + 1) <= Len(B)
      /\ j # Len(els) => Begin(in, k, j + 1) = last + 1
      /\ j = Len(els) => Start(in, k + 1) = last + 1
      /\ \A d \in 1 .. l : B[o + d] = Number(Len(e))[d]
      /\ B[o + l + 1] = "."
      /\ \A c \in 1 .. Len(e) :
           /\ After(in, k, j, c) = After(in, k, j, c - 1) + CharSize(e[c][1])
           /\ B[After(in, k, j, c - 1) + 1] = e[c][1]
      /\ B[last + 1] = IF j = Len(els) THEN ";" ELSE ","
      /\ \A x \in 1 .. m : /\ B[o + l + 1 + x] = FlattenSeq(e)[x]
                           /\ FlattenSeq(e)[x] # "0"

LEMMA ElementAt ==
  ASSUME NEW in, IsInput(in), NEW k \in 1 .. Len(in.instructions),
         NEW j \in 1 .. Len(in.instructions[k])
  PROVE  ElementLies(in, k, j)
<1> DEFINE n == Len(in.instructions)
           els == in.instructions[k]
           W == Instruction(els)
           e == els[j]
           l == Len(Number(Len(e)))
           flat == FlattenSeq(e)
           m == Len(flat)
           s == Start(in, k)
           p == Offset(Parts(els), j - 1)
           o == Begin(in, k, j)
           A(c) == After(in, k, j, c)
           B == BytesOf(in)
           F(c) == Offset(e, c)
<1>1. IsInstruction(els) /\ IsElement(e) /\ n \in Nat
  BY DEF IsInput, IsInstruction
<1>2. o = s + p /\ \A c : A(c) = o + l + 1 + F(c)
  BY DEF Begin, After
<1>3. /\ Start(in, k + 1) = s + Len(W) /\ \A x \in 1 .. Len(W) : B[s + x] = W[x]
  BY <1>1, InstructionsAre, Zenon
<1>4. s \in Nat /\ Start(in, k + 1) \in Nat /\ Start(in, k + 1) <= Len(B) /\ Len(B) \in Nat
  <2>1. k \in 0 .. n /\ k - 1 \in 0 .. n /\ (k - 1) + 1 = k /\ k + 1 \in Nat
    BY <1>1
  <2>2. s \in Nat
    <3>1. Start(in, (k - 1) + 1) \in Nat
      BY <2>1, InstructionsAre, Zenon
    <3> QED BY <2>1, <3>1
  <2>3. /\ Start(in, k + 1) \in Nat /\ Start(in, k + 1) <= Start(in, n + 1)
        /\ Len(B) = Start(in, n + 1) + Len(in.rest) /\ Len(in.rest) \in Nat
        /\ Len(B) \in Nat
    BY <2>1, InstructionsAre, Zenon
  <2>4. Start(in, n + 1) \in Nat
    <3>1. n \in 0 .. n
      BY <1>1
    <3> QED BY <3>1, InstructionsAre, Zenon
  <2> HIDE DEF n, s, B
  <2>5. Start(in, k + 1) <= Len(B)
    BY <2>3, <2>4
  <2> QED BY <2>2, <2>3, <2>5
<1>5. /\ Offset(Parts(els), 0) = 0 /\ Offset(Parts(els), Len(els)) = Len(W) /\ Len(W) \in Nat
      /\ p \in Nat /\ l \in Nat /\ m \in Nat
      /\ Offset(Parts(els), j) = p + l + m + 2 /\ Offset(Parts(els), j) <= Len(W)
      /\ \A d \in 1 .. l : W[p + d] = Number(Len(e))[d]
      /\ W[p + l + 1] = "."
      /\ \A x \in 1 .. m : W[p + l + 1 + x] = flat[x]
      /\ W[p + l + m + 2] = IF j = Len(els) THEN ";" ELSE ","
  <2>0. j \in 1 .. Len(els) /\ IsInstruction(els)
    BY <1>1
  <2> HIDE DEF els
  <2>1. /\ Offset(Parts(els), 0) = 0 /\ Offset(Parts(els), Len(els)) = Len(W)
        /\ Len(W) \in Nat /\ p \in Nat /\ l \in Nat /\ m \in Nat
    BY <2>0, PartIs, Zenon
  <2>2. Offset(Parts(els), j) = p + l + m + 2 /\ Offset(Parts(els), j) <= Len(W)
    BY <2>0, PartIs, Zenon
  <2>3. WrittenAt(W, p, Number(Len(e)), flat)
    BY <2>0, PartIs, Zenon
  <2>4. /\ \A d \in 1 .. l : W[p + d] = Number(Len(e))[d]
        /\ W[p + l + 1] = "."
        /\ \A x \in 1 .. m : W[p + l + 1 + x] = flat[x]
    BY <2>3, Zenon DEF WrittenAt
  <2>6. W[p + l + m + 2] = IF j = Len(els) THEN ";" ELSE ","
    BY <2>0, PartIs, Zenon
  <2> QED BY <2>1, <2>2, <2>4, <2>6, Zenon
<1>6. Len(e) \in Nat /\ l \in Nat \ {0}
  <2>1. Len(e) \in Nat
    BY <1>1 DEF IsElement
  <2> QED BY <2>1, PartialIs
<1>7. /\ F(0) = 0 /\ F(Len(e)) = m
      /\ \A c \in 0 .. Len(e) : F(c) \in Nat /\ F(c) <= m
      /\ \A c \in 1 .. Len(e) :
           F(c) = F(c - 1) + CharSize(e[c][1]) /\ flat[F(c - 1) + 1] = e[c][1]
      /\ \A x \in 1 .. m : flat[x] # "0"
  BY <1>1, CharactersAre, Zenon
<1>8. \A c \in Nat : CharSize(e[c][1]) \in {1, 2}
  BY DEF CharSize
<1>9. Begin(in, k, 1) = Start(in, k) + Offset(Parts(els), 0)
  BY DEF Begin
<1>10. Begin(in, k, j + 1) = s + Offset(Parts(els), j)
  <2>1. (j + 1) - 1 = j
    BY <1>1 DEF IsInstruction
  <2> QED BY <2>1 DEF Begin
<1>11. j \in Nat
  OBVIOUS
<1> DEFINE q == Len(W)
           lenE == Len(e)
           t == IF j = Len(els) THEN ";" ELSE ","
           nr == Number(Len(e))
           P(i) == Offset(Parts(els), i)
           M == Len(els)
<1>12. W[p + l + m + 2] = t /\ \A d \in 1 .. l : W[p + d] = nr[d]
  BY <1>5, Zenon
<1>13. /\ P(0) = 0 /\ P(M) = q /\ q \in Nat /\ P(j) = p + l + m + 2 /\ P(j) <= q
       /\ p \in Nat /\ l \in Nat \ {0} /\ m \in Nat /\ lenE \in Nat /\ s \in Nat
       /\ Start(in, k + 1) = s + q /\ o = s + p
       /\ Begin(in, k, 1) = s + P(0) /\ Begin(in, k, j + 1) = s + P(j)
  BY <1>2, <1>3, <1>4, <1>5, <1>6, <1>9, <1>10, Zenon
<1>14. /\ F(0) = 0 /\ F(lenE) = m
       /\ \A c \in 0 .. lenE : F(c) \in Nat /\ F(c) <= m
       /\ \A c \in 1 .. lenE :
            F(c) = F(c - 1) + CharSize(e[c][1]) /\ flat[F(c - 1) + 1] = e[c][1]
       /\ \A x \in 1 .. m : flat[x] # "0"
  BY <1>7, Zenon
<1>15. /\ \A x \in 1 .. q : B[s + x] = W[x]
       /\ W[p + l + 1] = "." /\ \A x \in 1 .. m : W[p + l + 1 + x] = flat[x]
  BY <1>3, <1>5, Zenon
<1>16. Start(in, k + 1) \in Nat /\ Start(in, k + 1) <= Len(B)
  BY <1>4, Zenon
<1>17. \A c : A(c) = o + l + 1 + F(c)
  BY <1>2, Zenon
<1> HIDE DEF n, els, W, e, l, flat, m, s, p, o, A, B, F, q, lenE, t, nr, P, M
<1>19. /\ o \in Nat /\ Begin(in, k, 1) = s /\ s <= o /\ A(0) = o + l + 1
       /\ A(lenE) = o + l + 1 + m /\ A(lenE) + 1 <= Start(in, k + 1)
       /\ Begin(in, k, j + 1) = A(lenE) + 1
       /\ j = M => Start(in, k + 1) = A(lenE) + 1
  <2>1. A(0) = o + l + 1 + F(0) /\ A(lenE) = o + l + 1 + F(lenE) /\ F(0) = 0 /\ F(lenE) = m
    BY <1>14, <1>17, Zenon
  <2> DEFINE a == A(lenE)
             b == Start(in, k + 1)
  <2>2. o = s + p /\ o \in Nat /\ s <= o
    BY <1>13
  <2>3. A(0) = o + l + 1 /\ a = o + l + 1 + m
    BY <1>13, <2>1, <2>2
  <2>4. b = s + q /\ p + l + m + 2 <= q
    BY <1>13
  <2> HIDE DEF a, b
  <2>5. a + 1 <= b
    BY <1>13, <2>2, <2>3, <2>4
  <2>6. Begin(in, k, 1) = s /\ Begin(in, k, j + 1) = a + 1
    BY <1>13, <2>2, <2>3
  <2>7. j = M => b = a + 1
    <3>1. j = M => q = p + l + m + 2
      BY <1>13
    <3> QED BY <1>13, <2>2, <2>3, <2>4, <3>1
  <2> QED BY <2>2, <2>3, <2>5, <2>6, <2>7 DEF a, b
<1>20. ASSUME NEW c \in 0 .. lenE
       PROVE  A(c) \in Nat /\ o + l + 1 <= A(c) /\ A(c) <= A(lenE)
  <2>1. A(c) = o + l + 1 + F(c) /\ F(c) \in Nat /\ F(c) <= m
    BY <1>14, <1>17
  <2> DEFINE f == F(c)
             a == A(c)
             z == A(lenE)
  <2>2. f \in Nat /\ f <= m /\ a = o + l + 1 + f /\ z = o + l + 1 + m
    BY <1>19, <2>1
  <2> HIDE DEF f, a, z
  <2>3. a \in Nat /\ o + l + 1 <= a /\ a <= z
    BY <1>13, <1>19, <2>2
  <2> QED BY <2>3 DEF a, z
<1>21. ASSUME NEW d \in 1 .. l PROVE B[o + d] = nr[d]
  <2>1. p + d \in 1 .. q /\ o + d = s + (p + d)
    BY <1>13
  <2> QED BY <1>12, <1>15, <2>1
<1>22. B[o + l + 1] = "."
  <2>1. p + l + 1 \in 1 .. q /\ o + l + 1 = s + (p + l + 1)
    BY <1>13
  <2> QED BY <1>15, <2>1
<1>23. ASSUME NEW x \in 1 .. m PROVE B[o + l + 1 + x] = flat[x] /\ flat[x] # "0"
  <2>1. p + l + 1 + x \in 1 .. q /\ o + l + 1 + x = s + (p + l + 1 + x)
    BY <1>13
  <2> QED BY <1>14, <1>15, <2>1
<1>24. B[A(lenE) + 1] = t
  <2>1. p + l + m + 2 \in 1 .. q /\ A(lenE) + 1 = s + (p + l + m + 2)
    BY <1>13, <1>19
  <2> QED BY <1>12, <1>15, <2>1
<1>25. ASSUME NEW c \in 1 .. lenE
       PROVE  A(c) = A(c - 1) + CharSize(e[c][1]) /\ B[A(c - 1) + 1] = e[c][1]
  <2>1. c - 1 \in 0 .. lenE /\ c \in 0 .. lenE /\ c \in Nat
    BY <1>13
  <2>2. CharSize(e[c][1]) \in {1, 2}
    BY <1>8, <2>1
  <2>3. F(c - 1) \in Nat /\ F(c) <= m /\ F(c) = F(c - 1) + CharSize(e[c][1])
        /\ flat[F(c - 1) + 1] = e[c][1]
    BY <1>14, <2>1
  <2>4. A(c) = o + l + 1 + F(c) /\ A(c - 1) = o + l + 1 + F(c - 1)
    BY <1>17
  <2> DEFINE u == F(c - 1)
             v == F(c)
             h == CharSize(e[c][1])
  <2>5. u \in Nat /\ h \in {1, 2} /\ v = u + h /\ v <= m
    BY <2>2, <2>3
  <2> HIDE DEF u, v, h
  <2>6. u + 1 \in 1 .. m /\ o + l + 1 + v = o + l + 1 + u + h
        /\ o + l + 1 + (u + 1) = o + l + 1 + u + 1
    BY <1>13, <1>19, <2>5
  <2>7. B[o + l + 1 + (u + 1)] = flat[u + 1]
    BY <1>23, <2>6
  <2> QED BY <2>3, <2>4, <2>6, <2>7 DEF u, v, h
<1>26. j # M => Begin(in, k, j + 1) = A(lenE) + 1
  BY <1>19
<1>27. /\ o \in Nat /\ l \in Nat \ {0} /\ m \in Nat /\ lenE \in Nat
  BY <1>13, <1>19
<1> QED BY <1>16, <1>19, <1>20, <1>21, <1>22, <1>23, <1>24, <1>25, <1>26, <1>27, Zenon
        DEF ElementLies, els, e, l, flat, m, s, o, A, B, lenE, t, nr, M

-----------------------------------------------------------------------------
(* The invariant: where the parser is in what was sent.                    *)

\* In the bytes of an instruction k of which n elements have begun, x bytes
\* were parsed: the d-th digit of a length, with r the number so far ...
InLength(in, k, n, x, r) ==
  n + 1 \in 1 .. Len(in.instructions[k]) /\
  LET length == Len(in.instructions[k][n + 1])
  IN  \E d \in 0 .. Len(Number(length)) :
        x = Begin(in, k, n + 1) + d /\ r = Partial(length, d)

\* ... or the c-th character of a content, with r still to come ...
InContent(in, k, n, x, r) ==
  n \in 1 .. Len(in.instructions[k]) /\
  LET length == Len(in.instructions[k][n])
  IN  \E c \in 0 .. length : x = After(in, k, n, c) /\ r = length - c

\* ... or all of it.
AtEnd(in, k, n, x) == n = Len(in.instructions[k]) /\ x = Start(in, k + 1)

\* The bytes of the input are in a part of the buffer, whose first byte is
\* the one after the first `origin` bytes of the input.
BytesThere(in, buf, origin, from, to) ==
  \A p \in from .. to - 1 : buf[p] = BytesOf(in)[origin + p + 1]

\* The contents of the elements are where their pointers say, as far as they
\* arrived ...
ContentsThere(in, k, v, buf, origin, to) ==
  \A i \in 1 .. Len(v) :
    /\ i \in 1 .. Len(in.instructions[k])
    /\ v[i] + origin = After(in, k, i, 0)
    /\ \A x \in 1 .. Len(FlattenSeq(in.instructions[k][i])) :
         v[i] + x - 1 < to => buf[v[i] + x - 1] = FlattenSeq(in.instructions[k][i])[x]

\* ... and the first n of them have ended, before the byte at `here`.
ContentsEnd(in, k, v, n, buf, here) ==
  \A i \in 1 .. n :
    LET end == v[i] + Len(FlattenSeq(in.instructions[k][i]))
    IN  end + 1 <= here /\ buf[end] = "0"

\* There is no next instruction, or none that a parser has to take.
NoneToTake(in, k) ==
  k = Len(in.instructions) + 1 \/ ~Regular(in.instructions[k])

Parsing == at \in {"append", "length", "lengthEnd", "content", "appended", "fill"}
Busy == Parsing /\ state # "ERROR"
InAppend == at \in {"length", "lengthEnd", "content", "appended"}
Here == IF InAppend THEN pos ELSE unparsed_start
Remaining == IF at \in {"length", "lengthEnd"} THEN parsed_length ELSE __element_length
Origin == arrived - unparsed_end
Coming == Len(delivered) + 1  \* the instruction that comes
EndedElements == IF state = "CONTENT" THEN Len(__elementv) - 1 ELSE Len(__elementv)

InvTypes ==
  /\ input \in Inputs
  /\ instructionbuf \in [0 .. Capacity - 1 -> Symbols \cup {"0"}]
  /\ arrived \in Nat /\ arrived <= Len(BytesOf(input))
  /\ __element_length \in 0 .. MaxLength
  /\ __elementv \in Seq(Nat) /\ Len(__elementv) <= MaxElements
  /\ \A i \in 1 .. Len(__elementv) : __elementv[i] \in instr_start .. unparsed_end
  /\ instr_start \in Nat /\ unparsed_start \in Nat /\ unparsed_end \in Nat
  /\ instr_start <= unparsed_start /\ unparsed_start <= unparsed_end
  /\ unparsed_end <= Capacity /\ unparsed_end <= arrived
  /\ pos \in Nat /\ parsed_length \in Nat
  /\ at \in {"idle", "append", "length", "lengthEnd", "content", "appended",
             "fill", "failed"}
  /\ state \in {"LENGTH", "CONTENT", "COMPLETE", "ERROR"}
  /\ failure \in {"none", "parse", "memory", "timeout", "closed"}

\* The states between two steps.
InvModes ==
  /\ at = "idle" => state = "COMPLETE" \/ (state = "LENGTH" /\ __elementv = <<>>
                                           /\ __element_length = 0)
  /\ at \in {"append", "fill", "lengthEnd"} => state \in {"LENGTH", "CONTENT"}
  /\ at = "length" => state = "LENGTH" /\ Len(__elementv) < MaxElements
  /\ at = "content" => state = "CONTENT"
  /\ at = "lengthEnd" /\ state = "LENGTH" => pos = unparsed_end
  /\ at = "appended" /\ state = "COMPLETE" => pos > unparsed_start
  /\ Busy => unparsed_start <= Here /\ Here <= unparsed_end
  /\ at # "failed" => failure = "none"
  /\ shifted # <<>> => at = "idle"

InvBytes ==
  Busy \/ at = "idle" => BytesThere(input, instructionbuf, Origin, Here, unparsed_end)

InvPlace ==
  Busy /\ Coming <= Len(input.instructions) =>
    /\ instr_start + Origin = Start(input, Coming)
    /\ state = "LENGTH" =>
         InLength(input, Coming, Len(__elementv), Here + Origin, Remaining)
    /\ state = "CONTENT" =>
         InContent(input, Coming, Len(__elementv), Here + Origin, Remaining)
    /\ state = "COMPLETE" => AtEnd(input, Coming, Len(__elementv), Here + Origin)

InvElements ==
  Busy /\ Coming <= Len(input.instructions) =>
    /\ ContentsThere(input, Coming, __elementv, instructionbuf, Origin, unparsed_end)
    /\ ContentsEnd(input, Coming, __elementv, EndedElements, instructionbuf, Here)

\* What follows the instructions never completes another one.
InvRest ==
  Busy /\ Coming = Len(input.instructions) + 1 =>
    state # "COMPLETE" /\ Start(input, Coming) <= Here + Origin

\* More is only asked for when the instruction is not there.
InvStuck ==
  /\ Busy /\ Coming <= Len(input.instructions)
  /\ at = "fill" \/ (at = "appended" /\ state # "COMPLETE" /\ pos = unparsed_start)
  => arrived < Start(input, Coming + 1)

InvRefused ==
  (at = "appended" /\ state = "ERROR") \/ failure \in {"parse", "memory", "closed"} =>
    NoneToTake(input, Coming)

MeantOf(in, k) ==
  [i \in 1 .. Len(in.instructions[k]) |-> FlattenSeq(in.instructions[k][i])]

InvDelivered ==
  /\ delivered \in Seq(Seq(Seq(Symbols))) /\ Len(delivered) <= Len(input.instructions)
  /\ \A k \in 1 .. Len(delivered) : delivered[k] = MeantOf(input, k)

InvShifted ==
  /\ shifted \in Seq(Symbols \cup {"0"})
  /\ at = "idle" => unparsed_start + Origin = Start(input, Coming) + Len(shifted)
  /\ shifted # <<>> =>
       \A x \in 1 .. Len(shifted) :
         Start(input, Coming) + x <= Len(BytesOf(input)) /\
         shifted[x] = BytesOf(input)[Start(input, Coming) + x]

ParserInv == /\ InvTypes /\ InvModes /\ InvBytes /\ InvPlace /\ InvElements /\ InvRest
        /\ InvStuck /\ InvRefused /\ InvDelivered /\ InvShifted

LEMMA BytesAre == Bytes = BytesOf(input)
BY Zenon DEF Bytes, BytesOf, Instructions

LEMMA Basics ==
  ASSUME ParserInv
  PROVE  /\ IsInput(input) /\ Len(input.instructions) \in Nat
         /\ Coming \in Nat /\ 1 <= Coming /\ Coming <= Len(input.instructions) + 1
         /\ Coming - 1 = Len(delivered)
         /\ Origin \in Nat /\ arrived = Origin + unparsed_end
         /\ Capacity \in Nat \ {0} /\ MaxElements \in Nat \ {0} /\ MaxLength \in Nat
         /\ BytesOf(input) \in Seq(Symbols) /\ Len(BytesOf(input)) \in Nat
         /\ \A k \in 1 .. Len(input.instructions) + 1 :
              Start(input, k) \in Nat /\ Start(input, k) <= Len(BytesOf(input))
<1>1. IsInput(input)
  BY InputIs DEF ParserInv, InvTypes
<1>2. Len(input.instructions) \in Nat
  BY <1>1 DEF IsInput
<1>3. Len(delivered) \in Nat /\ Len(delivered) <= Len(input.instructions)
  <2>1. delivered \in Seq(Seq(Seq(Symbols)))
    BY DEF ParserInv, InvDelivered
  <2>2. Len(delivered) \in Nat
    BY <2>1, SequenceIs, Zenon
  <2> QED BY <2>2 DEF ParserInv, InvDelivered
<1>4. /\ Coming \in Nat /\ 1 <= Coming /\ Coming <= Len(input.instructions) + 1
      /\ Coming - 1 = Len(delivered)
  BY <1>2, <1>3 DEF Coming
<1>5. Origin \in Nat /\ arrived = Origin + unparsed_end
  BY DEF Origin, ParserInv, InvTypes
<1>6. BytesOf(input) \in Seq(Symbols) /\ Len(BytesOf(input)) \in Nat
  BY <1>1, InstructionsAre, Zenon
<1>7. ASSUME NEW k \in 1 .. Len(input.instructions) + 1
      PROVE  Start(input, k) \in Nat /\ Start(input, k) <= Len(BytesOf(input))
  <2> DEFINE n == Len(input.instructions)
  <2>1. k - 1 \in 0 .. n /\ (k - 1) + 1 = k /\ n \in 0 .. n
    BY <1>2
  <2>2. Start(input, (k - 1) + 1) \in Nat /\ Start(input, (k - 1) + 1) <= Start(input, n + 1)
    BY <1>1, <2>1, InstructionsAre, Zenon
  <2>3. Len(BytesOf(input)) = Start(input, n + 1) + Len(input.rest) /\ Len(input.rest) \in Nat
        /\ Start(input, n + 1) \in Nat
    BY <1>1, <2>1, InstructionsAre, Zenon
  <2> DEFINE r == Len(input.rest)
             s == Start(input, k)
             z == Start(input, n + 1)
             b == Len(BytesOf(input))
  <2>4. s \in Nat /\ s <= z /\ b = z + r /\ r \in Nat /\ z \in Nat
    BY <2>1, <2>2, <2>3
  <2> HIDE DEF r, s, z, b
  <2>5. s \in Nat /\ s <= b
    BY <2>4
  <2> QED BY <2>5 DEF s, b
<1> QED BY <1>1, <1>2, <1>4, <1>5, <1>6, <1>7, SizeAssumption

LEMMA ComingIs ==
  ASSUME ParserInv, Coming <= Len(input.instructions)
  PROVE  /\ Coming \in 1 .. Len(input.instructions)
         /\ IsInstruction(input.instructions[Coming])
<1>1. Coming \in 1 .. Len(input.instructions)
  BY Basics
<1>2. IsInput(input)
  BY Basics
<1> QED BY <1>1, <1>2 DEF IsInput

\* Steps between which nothing is parsed.
LEMMA StaysPut ==
  ASSUME ParserInv, Busy, Parsing', Here' = Here, Remaining' = Remaining,
         UNCHANGED <<input, arrived, state, __elementv, instructionbuf, instr_start,
                     unparsed_end, delivered, shifted>>
  PROVE  /\ InvBytes' /\ InvPlace' /\ InvElements' /\ InvRest' /\ InvDelivered'
         /\ InvShifted' /\ shifted' = <<>>
<1>1. Origin' = Origin /\ Coming' = Coming /\ EndedElements' = EndedElements
  BY DEF Origin, Coming, EndedElements
<1>2. at # "idle" /\ at' # "idle" /\ Busy'
  BY DEF Busy, Parsing
<1>3. shifted' = <<>>
  BY <1>2 DEF ParserInv, InvModes
<1>4. InvBytes'
  BY <1>1, <1>2 DEF ParserInv, InvBytes
<1>5. InvPlace'
  BY <1>1, <1>2 DEF ParserInv, InvPlace
<1>6. InvElements'
  BY <1>1, <1>2 DEF ParserInv, InvElements
<1>7. InvRest'
  BY <1>1, <1>2 DEF ParserInv, InvRest
<1>8. InvDelivered'
  BY Zenon DEF ParserInv, InvDelivered
<1>9. InvShifted'
  BY <1>2, <1>3 DEF InvShifted
<1> QED BY <1>3, <1>4, <1>5, <1>6, <1>7, <1>8, <1>9

\* Steps after which nothing is parsed any more.
LEMMA GivesUp ==
  ASSUME ParserInv, at # "idle", at' # "idle", at' = "failed" \/ state' = "ERROR",
         UNCHANGED <<input, delivered, shifted>>
  PROVE  /\ InvBytes' /\ InvPlace' /\ InvElements' /\ InvRest' /\ InvStuck'
         /\ InvDelivered' /\ InvShifted' /\ shifted' = <<>>
<1>1. ~Busy'
  BY DEF Busy, Parsing
<1>2. shifted' = <<>>
  BY DEF ParserInv, InvModes
<1>3. InvBytes' /\ InvPlace' /\ InvElements' /\ InvRest' /\ InvStuck'
  BY <1>1 DEF InvBytes, InvPlace, InvElements, InvRest, InvStuck
<1>4. InvDelivered'
  BY Zenon DEF ParserInv, InvDelivered
<1>5. InvShifted'
  BY <1>2 DEF InvShifted
<1> QED BY <1>2, <1>3, <1>4, <1>5

\* The byte that comes in a length ...
LEMMA LengthByte ==
  ASSUME ParserInv, at = "length", pos < unparsed_end, Coming <= Len(input.instructions)
  PROVE  LET n == Len(__elementv) + 1
             length == Len(input.instructions[Coming][n])
             l == Len(Number(length))
         IN  /\ n \in 1 .. Len(input.instructions[Coming]) /\ l \in Nat
             /\ \E d \in 0 .. l :
                  /\ pos + Origin = Begin(input, Coming, n) + d
                  /\ parsed_length = Partial(length, d)
                  /\ d # l => instructionbuf[pos] = Number(length)[d + 1]
                  /\ d = l => instructionbuf[pos] = "."
<1> DEFINE n == Len(__elementv) + 1
           length == Len(input.instructions[Coming][n])
           l == Len(Number(length))
           o == Begin(input, Coming, n)
           B == BytesOf(input)
<1>1. state = "LENGTH" /\ Busy /\ Here = pos /\ Remaining = parsed_length
  BY DEF ParserInv, InvModes, Busy, Parsing, Here, InAppend, Remaining
<1>2. InLength(input, Coming, Len(__elementv), pos + Origin, parsed_length)
  BY <1>1 DEF ParserInv, InvPlace
<1>3. n \in 1 .. Len(input.instructions[Coming])
      /\ \E d \in 0 .. l : pos + Origin = o + d /\ parsed_length = Partial(length, d)
  BY <1>2, Zenon DEF InLength
<1>4. PICK d \in 0 .. l : pos + Origin = o + d /\ parsed_length = Partial(length, d)
  BY <1>3
<1>5. IsInput(input) /\ Coming \in 1 .. Len(input.instructions) /\ Origin \in Nat
  BY Basics
<1>6. instructionbuf[pos] = B[Origin + pos + 1]
  <2>1. BytesThere(input, instructionbuf, Origin, pos, unparsed_end)
    BY <1>1 DEF ParserInv, InvBytes
  <2>2. pos \in pos .. unparsed_end - 1
    BY DEF ParserInv, InvTypes
  <2> QED BY <2>1, <2>2 DEF BytesThere
<1>0. ElementLies(input, Coming, n)
  BY <1>3, <1>5, ElementAt, Zenon
<1>7. /\ o \in Nat /\ l \in Nat \ {0}
      /\ (\A i \in 1 .. l : B[o + i] = Number(length)[i]) /\ B[o + l + 1] = "."
  BY <1>0, Zenon DEF ElementLies
<1> HIDE DEF n, length, l, o, B
<1>8. pos \in Nat
  BY DEF ParserInv, InvTypes
<1>9. Origin + pos + 1 = o + d + 1 /\ d \in Nat
  BY <1>4, <1>5, <1>7, <1>8
<1>10. d # l => instructionbuf[pos] = Number(length)[d + 1]
  <2>1. d # l => d + 1 \in 1 .. l /\ o + d + 1 = o + (d + 1)
    BY <1>7, <1>9
  <2> QED BY <1>6, <1>7, <1>9, <2>1
<1>11. d = l => instructionbuf[pos] = "."
  BY <1>6, <1>7, <1>9
<1> QED BY <1>3, <1>4, <1>7, <1>10, <1>11, Zenon DEF n, length, l, o

\* ... and in a content.
LEMMA ContentByte ==
  ASSUME ParserInv, at = "content", Coming <= Len(input.instructions)
  PROVE  LET n == Len(__elementv)
             e == input.instructions[Coming][n]
         IN  /\ n \in 1 .. Len(input.instructions[Coming]) /\ Len(e) \in Nat
             /\ \E c \in 0 .. Len(e) :
                  /\ pos + Origin = After(input, Coming, n, c)
                  /\ __element_length = Len(e) - c
                  /\ pos < unparsed_end /\ c # Len(e) =>
                       After(input, Coming, n, c + 1) =
                       After(input, Coming, n, c) + CharSize(instructionbuf[pos])
                  /\ pos < unparsed_end /\ c = Len(e) =>
                       instructionbuf[pos] =
                         IF n = Len(input.instructions[Coming]) THEN ";" ELSE ","
<1> DEFINE n == Len(__elementv)
           e == input.instructions[Coming][n]
           m == Len(e)
           A(c) == After(input, Coming, n, c)
           B == BytesOf(input)
           t == IF n = Len(input.instructions[Coming]) THEN ";" ELSE ","
<1>1. state = "CONTENT" /\ Busy /\ Here = pos /\ Remaining = __element_length
  BY DEF ParserInv, InvModes, Busy, Parsing, Here, InAppend, Remaining
<1>2. InContent(input, Coming, n, pos + Origin, __element_length)
  BY <1>1 DEF ParserInv, InvPlace
<1>3. n \in 1 .. Len(input.instructions[Coming])
      /\ \E c \in 0 .. m : pos + Origin = A(c) /\ __element_length = m - c
  BY <1>2, Zenon DEF InContent
<1>4. PICK c \in 0 .. m : pos + Origin = A(c) /\ __element_length = m - c
  BY <1>3
<1>5. IsInput(input) /\ Coming \in 1 .. Len(input.instructions) /\ Origin \in Nat
  BY Basics
<1>6. pos < unparsed_end => instructionbuf[pos] = B[Origin + pos + 1]
  <2>1. BytesThere(input, instructionbuf, Origin, pos, unparsed_end)
    BY <1>1 DEF ParserInv, InvBytes
  <2>2. pos < unparsed_end => pos \in pos .. unparsed_end - 1
    BY DEF ParserInv, InvTypes
  <2> QED BY <2>1, <2>2 DEF BytesThere
<1>0. ElementLies(input, Coming, n)
  BY <1>3, <1>5, ElementAt, Zenon
<1>7. /\ m \in Nat /\ (\A i \in 0 .. m : A(i) \in Nat)
      /\ B[A(m) + 1] = t
  BY <1>0, Zenon DEF ElementLies
<1>8. \A i \in 1 .. m : A(i) = A(i - 1) + CharSize(e[i][1]) /\ B[A(i - 1) + 1] = e[i][1]
  BY <1>0, Zenon DEF ElementLies
<1> HIDE DEF n, e, m, A, B, t
<1>9. pos \in Nat
  BY DEF ParserInv, InvTypes
<1>10. Origin + pos + 1 = A(c) + 1 /\ A(c) \in Nat
  BY <1>4, <1>5, <1>7, <1>9
<1>11. pos < unparsed_end /\ c # m => A(c + 1) = A(c) + CharSize(instructionbuf[pos])
  <2>1. c # m => c + 1 \in 1 .. m /\ (c + 1) - 1 = c
    BY <1>7
  <2> QED BY <1>6, <1>8, <1>10, <2>1
<1>12. pos < unparsed_end /\ c = m => instructionbuf[pos] = t
  BY <1>6, <1>7, <1>10
<1> QED BY <1>3, <1>4, <1>7, <1>11, <1>12, Zenon DEF n, e, m, A, t

-----------------------------------------------------------------------------
(* The actions.                                                            *)

LEMMA TooManyElementsKeeps ==
  ASSUME ParserInv, TooManyElements PROVE ParserInv'
<1>1. /\ InvBytes' /\ InvPlace' /\ InvElements' /\ InvRest' /\ InvStuck'
      /\ InvDelivered' /\ InvShifted' /\ shifted' = <<>>
  BY GivesUp DEF TooManyElements, Error, outVars
<1>2. InvTypes'
  BY DEF ParserInv, InvTypes, TooManyElements, Error, bufferVars, localVars, outVars
<1>3. InvModes'
  BY <1>1 DEF ParserInv, InvModes, Busy, TooManyElements, Error, outVars
<1>4. ASSUME Coming <= Len(input.instructions) PROVE ~Regular(input.instructions[Coming])
  <2> DEFINE m == Len(input.instructions[Coming])
             n == Len(__elementv)
  <2>1. Busy /\ state \in {"LENGTH", "CONTENT"} /\ n = MaxElements
    BY DEF ParserInv, InvModes, Busy, Parsing, TooManyElements
  <2>2. InLength(input, Coming, n, Here + Origin, Remaining)
        \/ InContent(input, Coming, n, Here + Origin, Remaining)
    BY <1>4, <2>1 DEF ParserInv, InvPlace
  <2>3. n + 1 \in 1 .. m \/ n \in 1 .. m
    BY <2>2, Zenon DEF InLength, InContent
  <2> HIDE DEF m, n
  <2>4. ~ (m < MaxElements)
    <3>1. m \in Nat
      <4>1. IsInstruction(input.instructions[Coming])
        BY <1>4, ComingIs
      <4> QED BY <4>1 DEF IsInstruction, m
    <3> QED BY <2>1, <2>3, <3>1, SizeAssumption
  <2> QED BY <2>4 DEF Regular, m
<1>5. InvRefused'
  <2>1. Coming' = Coming /\ input' = input
    BY DEF TooManyElements, outVars, Coming
  <2>2. NoneToTake(input, Coming)
    BY <1>4, Basics DEF NoneToTake
  <2> QED BY <2>1, <2>2 DEF InvRefused
<1> QED BY <1>1, <1>2, <1>3, <1>5 DEF ParserInv

LEMMA ResumeKeeps ==
  ASSUME ParserInv, Resume PROVE ParserInv'
<1> USE DEF Resume, parserVars, bufferVars, outVars
<1>1. Busy /\ state \in {"LENGTH", "CONTENT"}
  BY DEF ParserInv, InvModes, Busy, Parsing
<1>2. Parsing' /\ at' \in {"length", "content"}
  BY DEF Parsing
<1>3. Here' = Here /\ Here' = pos'
  BY <1>2 DEF Here, InAppend
<1>4. Remaining' = Remaining
  BY <1>2 DEF Remaining
<1>5. /\ InvBytes' /\ InvPlace' /\ InvElements' /\ InvRest' /\ InvDelivered'
      /\ InvShifted' /\ shifted' = <<>>
  BY <1>1, <1>2, <1>3, <1>4, StaysPut
<1>6. InvTypes'
  BY <1>2 DEF ParserInv, InvTypes
<1>7. InvModes'
  <2>1. Len(__elementv) < MaxElements
    <3>1. Len(__elementv) \in Nat /\ Len(__elementv) <= MaxElements
      BY DEF ParserInv, InvTypes
    <3> QED BY <3>1, SizeAssumption
  <2>2. unparsed_start' <= Here' /\ Here' <= unparsed_end'
    BY <1>3 DEF ParserInv, InvTypes
  <2> QED BY <1>1, <1>2, <1>5, <2>1, <2>2 DEF ParserInv, InvModes
<1>8. InvStuck'
  BY <1>2 DEF InvStuck
<1>9. InvRefused'
  BY <1>2 DEF ParserInv, InvModes, InvRefused
<1> QED BY <1>5, <1>6, <1>7, <1>8, <1>9 DEF ParserInv

LEMMA LengthOtherKeeps ==
  ASSUME ParserInv, LengthOther PROVE ParserInv'
<1> USE DEF LengthOther, Error, bufferVars, localVars, outVars
<1>1. /\ InvBytes' /\ InvPlace' /\ InvElements' /\ InvRest' /\ InvStuck'
      /\ InvDelivered' /\ InvShifted' /\ shifted' = <<>>
  BY GivesUp
<1>2. InvTypes'
  BY DEF ParserInv, InvTypes
<1>3. InvModes'
  BY <1>1 DEF ParserInv, InvModes, Busy
<1>4. ~ (Coming <= Len(input.instructions))
  <2> SUFFICES ASSUME Coming <= Len(input.instructions) PROVE FALSE
    OBVIOUS
  <2> DEFINE length == Len(input.instructions[Coming][Len(__elementv) + 1])
             l == Len(Number(length))
  <2>1. Len(__elementv) + 1 \in 1 .. Len(input.instructions[Coming]) /\ l \in Nat
        /\ \E d \in 0 .. l : /\ d # l => instructionbuf[pos] = Number(length)[d + 1]
                             /\ d = l => instructionbuf[pos] = "."
    BY LengthByte, Zenon
  <2>2. PICK d \in 0 .. l : /\ d # l => instructionbuf[pos] = Number(length)[d + 1]
                            /\ d = l => instructionbuf[pos] = "."
    BY <2>1
  <2>3. length \in Nat
    <3>1. IsInstruction(input.instructions[Coming])
      BY ComingIs
    <3>2. IsElement(input.instructions[Coming][Len(__elementv) + 1])
      BY <2>1, <3>1 DEF IsInstruction
    <3> QED BY <3>2, SequenceIs DEF IsElement
  <2>4. \A i \in 1 .. l : IsDigit(Number(length)[i])
    BY <2>3, PartialIs
  <2> HIDE DEF l, length
  <2>5. d # l => d + 1 \in 1 .. l
    BY <2>1
  <2> QED BY <2>2, <2>4, <2>5
<1>5. InvRefused'
  <2>1. Coming' = Coming
    BY DEF Coming
  <2>2. NoneToTake(input, Coming)
    BY <1>4, Basics DEF NoneToTake
  <2> QED BY <2>1, <2>2 DEF InvRefused
<1> QED BY <1>1, <1>2, <1>3, <1>5 DEF ParserInv

LEMMA LengthOutKeeps ==
  ASSUME ParserInv, LengthOut PROVE ParserInv'
<1> USE DEF LengthOut, parserVars, bufferVars, localVars, outVars
<1>1. Busy /\ Parsing' /\ state = "LENGTH"
  BY DEF ParserInv, InvModes, Busy, Parsing
<1>2. Here' = Here /\ Here' = pos' /\ Remaining' = Remaining
  BY DEF Here, InAppend, Remaining
<1>3. /\ InvBytes' /\ InvPlace' /\ InvElements' /\ InvRest' /\ InvDelivered'
      /\ InvShifted' /\ shifted' = <<>>
  BY <1>1, <1>2, StaysPut
<1>4. InvTypes'
  BY DEF ParserInv, InvTypes
<1>5. InvModes'
  BY <1>1, <1>2, <1>3 DEF ParserInv, InvModes
<1>6. InvStuck'
  BY DEF InvStuck
<1>7. InvRefused'
  BY DEF ParserInv, InvModes, InvRefused
<1> QED BY <1>3, <1>4, <1>5, <1>6, <1>7 DEF ParserInv

\* An instruction is not all there while it is parsed.
LEMMA NotYet ==
  ASSUME ParserInv, Busy, Coming <= Len(input.instructions), state \in {"LENGTH", "CONTENT"}
  PROVE  Here + Origin < Start(input, Coming + 1)
<1>1. IsInput(input) /\ Coming \in 1 .. Len(input.instructions)
  BY Basics
<1>2. CASE state = "LENGTH"
  <2> DEFINE n == Len(__elementv) + 1
             l == Len(Number(Len(input.instructions[Coming][n])))
             o == Begin(input, Coming, n)
             s == Start(input, Coming + 1)
             last == After(input, Coming, n, Len(input.instructions[Coming][n]))
             m == Len(FlattenSeq(input.instructions[Coming][n]))
  <2>1. InLength(input, Coming, Len(__elementv), Here + Origin, Remaining)
    BY <1>2 DEF ParserInv, InvPlace
  <2>2. n \in 1 .. Len(input.instructions[Coming]) /\ \E d \in 0 .. l : Here + Origin = o + d
    BY <2>1, Zenon DEF InLength
  <2>3. PICK d \in 0 .. l : Here + Origin = o + d
    BY <2>2
  <2>4. ElementLies(input, Coming, n)
    BY <1>1, <2>2, ElementAt, Zenon
  <2>5. o \in Nat /\ l \in Nat /\ m \in Nat /\ last = o + l + 1 + m /\ last + 1 <= s /\ s \in Nat
    <3>1. o \in Nat /\ l \in Nat \ {0} /\ m \in Nat /\ last = o + l + 1 + m /\ last + 1 <= s /\ s \in Nat
      BY <2>4, Zenon DEF ElementLies
    <3> HIDE DEF o, l, m, last, s
    <3> QED BY <3>1
  <2> HIDE DEF o, l, m, last, s
  <2>6. o + d < s
    BY <2>5
  <2> QED BY <2>3, <2>6 DEF s
<1>3. CASE state = "CONTENT"
  <2> DEFINE n == Len(__elementv)
             h == Len(input.instructions[Coming][n])
             A(c) == After(input, Coming, n, c)
             s == Start(input, Coming + 1)
  <2>1. InContent(input, Coming, n, Here + Origin, Remaining)
    BY <1>3 DEF ParserInv, InvPlace
  <2>2. n \in 1 .. Len(input.instructions[Coming]) /\ \E c \in 0 .. h : Here + Origin = A(c)
    BY <2>1, Zenon DEF InContent
  <2>3. PICK c \in 0 .. h : Here + Origin = A(c)
    BY <2>2
  <2>4. ElementLies(input, Coming, n)
    BY <1>1, <2>2, ElementAt, Zenon
  <2>5. A(c) \in Nat /\ A(c) <= A(h) /\ A(h) + 1 <= s /\ s \in Nat
    BY <2>4, Zenon DEF ElementLies
  <2>6. A(h) \in Nat
    <3>1. h \in Nat
      BY <2>4, Zenon DEF ElementLies
    <3>2. h \in 0 .. h
      <4> HIDE DEF h
      <4> QED BY <3>1
    <3> QED BY <2>4, <3>2, Zenon DEF ElementLies
  <2> DEFINE x == A(c)
             y == A(h)
  <2>7. x \in Nat /\ y \in Nat /\ x <= y /\ y + 1 <= s /\ s \in Nat
    BY <2>5, <2>6
  <2> HIDE DEF x, y, s
  <2>8. x < s
    BY <2>7
  <2> QED BY <2>3, <2>8 DEF x, s
<1> QED BY <1>2, <1>3

LEMMA LengthEndKeeps ==
  ASSUME ParserInv, LengthEnd PROVE ParserInv'
<1> USE DEF LengthEnd, bufferVars, localVars, outVars
<1>1. Busy /\ state \in {"LENGTH", "CONTENT"} /\ parsed_length \in Nat /\ MaxLength \in Nat
      /\ Here = pos /\ Remaining = parsed_length
  BY SizeAssumption DEF ParserInv, InvModes, InvTypes, Busy, Parsing, Here, InAppend, Remaining
<1>2. Coming' = Coming
  BY DEF Coming
<1>3. CASE parsed_length > MaxLength
  <2>1. state' = "ERROR" /\ at' = "appended" /\ UNCHANGED __element_length
    BY <1>3 DEF Error
  <2>2. /\ InvBytes' /\ InvPlace' /\ InvElements' /\ InvRest' /\ InvStuck'
        /\ InvDelivered' /\ InvShifted' /\ shifted' = <<>>
    BY <2>1, GivesUp
  <2>3. InvTypes'
    BY <2>1 DEF ParserInv, InvTypes
  <2>4. InvModes'
    BY <2>1, <2>2 DEF ParserInv, InvModes, Busy
  <2>5. ASSUME Coming <= Len(input.instructions) PROVE ~Regular(input.instructions[Coming])
    <3>1. \E i \in 1 .. Len(input.instructions[Coming]) :
            ~ (Len(input.instructions[Coming][i]) <= MaxLength)
      <4>1. CASE state = "LENGTH"
        <5> DEFINE n == Len(__elementv) + 1
                   h == Len(input.instructions[Coming][n])
        <5>1. InLength(input, Coming, Len(__elementv), pos + Origin, parsed_length)
          BY <1>1, <2>5, <4>1 DEF ParserInv, InvPlace
        <5>2. n \in 1 .. Len(input.instructions[Coming])
              /\ \E d \in 0 .. Len(Number(h)) : parsed_length = Partial(h, d)
          BY <5>1, Zenon DEF InLength
        <5>3. h \in Nat
          <6>1. IsElement(input.instructions[Coming][n])
            BY <2>5, <5>2, ComingIs DEF IsInstruction
          <6> QED BY <6>1, SequenceIs DEF IsElement
        <5>4. parsed_length <= h
          <6>1. \A d \in 0 .. Len(Number(h)) : Partial(h, d) <= h
            BY <5>3, PartialIs
          <6> HIDE DEF h
          <6> QED BY <5>2, <6>1
        <5>5. ~ (h <= MaxLength)
          <6> HIDE DEF h
          <6> QED BY <1>1, <1>3, <5>3, <5>4
        <5> HIDE DEF n
        <5> QED BY <5>2, <5>5
      <4>2. CASE state = "CONTENT"
        <5> DEFINE n == Len(__elementv)
                   h == Len(input.instructions[Coming][n])
        <5>1. InContent(input, Coming, n, pos + Origin, parsed_length)
          BY <1>1, <2>5, <4>2 DEF ParserInv, InvPlace
        <5>2. n \in 1 .. Len(input.instructions[Coming])
              /\ \E c \in 0 .. h : parsed_length = h - c
          BY <5>1, Zenon DEF InContent
        <5>3. h \in Nat
          <6>1. IsElement(input.instructions[Coming][n])
            BY <2>5, <5>2, ComingIs DEF IsInstruction
          <6> QED BY <6>1, SequenceIs DEF IsElement
        <5>5. ~ (h <= MaxLength)
          <6> HIDE DEF h
          <6> QED BY <1>1, <1>3, <5>2, <5>3
        <5> HIDE DEF n
        <5> QED BY <5>2, <5>5
      <4> QED BY <1>1, <4>1, <4>2
    <3> QED BY <3>1, Zenon DEF Regular
  <2>6. InvRefused'
    <3>1. NoneToTake(input, Coming)
      BY <2>5, Basics DEF NoneToTake
    <3> QED BY <1>2, <3>1 DEF InvRefused
  <2> QED BY <2>2, <2>3, <2>4, <2>6 DEF ParserInv
<1>4. CASE ~ (parsed_length > MaxLength)
  <2>1. /\ __element_length' = parsed_length /\ state' = state
        /\ at' = IF state = "CONTENT" THEN "content" ELSE "appended"
    BY <1>4 DEF SavedLength
  <2>2. Parsing' /\ at' \in {"content", "appended"}
    BY <2>1 DEF Parsing
  <2>3. Here' = Here /\ Here' = pos' /\ Remaining' = Remaining
    BY <1>1, <2>1, <2>2 DEF Here, InAppend, Remaining
  <2>4. /\ InvBytes' /\ InvPlace' /\ InvElements' /\ InvRest' /\ InvDelivered'
        /\ InvShifted' /\ shifted' = <<>>
    BY <1>1, <2>1, <2>2, <2>3, StaysPut
  <2>5. InvTypes'
    BY <1>1, <1>4, <2>1, <2>2 DEF ParserInv, InvTypes
  <2>6. InvModes'
    BY <1>1, <2>1, <2>2, <2>3, <2>4 DEF ParserInv, InvModes
  <2>7. InvStuck'
    <3>1. ASSUME at' = "appended", Coming <= Len(input.instructions)
          PROVE  arrived < Start(input, Coming + 1)
      <4>1. state = "LENGTH" /\ pos = unparsed_end
        BY <1>1, <2>1, <3>1 DEF ParserInv, InvModes
      <4>2. arrived = pos + Origin
        BY <4>1 DEF ParserInv, InvTypes, Origin
      <4> QED BY <1>1, <3>1, <4>2, NotYet
    <3> QED BY <1>2, <2>2, <3>1 DEF InvStuck
  <2>8. InvRefused'
    BY <1>1, <2>1, <2>2 DEF ParserInv, InvModes, InvRefused
  <2> QED BY <2>4, <2>5, <2>6, <2>7, <2>8 DEF ParserInv
<1> QED BY <1>3, <1>4

LEMMA ContentOutKeeps ==
  ASSUME ParserInv, ContentOut PROVE ParserInv'
<1> USE DEF ContentOut, parserVars, bufferVars, localVars, outVars
<1>1. Busy /\ Parsing' /\ state = "CONTENT" /\ Here = pos
  BY DEF ParserInv, InvModes, Busy, Parsing, Here, InAppend
<1>2. Here' = Here /\ Here' = pos' /\ Remaining' = Remaining
  BY DEF Here, InAppend, Remaining
<1>3. /\ InvBytes' /\ InvPlace' /\ InvElements' /\ InvRest' /\ InvDelivered'
      /\ InvShifted' /\ shifted' = <<>>
  BY <1>1, <1>2, StaysPut
<1>4. InvTypes'
  BY DEF ParserInv, InvTypes
<1>5. InvModes'
  BY <1>1, <1>2, <1>3 DEF ParserInv, InvModes
<1>6. ASSUME Coming <= Len(input.instructions) PROVE arrived < Start(input, Coming + 1)
  <2> DEFINE n == Len(__elementv)
             e == input.instructions[Coming][n]
             h == Len(e)
             A(c) == After(input, Coming, n, c)
             s == Start(input, Coming + 1)
             size == CharSize(instructionbuf[pos])
  <2>1. /\ n \in 1 .. Len(input.instructions[Coming]) /\ h \in Nat
        /\ \E c \in 0 .. h :
             /\ pos + Origin = A(c)
             /\ pos < unparsed_end /\ c # h => A(c + 1) = A(c) + size
             /\ pos < unparsed_end /\ c = h =>
                  instructionbuf[pos] =
                         IF n = Len(input.instructions[Coming]) THEN ";" ELSE ","
    BY <1>6, ContentByte, Zenon
  <2>2. PICK c \in 0 .. h :
             /\ pos + Origin = A(c)
             /\ pos < unparsed_end /\ c # h => A(c + 1) = A(c) + size
             /\ pos < unparsed_end /\ c = h =>
                  instructionbuf[pos] =
                         IF n = Len(input.instructions[Coming]) THEN ";" ELSE ","
    BY <2>1
  <2>3. ElementLies(input, Coming, n)
    <3>1. Coming \in 1 .. Len(input.instructions) /\ IsInput(input)
      BY <1>6, Basics
    <3> QED BY <2>1, <3>1, ElementAt, Zenon
  <2>4. pos \in Nat /\ unparsed_end \in Nat /\ pos <= unparsed_end /\ Origin \in Nat
        /\ arrived = Origin + unparsed_end
    <3>1. Origin \in Nat /\ arrived = Origin + unparsed_end
      BY Basics
    <3> QED BY <1>1, <3>1 DEF ParserInv, InvTypes, InvModes
  <2>5. CASE pos = unparsed_end
    <3>1. Here + Origin < s
      BY <1>1, <1>6, NotYet
    <3> QED BY <1>1, <2>4, <2>5, <3>1
  <2>6. CASE pos < unparsed_end
    <3>1. ~ (pos + size <= unparsed_end) /\ size \in {1, 2}
      BY <2>6 DEF CharacterThere, CharSize
    <3>2. CASE c = h
      <4>1. size = 1
        BY <2>2, <2>6, <3>2 DEF CharSize
      <4> HIDE DEF size
      <4> QED BY <2>4, <2>6, <3>1, <4>1
    <3>3. CASE c # h
      <4>1. A(c + 1) = A(c) + size /\ pos + Origin = A(c)
        BY <2>2, <2>6, <3>3
      <4>2. c + 1 \in 0 .. h /\ h \in 0 .. h
        <5>1. h \in Nat
          BY <2>1
        <5> HIDE DEF h
        <5> QED BY <3>3, <5>1
      <4>3. A(c + 1) <= A(h) /\ A(h) + 1 <= s /\ s \in Nat /\ A(h) \in Nat
        BY <2>3, <4>2, Zenon DEF ElementLies
      <4> DEFINE x == A(c)
                 y == A(c + 1)
                 z == A(h)
      <4>4. y = x + size /\ pos + Origin = x /\ y <= z /\ z + 1 <= s /\ s \in Nat /\ z \in Nat
        BY <4>1, <4>3
      <4> HIDE DEF x, y, z, s, size
      <4>5. arrived < s
        BY <2>4, <3>1, <4>4
      <4> QED BY <4>5 DEF s
    <3> QED BY <3>2, <3>3
  <2> QED BY <2>4, <2>5, <2>6
<1>7. InvStuck'
  <2>1. Coming' = Coming
    BY DEF Coming
  <2> QED BY <1>6, <2>1 DEF InvStuck
<1>8. InvRefused'
  BY <1>1 DEF ParserInv, InvModes, InvRefused
<1> QED BY <1>3, <1>4, <1>5, <1>7, <1>8 DEF ParserInv

LEMMA ParseErrorKeeps ==
  ASSUME ParserInv, ParseError PROVE ParserInv'
<1> USE DEF ParseError, Fail, parserVars, bufferVars, localVars
<1>1. /\ InvBytes' /\ InvPlace' /\ InvElements' /\ InvRest' /\ InvStuck'
      /\ InvDelivered' /\ InvShifted' /\ shifted' = <<>>
  BY GivesUp
<1>2. InvTypes'
  BY DEF ParserInv, InvTypes
<1>3. InvModes'
  BY <1>1 DEF ParserInv, InvModes, Busy, Parsing
<1>4. InvRefused'
  <2>1. Coming' = Coming
    BY DEF Coming
  <2> QED BY <2>1 DEF ParserInv, InvRefused
<1> QED BY <1>1, <1>2, <1>3, <1>4 DEF ParserInv

LEMMA NeedMoreKeeps ==
  ASSUME ParserInv, NeedMore PROVE ParserInv'
<1> USE DEF NeedMore, WhenOut, parserVars, bufferVars, localVars, outVars
<1>0. Busy /\ Parsing' /\ Here = pos
  BY DEF Busy, Parsing, Here, InAppend
<1>1. Here' = Here /\ Here' = unparsed_start' /\ Remaining' = Remaining
  BY DEF Here, InAppend, Remaining
<1>2. state # "COMPLETE"
  BY DEF ParserInv, InvModes, InvTypes
<1>3. /\ InvBytes' /\ InvPlace' /\ InvElements' /\ InvRest' /\ InvDelivered'
      /\ InvShifted' /\ shifted' = <<>>
  BY <1>0, <1>1, StaysPut
<1>4. InvTypes'
  BY DEF ParserInv, InvTypes
<1>5. InvModes'
  BY <1>0, <1>1, <1>2, <1>3 DEF ParserInv, InvModes, InvTypes
<1>6. InvStuck'
  <2>1. Coming' = Coming /\ Busy'
    BY <1>0 DEF Coming, Busy
  <2> QED BY <1>0, <1>2, <2>1 DEF ParserInv, InvStuck
<1>7. InvRefused'
  BY DEF ParserInv, InvModes, InvRefused
<1> QED BY <1>3, <1>4, <1>5, <1>6, <1>7 DEF ParserInv

LEMMA NoMemoryKeeps ==
  ASSUME ParserInv, NoMemory PROVE ParserInv'
<1> USE DEF NoMemory, Fail, parserVars, bufferVars, localVars
<1>1. /\ InvBytes' /\ InvPlace' /\ InvElements' /\ InvRest' /\ InvStuck'
      /\ InvDelivered' /\ InvShifted' /\ shifted' = <<>>
  BY GivesUp
<1>2. InvTypes'
  BY DEF ParserInv, InvTypes
<1>3. InvModes'
  BY <1>1 DEF ParserInv, InvModes, Busy, Parsing
<1>4. ASSUME Coming <= Len(input.instructions) PROVE ~Regular(input.instructions[Coming])
  <2> DEFINE s == Start(input, Coming)
             z == Start(input, Coming + 1)
             l == Len(Instruction(input.instructions[Coming]))
  <2>1. Busy
    BY DEF ParserInv, InvModes, Busy, Parsing
  <2>2. arrived < z /\ Origin = s
    <3>1. instr_start + Origin = s
      BY <1>4, <2>1 DEF ParserInv, InvPlace
    <3>2. Origin \in Nat
      BY Basics
    <3> HIDE DEF s
    <3> QED BY <1>4, <2>1, <3>1, <3>2 DEF ParserInv, InvStuck
  <2>3. z = s + l /\ z \in Nat /\ s \in Nat
    <3>1. Coming \in 1 .. Len(input.instructions) /\ IsInput(input)
      BY <1>4, Basics
    <3>2. z = s + l
      BY <3>1, InstructionsAre, Zenon
    <3>3. Coming + 1 \in 1 .. Len(input.instructions) + 1 /\ Coming \in 1 .. Len(input.instructions) + 1
      BY <1>4, Basics
    <3> QED BY <3>2, <3>3, Basics
  <2>4. arrived = Origin + Capacity /\ Capacity \in Nat
    BY Basics
  <2>5. l \in Nat
    <3>1. IsInstruction(input.instructions[Coming])
      BY <1>4, ComingIs
    <3>2. 1 \in 1 .. Len(input.instructions[Coming])
      BY <3>1 DEF IsInstruction
    <3> QED BY <3>1, <3>2, PartIs, Zenon
  <2> HIDE DEF s, z, l
  <2>6. ~ (l <= Capacity)
    BY <2>2, <2>3, <2>4, <2>5
  <2> QED BY <2>6, Zenon DEF Regular, l
<1>5. InvRefused'
  <2>1. Coming' = Coming
    BY DEF Coming
  <2>2. NoneToTake(input, Coming)
    BY <1>4, Basics DEF NoneToTake
  <2> QED BY <2>1, <2>2 DEF InvRefused
<1> QED BY <1>1, <1>2, <1>3, <1>5 DEF ParserInv

LEMMA TimeoutKeeps ==
  ASSUME ParserInv, Timeout PROVE ParserInv'
<1> USE DEF Timeout, Fail, parserVars, bufferVars, localVars
<1>1. /\ InvBytes' /\ InvPlace' /\ InvElements' /\ InvRest' /\ InvStuck'
      /\ InvDelivered' /\ InvShifted' /\ shifted' = <<>>
  BY GivesUp
<1>2. InvTypes'
  BY DEF ParserInv, InvTypes
<1>3. InvModes'
  BY <1>1 DEF ParserInv, InvModes, Busy, Parsing
<1>4. InvRefused'
  BY DEF ParserInv, InvModes, InvRefused
<1> QED BY <1>1, <1>2, <1>3, <1>4 DEF ParserInv

LEMMA ClosedKeeps ==
  ASSUME ParserInv, Closed PROVE ParserInv'
<1> USE DEF Closed, Fail, parserVars, bufferVars, localVars
<1>1. /\ InvBytes' /\ InvPlace' /\ InvElements' /\ InvRest' /\ InvStuck'
      /\ InvDelivered' /\ InvShifted' /\ shifted' = <<>>
  BY GivesUp
<1>2. InvTypes'
  BY DEF ParserInv, InvTypes
<1>3. InvModes'
  BY <1>1 DEF ParserInv, InvModes, Busy, Parsing
<1>4. ~ (Coming <= Len(input.instructions))
  <2> SUFFICES ASSUME Coming <= Len(input.instructions) PROVE FALSE
    OBVIOUS
  <2>1. Busy
    BY DEF ParserInv, InvModes, Busy, Parsing
  <2>2. arrived < Start(input, Coming + 1)
    BY <2>1 DEF ParserInv, InvStuck
  <2>3. Coming + 1 \in 1 .. Len(input.instructions) + 1
    BY Basics
  <2>4. Start(input, Coming + 1) \in Nat /\ Start(input, Coming + 1) <= Len(BytesOf(input))
        /\ Len(BytesOf(input)) \in Nat
    BY <2>3, Basics
  <2>5. arrived = Len(BytesOf(input))
    BY BytesAre
  <2> QED BY <2>2, <2>4, <2>5
<1>5. InvRefused'
  <2>1. Coming' = Coming
    BY DEF Coming
  <2>2. NoneToTake(input, Coming)
    BY <1>4, Basics DEF NoneToTake
  <2> QED BY <2>1, <2>2 DEF InvRefused
<1> QED BY <1>1, <1>2, <1>3, <1>5 DEF ParserInv

\* The elements that have begun.
LEMMA PointersAre ==
  ASSUME ParserInv, Busy, Coming <= Len(input.instructions)
  PROVE  /\ Len(__elementv) \in Nat /\ EndedElements \in 0 .. Len(__elementv)
         /\ state = "CONTENT" => EndedElements = Len(__elementv) - 1
         /\ state # "CONTENT" => EndedElements = Len(__elementv)
         /\ \A i \in 1 .. Len(__elementv) :
              /\ i \in 1 .. Len(input.instructions[Coming])
              /\ __elementv[i] \in Nat
              /\ __elementv[i] + Origin = After(input, Coming, i, 0)
              /\ Len(FlattenSeq(input.instructions[Coming][i])) \in Nat
              /\ ElementLies(input, Coming, i)
<1>1. Len(__elementv) \in Nat /\ \A i \in 1 .. Len(__elementv) : __elementv[i] \in Nat
  BY SequenceIs DEF ParserInv, InvTypes
<1>2. state = "CONTENT" => Len(__elementv) >= 1
  <2>1. state = "CONTENT" => InContent(input, Coming, Len(__elementv), Here + Origin, Remaining)
    BY DEF ParserInv, InvPlace
  <2>2. state = "CONTENT" => Len(__elementv) \in 1 .. Len(input.instructions[Coming])
    BY <2>1, Zenon DEF InContent
  <2> QED BY <1>1, <2>2
<1>3. ContentsThere(input, Coming, __elementv, instructionbuf, Origin, unparsed_end)
  BY DEF ParserInv, InvElements
<1>4. Coming \in 1 .. Len(input.instructions) /\ IsInput(input)
  BY Basics
<1>5. ASSUME NEW i \in 1 .. Len(__elementv)
      PROVE  /\ i \in 1 .. Len(input.instructions[Coming])
             /\ __elementv[i] + Origin = After(input, Coming, i, 0)
             /\ Len(FlattenSeq(input.instructions[Coming][i])) \in Nat
             /\ ElementLies(input, Coming, i)
  <2>1. i \in 1 .. Len(input.instructions[Coming])
        /\ __elementv[i] + Origin = After(input, Coming, i, 0)
    BY <1>3, Zenon DEF ContentsThere
  <2>2. ElementLies(input, Coming, i)
    BY <1>4, <2>1, ElementAt, Zenon
  <2>3. Len(FlattenSeq(input.instructions[Coming][i])) \in Nat
    BY <2>2, Zenon DEF ElementLies
  <2> QED BY <2>1, <2>2, <2>3
<1> QED BY <1>1, <1>2, <1>5 DEF EndedElements

\* What has ended stays so when more is parsed.
LEMMA EndsBefore ==
  ASSUME ParserInv, Busy, Coming <= Len(input.instructions), NEW here \in Nat, Here <= here
  PROVE  ContentsEnd(input, Coming, __elementv, EndedElements, instructionbuf, here)
<1>1. ContentsEnd(input, Coming, __elementv, EndedElements, instructionbuf, Here)
  BY DEF ParserInv, InvElements
<1>2. Here \in Nat
  BY DEF ParserInv, InvTypes, Here
<1>3. ASSUME NEW i \in 1 .. EndedElements
      PROVE  __elementv[i] + Len(FlattenSeq(input.instructions[Coming][i])) + 1 <= here
             /\ instructionbuf[__elementv[i] + Len(FlattenSeq(input.instructions[Coming][i]))] = "0"
  <2> DEFINE e == __elementv[i] + Len(FlattenSeq(input.instructions[Coming][i]))
  <2>1. e + 1 <= Here /\ instructionbuf[e] = "0"
    BY <1>1, Zenon DEF ContentsEnd
  <2>2. e \in Nat
    <3>1. i \in 1 .. Len(__elementv)
      BY PointersAre
    <3>2. __elementv[i] \in Nat /\ Len(FlattenSeq(input.instructions[Coming][i])) \in Nat
      BY <3>1, PointersAre
    <3> QED BY <3>2
  <2> HIDE DEF e
  <2>3. e + 1 <= here
    BY <1>2, <2>1, <2>2
  <2> QED BY <2>1, <2>3 DEF e
<1> QED BY <1>3, Zenon DEF ContentsEnd

LEMMA LengthDigitKeeps ==
  ASSUME ParserInv, LengthDigit PROVE ParserInv'
<1> USE DEF LengthDigit, parserVars, bufferVars, outVars
<1>1. Busy /\ Busy' /\ Here = pos /\ Here' = pos + 1 /\ state = "LENGTH"
      /\ Remaining = parsed_length /\ Remaining' = parsed_length'
  BY DEF ParserInv, InvModes, Busy, Parsing, Here, InAppend, Remaining
<1>2. Origin' = Origin /\ Coming' = Coming /\ EndedElements' = EndedElements
  BY DEF Origin, Coming, EndedElements
<1>3. pos \in Nat /\ parsed_length \in Nat /\ Base \in Nat /\ Value(instructionbuf[pos]) \in Nat
      /\ Origin \in Nat /\ unparsed_end \in Nat
  <2>1. Value(instructionbuf[pos]) \in Nat
    BY DigitValue
  <2> QED BY <2>1, Basics, BaseAssumption DEF ParserInv, InvTypes
<1>4. parsed_length' \in Nat
  BY <1>3
<1>5. InvTypes'
  BY <1>3, <1>4 DEF ParserInv, InvTypes
<1>6. shifted' = <<>>
  BY DEF ParserInv, InvModes
<1>7. InvModes'
  BY <1>1, <1>3, <1>6 DEF ParserInv, InvModes, InvTypes
<1>8. InvBytes'
  <2>1. BytesThere(input, instructionbuf, Origin, pos, unparsed_end)
    BY <1>1 DEF ParserInv, InvBytes
  <2>2. \A p \in pos + 1 .. unparsed_end - 1 : p \in pos .. unparsed_end - 1
    BY <1>3
  <2>3. BytesThere(input, instructionbuf, Origin, pos + 1, unparsed_end)
    BY <2>1, <2>2 DEF BytesThere
  <2> QED BY <1>1, <1>2, <2>3 DEF InvBytes
<1>9. ASSUME Coming <= Len(input.instructions)
      PROVE  InLength(input, Coming, Len(__elementv), (pos + 1) + Origin, parsed_length')
  <2> DEFINE n == Len(__elementv) + 1
             length == Len(input.instructions[Coming][n])
             l == Len(Number(length))
             o == Begin(input, Coming, n)
  <2>1. n \in 1 .. Len(input.instructions[Coming]) /\ l \in Nat
        /\ \E d \in 0 .. l : /\ pos + Origin = o + d
                             /\ parsed_length = Partial(length, d)
                             /\ d # l => instructionbuf[pos] = Number(length)[d + 1]
                             /\ d = l => instructionbuf[pos] = "."
    BY <1>9, LengthByte, Zenon
  <2>2. PICK d \in 0 .. l : /\ pos + Origin = o + d
                            /\ parsed_length = Partial(length, d)
                            /\ d # l => instructionbuf[pos] = Number(length)[d + 1]
                            /\ d = l => instructionbuf[pos] = "."
    BY <2>1
  <2>3. length \in Nat /\ o \in Nat
    <3>1. Coming \in 1 .. Len(input.instructions) /\ IsInput(input)
      BY <1>9, Basics
    <3>2. ElementLies(input, Coming, n)
      BY <2>1, <3>1, ElementAt, Zenon
    <3> QED BY <3>2, Zenon DEF ElementLies
  <2>4. \A i \in 1 .. l : Partial(length, i) = Partial(length, i - 1) * Base + Value(Number(length)[i])
    BY <2>3, PartialIs
  <2>5. l \in Nat
    BY <2>1
  <2> HIDE DEF l, length, o, n
  <2>6. d # l
    BY <2>2, OtherIsNoDigit
  <2>7. d + 1 \in 0 .. l /\ d + 1 \in 1 .. l /\ (d + 1) - 1 = d
    BY <2>5, <2>6
  <2>8. parsed_length' = Partial(length, d + 1)
    BY <2>2, <2>4, <2>6, <2>7
  <2>9. (pos + 1) + Origin = o + (d + 1)
    BY <1>3, <2>2, <2>3, <2>7
  <2> QED BY <2>1, <2>7, <2>8, <2>9 DEF InLength, n, length, l, o
<1>10. InvPlace'
  BY <1>1, <1>2, <1>9 DEF ParserInv, InvPlace
<1>11. InvElements'
  <2>1. ASSUME Coming <= Len(input.instructions)
        PROVE  /\ ContentsThere(input, Coming, __elementv, instructionbuf, Origin, unparsed_end)
               /\ ContentsEnd(input, Coming, __elementv, EndedElements, instructionbuf, pos + 1)
    <3>1. pos + 1 \in Nat /\ Here <= pos + 1
      BY <1>1, <1>3
    <3>2. ContentsEnd(input, Coming, __elementv, EndedElements, instructionbuf, pos + 1)
      BY <1>1, <2>1, <3>1, EndsBefore
    <3> QED BY <1>1, <2>1, <3>2 DEF ParserInv, InvElements
  <2> QED BY <1>1, <1>2, <2>1 DEF InvElements
<1>12. InvRest'
  <2>1. ASSUME Coming = Len(input.instructions) + 1
        PROVE  Start(input, Coming) <= (pos + 1) + Origin
    <3>1. Start(input, Coming) <= pos + Origin
      BY <1>1, <2>1 DEF ParserInv, InvRest
    <3>2. Start(input, Coming) \in Nat
      BY <2>1, Basics
    <3> QED BY <1>3, <3>1, <3>2
  <2> QED BY <1>1, <1>2, <2>1 DEF InvRest
<1>13. InvStuck' /\ InvRefused'
  BY DEF InvStuck, ParserInv, InvModes, InvRefused
<1>14. InvDelivered'
  BY Zenon DEF ParserInv, InvDelivered
<1>15. InvShifted'
  BY <1>6 DEF InvShifted
<1> QED BY <1>5, <1>7, <1>8, <1>10, <1>11, <1>12, <1>13, <1>14, <1>15 DEF ParserInv

LEMMA LengthPeriodKeeps ==
  ASSUME ParserInv, LengthPeriod PROVE ParserInv'
<1> USE DEF LengthPeriod, bufferVars, outVars
<1>1. Busy /\ Busy' /\ Here = pos /\ Here' = pos + 1 /\ state = "LENGTH"
      /\ Remaining = parsed_length /\ Remaining' = parsed_length
  BY DEF ParserInv, InvModes, Busy, Parsing, Here, InAppend, Remaining
<1>2. Origin' = Origin /\ Coming' = Coming
  BY DEF Origin, Coming
<1>3. pos \in Nat /\ Origin \in Nat /\ unparsed_end \in Nat /\ pos + 1 <= unparsed_end
      /\ instr_start \in Nat /\ instr_start <= pos
  BY <1>1, Basics DEF ParserInv, InvTypes, InvModes
<1> DEFINE v == __elementv
           w == Append(v, pos + 1)
<1>4. /\ w \in Seq(Nat) /\ Len(v) \in Nat /\ Len(w) = Len(v) + 1 /\ w[Len(v) + 1] = pos + 1
      /\ \A i \in 1 .. Len(v) : w[i] = v[i]
  <2>1. v \in Seq(Nat) /\ pos + 1 \in Nat
    BY <1>3 DEF ParserInv, InvTypes
  <2> HIDE DEF v
  <2> QED BY <2>1
<1>5. __elementv' = w /\ state' = "CONTENT" /\ at' = "lengthEnd"
  OBVIOUS
<1>6. Len(v) < MaxElements /\ MaxElements \in Nat
  BY SizeAssumption DEF ParserInv, InvModes
<1>7. EndedElements' = Len(v) /\ EndedElements = Len(v)
  <2> HIDE DEF w
  <2> QED BY <1>1, <1>4, <1>5 DEF EndedElements
<1>8. InvTypes'
  <2>1. ASSUME NEW i \in 1 .. Len(w) PROVE w[i] \in instr_start .. unparsed_end
    <3>1. CASE i \in 1 .. Len(v)
      <4>1. v[i] \in instr_start .. unparsed_end
        BY <3>1 DEF ParserInv, InvTypes
      <4> HIDE DEF v, w
      <4> QED BY <1>4, <3>1, <4>1
    <3>2. CASE i = Len(v) + 1
      <4> HIDE DEF v, w
      <4> QED BY <1>3, <1>4, <3>2
    <3> HIDE DEF v, w
    <3> QED BY <1>4, <3>1, <3>2
  <2>2. Len(w) <= MaxElements
    <3> HIDE DEF v, w
    <3> QED BY <1>4, <1>6
  <2>3. __elementv' \in Seq(Nat) /\ Len(__elementv') <= MaxElements
        /\ \A i \in 1 .. Len(__elementv') : __elementv'[i] \in instr_start .. unparsed_end
    <3> HIDE DEF w
    <3> QED BY <1>4, <1>5, <2>1, <2>2
  <2> HIDE DEF w
  <2> QED BY <1>3, <1>5, <2>3 DEF ParserInv, InvTypes
<1>9. shifted' = <<>>
  BY DEF ParserInv, InvModes
<1>10. InvModes'
  BY <1>1, <1>3, <1>9 DEF ParserInv, InvModes, InvTypes
<1>11. BytesThere(input, instructionbuf, Origin, pos, unparsed_end)
  BY <1>1 DEF ParserInv, InvBytes
<1>12. InvBytes'
  <2>1. \A p \in pos + 1 .. unparsed_end - 1 : p \in pos .. unparsed_end - 1
    BY <1>3
  <2>2. BytesThere(input, instructionbuf, Origin, pos + 1, unparsed_end)
    BY <1>11, <2>1 DEF BytesThere
  <2> QED BY <1>1, <1>2, <2>2 DEF InvBytes
<1>13. ASSUME Coming <= Len(input.instructions)
       PROVE  /\ ElementLies(input, Coming, Len(v) + 1)
              /\ Len(v) + 1 \in 1 .. Len(input.instructions[Coming])
              /\ (pos + 1) + Origin = After(input, Coming, Len(v) + 1, 0)
              /\ parsed_length = Len(input.instructions[Coming][Len(v) + 1])
              /\ parsed_length \in Nat
  <2> DEFINE n == Len(v) + 1
             length == Len(input.instructions[Coming][n])
             l == Len(Number(length))
             o == Begin(input, Coming, n)
             a == After(input, Coming, n, 0)
  <2>1. n \in 1 .. Len(input.instructions[Coming]) /\ l \in Nat
        /\ \E d \in 0 .. l : /\ pos + Origin = o + d
                             /\ parsed_length = Partial(length, d)
                             /\ d # l => instructionbuf[pos] = Number(length)[d + 1]
    BY <1>13, LengthByte, Zenon
  <2>2. PICK d \in 0 .. l : /\ pos + Origin = o + d
                            /\ parsed_length = Partial(length, d)
                            /\ d # l => instructionbuf[pos] = Number(length)[d + 1]
    BY <2>1
  <2>3. ElementLies(input, Coming, n)
    <3>1. Coming \in 1 .. Len(input.instructions) /\ IsInput(input)
      BY <1>13, Basics
    <3> QED BY <2>1, <3>1, ElementAt, Zenon
  <2>4. length \in Nat /\ o \in Nat /\ a = o + l + 1
    BY <2>3, Zenon DEF ElementLies
  <2>5. Partial(length, l) = length /\ \A i \in 1 .. l : IsDigit(Number(length)[i])
    BY <2>4, PartialIs
  <2>6. l \in Nat /\ n \in 1 .. Len(input.instructions[Coming])
    BY <2>1
  <2> HIDE DEF l, length, o, n, a
  <2>7. d = l
    <3>1. d # l => d + 1 \in 1 .. l
      BY <2>6
    <3> QED BY <2>2, <2>5, <3>1, OtherIsNoDigit
  <2>8. (pos + 1) + Origin = a
    BY <1>3, <2>2, <2>4, <2>6, <2>7
  <2>9. parsed_length = length
    BY <2>2, <2>5, <2>7
  <2> QED BY <2>3, <2>4, <2>6, <2>8, <2>9 DEF n, length, a
<1>14. InvPlace'
  <2>1. ASSUME Coming <= Len(input.instructions)
        PROVE  InContent(input, Coming, Len(v) + 1, (pos + 1) + Origin, parsed_length)
    <3> DEFINE h == Len(input.instructions[Coming][Len(v) + 1])
    <3>1. 0 \in 0 .. h /\ parsed_length = h - 0
      <4>1. parsed_length \in Nat /\ parsed_length = h
        BY <1>13, <2>1
      <4> HIDE DEF h
      <4> QED BY <4>1
    <3>2. Len(v) + 1 \in 1 .. Len(input.instructions[Coming])
          /\ (pos + 1) + Origin = After(input, Coming, Len(v) + 1, 0)
      BY <1>13, <2>1
    <3> QED BY <3>1, <3>2, Zenon DEF InContent
  <2>2. Len(__elementv') = Len(v) + 1
    <3> HIDE DEF w, v
    <3> QED BY <1>4, <1>5
  <2>3. instr_start' + Origin' = instr_start + Origin
    BY <1>2
  <2> HIDE DEF w
  <2> QED BY <1>1, <1>2, <1>5, <2>1, <2>2, <2>3 DEF ParserInv, InvPlace
<1>15. InvElements'
  <2>1. SUFFICES ASSUME Coming <= Len(input.instructions)
        PROVE  /\ ContentsThere(input, Coming, w, instructionbuf, Origin, unparsed_end)
               /\ ContentsEnd(input, Coming, w, Len(v), instructionbuf, pos + 1)
    <3> HIDE DEF w, v
    <3> QED BY <1>1, <1>2, <1>5, <1>7 DEF InvElements
  <2>2. ContentsThere(input, Coming, v, instructionbuf, Origin, unparsed_end)
    BY <1>1, <2>1 DEF ParserInv, InvElements
  <2>3. ContentsEnd(input, Coming, v, Len(v), instructionbuf, pos + 1)
    <3>1. pos + 1 \in Nat /\ Here <= pos + 1
      BY <1>1, <1>3
    <3> QED BY <1>1, <1>7, <2>1, <3>1, EndsBefore
  <2> DEFINE F(i) == FlattenSeq(input.instructions[Coming][i])
  <2>4. ASSUME NEW i \in 1 .. Len(w)
        PROVE  /\ i \in 1 .. Len(input.instructions[Coming])
               /\ w[i] + Origin = After(input, Coming, i, 0)
               /\ \A x \in 1 .. Len(F(i)) :
                    w[i] + x - 1 < unparsed_end => instructionbuf[w[i] + x - 1] = F(i)[x]
    <3>1. CASE i \in 1 .. Len(v)
      <4>1. /\ i \in 1 .. Len(input.instructions[Coming])
            /\ v[i] + Origin = After(input, Coming, i, 0)
            /\ \A x \in 1 .. Len(F(i)) :
                 v[i] + x - 1 < unparsed_end => instructionbuf[v[i] + x - 1] = F(i)[x]
        BY <2>2, <3>1, Zenon DEF ContentsThere
      <4>2. w[i] = v[i]
        BY <1>4, <3>1
      <4> HIDE DEF v, w, F
      <4> QED BY <4>1, <4>2
    <3>2. CASE i = Len(v) + 1
      <4> DEFINE n == Len(v) + 1
                 f == F(n)
                 B == BytesOf(input)
                 o == Begin(input, Coming, n) + Len(Number(Len(input.instructions[Coming][n]))) + 1
      <4>1. /\ n \in 1 .. Len(input.instructions[Coming])
            /\ (pos + 1) + Origin = After(input, Coming, n, 0)
            /\ ElementLies(input, Coming, n)
        BY <1>13, <2>1
      <4>2. /\ After(input, Coming, n, 0) = o
            /\ Len(f) \in Nat /\ \A x \in 1 .. Len(f) : B[o + x] = f[x]
        BY <4>1, Zenon DEF ElementLies
      <4>3. w[n] = pos + 1
        BY <1>4
      <4>4. \A p \in pos .. unparsed_end - 1 : instructionbuf[p] = B[Origin + p + 1]
        BY <1>11 DEF BytesThere
      <4>5. i = n /\ Coming \in Nat
        BY <3>2, Basics
      <4> HIDE DEF v, w, F, f, B, o, n
      <4>6. (pos + 1) + Origin = o
        BY <4>1, <4>2
      <4>7. ASSUME NEW x \in 1 .. Len(f), w[n] + x - 1 < unparsed_end
            PROVE  instructionbuf[w[n] + x - 1] = f[x]
        <5>1. w[n] + x - 1 = pos + x /\ pos + x \in pos .. unparsed_end - 1
              /\ Origin + (pos + x) + 1 = o + x
          BY <1>3, <4>2, <4>3, <4>6, <4>7
        <5> QED BY <4>2, <4>4, <5>1
      <4>8. w[n] + Origin = After(input, Coming, n, 0)
        BY <4>1, <4>3
      <4> QED BY <4>1, <4>5, <4>7, <4>8 DEF f
    <3>3. i \in 1 .. Len(v) \/ i = Len(v) + 1
      <4> HIDE DEF v, w
      <4> QED BY <1>4
    <3> QED BY <3>1, <3>2, <3>3
  <2>5. ContentsThere(input, Coming, w, instructionbuf, Origin, unparsed_end)
    <3> HIDE DEF v, w
    <3> QED BY <2>4, Zenon DEF ContentsThere
  <2>6. ContentsEnd(input, Coming, w, Len(v), instructionbuf, pos + 1)
    <3> HIDE DEF v, w
    <3> QED BY <1>4, <2>3 DEF ContentsEnd
  <2> QED BY <2>5, <2>6
<1>16. InvRest'
  <2>1. ASSUME Coming = Len(input.instructions) + 1
        PROVE  Start(input, Coming) <= (pos + 1) + Origin
    <3>1. Start(input, Coming) <= pos + Origin
      BY <1>1, <2>1 DEF ParserInv, InvRest
    <3>2. Start(input, Coming) \in Nat
      BY <2>1, Basics
    <3> QED BY <1>3, <3>1, <3>2
  <2> QED BY <1>1, <1>2, <2>1 DEF InvRest
<1>17. InvStuck' /\ InvRefused'
  BY DEF InvStuck, ParserInv, InvModes, InvRefused
<1>18. InvDelivered'
  BY Zenon DEF ParserInv, InvDelivered
<1>19. InvShifted'
  BY <1>9 DEF InvShifted
<1> QED BY <1>8, <1>10, <1>12, <1>14, <1>15, <1>16, <1>17, <1>18, <1>19 DEF ParserInv

LEMMA ContentCharacterKeeps ==
  ASSUME ParserInv, ContentCharacter PROVE ParserInv'
<1> USE DEF ContentCharacter, bufferVars, outVars
<1> DEFINE size == CharSize(instructionbuf[pos])
<1>1. Busy /\ Busy' /\ Here = pos /\ Here' = pos + size /\ state = "CONTENT"
      /\ Remaining = __element_length /\ Remaining' = __element_length - 1
  BY DEF ParserInv, InvModes, Busy, Parsing, Here, InAppend, Remaining
<1>2. Origin' = Origin /\ Coming' = Coming /\ EndedElements' = EndedElements
  BY DEF Origin, Coming, EndedElements
<1>3. pos \in Nat /\ Origin \in Nat /\ unparsed_end \in Nat /\ pos < unparsed_end
      /\ __element_length \in 0 .. MaxLength /\ MaxLength \in Nat
  BY Basics DEF ParserInv, InvTypes, CharacterThere
<1>4. size \in {1, 2} /\ pos + size <= unparsed_end
  BY DEF CharacterThere, CharSize
<1>5. pos' = pos + size /\ __element_length' = __element_length - 1
  OBVIOUS
<1> HIDE DEF size
<1>6. __element_length' \in 0 .. MaxLength /\ pos' \in Nat
  BY <1>3, <1>4, <1>5
<1>7. InvTypes'
  BY <1>6 DEF ParserInv, InvTypes
<1>8. shifted' = <<>>
  BY DEF ParserInv, InvModes
<1>9. InvModes'
  <2>1. unparsed_start' <= pos' /\ pos' <= unparsed_end'
    BY <1>1, <1>3, <1>4, <1>5 DEF ParserInv, InvModes, InvTypes
  <2> QED BY <1>1, <1>5, <1>8, <2>1 DEF ParserInv, InvModes
<1>10. InvBytes'
  <2>1. BytesThere(input, instructionbuf, Origin, pos, unparsed_end)
    BY <1>1 DEF ParserInv, InvBytes
  <2>2. \A p \in pos + size .. unparsed_end - 1 : p \in pos .. unparsed_end - 1
    BY <1>3, <1>4
  <2>3. BytesThere(input, instructionbuf, Origin, pos + size, unparsed_end)
    BY <2>1, <2>2 DEF BytesThere
  <2> QED BY <1>1, <1>2, <2>3 DEF InvBytes
<1>11. ASSUME Coming <= Len(input.instructions)
       PROVE  InContent(input, Coming, Len(__elementv), (pos + size) + Origin,
                        __element_length - 1)
  <2> DEFINE n == Len(__elementv)
             h == Len(input.instructions[Coming][n])
             A(c) == After(input, Coming, n, c)
  <2>1. /\ n \in 1 .. Len(input.instructions[Coming]) /\ h \in Nat
        /\ \E c \in 0 .. h :
             /\ pos + Origin = A(c) /\ __element_length = h - c
             /\ pos < unparsed_end /\ c # h => A(c + 1) = A(c) + size
    BY <1>11, ContentByte, Zenon DEF size
  <2>2. PICK c \in 0 .. h :
             /\ pos + Origin = A(c) /\ __element_length = h - c
             /\ pos < unparsed_end /\ c # h => A(c + 1) = A(c) + size
    BY <2>1
  <2>3. h \in Nat
    BY <2>1
  <2>4. __element_length > 0
    OBVIOUS
  <2> DEFINE x == A(c)
             y == A(c + 1)
  <2>5. n \in 1 .. Len(input.instructions[Coming])
    BY <2>1
  <2> HIDE DEF h, A, n
  <2>6. c # h /\ c + 1 \in 0 .. h /\ __element_length - 1 = h - (c + 1)
    BY <2>2, <2>3, <2>4
  <2>7. y = x + size /\ pos + Origin = x
    BY <1>3, <2>2, <2>6
  <2> HIDE DEF x, y
  <2>8. (pos + size) + Origin = y
    BY <1>3, <1>4, <2>7
  <2> QED BY <2>5, <2>6, <2>8 DEF InContent, n, h, y, A
<1>12. InvPlace'
  BY <1>1, <1>2, <1>11 DEF ParserInv, InvPlace
<1>13. InvElements'
  <2>1. ASSUME Coming <= Len(input.instructions)
        PROVE  /\ ContentsThere(input, Coming, __elementv, instructionbuf, Origin, unparsed_end)
               /\ ContentsEnd(input, Coming, __elementv, EndedElements, instructionbuf, pos + size)
    <3>1. pos + size \in Nat /\ Here <= pos + size
      BY <1>1, <1>3, <1>4
    <3>2. ContentsEnd(input, Coming, __elementv, EndedElements, instructionbuf, pos + size)
      BY <1>1, <2>1, <3>1, EndsBefore
    <3> QED BY <1>1, <2>1, <3>2 DEF ParserInv, InvElements
  <2> QED BY <1>1, <1>2, <2>1 DEF InvElements
<1>14. InvRest'
  <2>1. ASSUME Coming = Len(input.instructions) + 1
        PROVE  Start(input, Coming) <= (pos + size) + Origin
    <3>1. Start(input, Coming) <= pos + Origin
      BY <1>1, <2>1 DEF ParserInv, InvRest
    <3>2. Start(input, Coming) \in Nat
      BY <2>1, Basics
    <3> QED BY <1>3, <1>4, <3>1, <3>2
  <2> QED BY <1>1, <1>2, <2>1 DEF InvRest
<1>15. InvStuck' /\ InvRefused'
  BY <1>1 DEF InvStuck, ParserInv, InvModes, InvRefused
<1>16. InvDelivered'
  BY Zenon DEF ParserInv, InvDelivered
<1>17. InvShifted'
  BY <1>8 DEF InvShifted
<1> QED BY <1>7, <1>9, <1>10, <1>12, <1>13, <1>14, <1>15, <1>16, <1>17 DEF ParserInv

\* The byte after a content.
LEMMA Terminator ==
  ASSUME ParserInv, at = "content", CharacterThere, __element_length = 0,
         Coming <= Len(input.instructions)
  PROVE  LET n == Len(__elementv)
         IN  /\ n \in 1 .. Len(input.instructions[Coming]) /\ ElementLies(input, Coming, n)
             /\ pos + Origin = After(input, Coming, n, Len(input.instructions[Coming][n]))
             /\ instructionbuf[pos] =
                  IF n = Len(input.instructions[Coming]) THEN ";" ELSE ","
<1> DEFINE n == Len(__elementv)
           h == Len(input.instructions[Coming][n])
           A(c) == After(input, Coming, n, c)
           t == IF n = Len(input.instructions[Coming]) THEN ";" ELSE ","
<1>1. /\ n \in 1 .. Len(input.instructions[Coming]) /\ h \in Nat
      /\ \E c \in 0 .. h :
           /\ pos + Origin = A(c) /\ __element_length = h - c
           /\ pos < unparsed_end /\ c = h => instructionbuf[pos] = t
  BY ContentByte, Zenon
<1>2. PICK c \in 0 .. h :
           /\ pos + Origin = A(c) /\ __element_length = h - c
           /\ pos < unparsed_end /\ c = h => instructionbuf[pos] = t
  BY <1>1
<1>3. h \in Nat /\ pos < unparsed_end
  BY <1>1 DEF CharacterThere
<1>4. c = h
  <2>1. 0 = h - c
    BY <1>2
  <2>2. h \in Nat
    BY <1>3
  <2> HIDE DEF h
  <2> QED BY <2>1, <2>2
<1>5. ElementLies(input, Coming, n)
  <2>1. Coming \in 1 .. Len(input.instructions) /\ IsInput(input)
    BY Basics
  <2> QED BY <1>1, <2>1, ElementAt, Zenon
<1> HIDE DEF t
<1> QED BY <1>1, <1>2, <1>3, <1>4, <1>5, Zenon DEF t

\* All contents that have begun have ended before the byte at pos.
LEMMA AllEnd ==
  ASSUME ParserInv, at = "content", CharacterThere, __element_length = 0,
         Coming <= Len(input.instructions), NEW i \in 1 .. Len(__elementv)
  PROVE  LET end == __elementv[i] + Len(FlattenSeq(input.instructions[Coming][i]))
         IN  /\ end \in Nat /\ end <= pos
             /\ end # pos => instructionbuf[end] = "0"
<1> DEFINE n == Len(__elementv)
           m == Len(FlattenSeq(input.instructions[Coming][i]))
           end == __elementv[i] + m
<1>1. Busy /\ Here = pos /\ state = "CONTENT" /\ pos \in Nat /\ Origin \in Nat
  BY Basics DEF ParserInv, InvTypes, InvModes, Busy, Parsing, Here, InAppend
<1>2. n \in Nat /\ EndedElements = n - 1
      /\ __elementv[i] \in Nat /\ m \in Nat /\ ElementLies(input, Coming, i)
      /\ __elementv[i] + Origin = After(input, Coming, i, 0)
  BY <1>1, PointersAre
<1>3. CASE i # n
  <2>1. i \in 1 .. EndedElements
    <3> HIDE DEF n
    <3> QED BY <1>2, <1>3 DEF n
  <2>2. ContentsEnd(input, Coming, __elementv, EndedElements, instructionbuf, pos)
    BY <1>1 DEF ParserInv, InvElements
  <2>3. end + 1 <= pos /\ instructionbuf[end] = "0"
    BY <2>1, <2>2, Zenon DEF ContentsEnd
  <2>4. end \in Nat
    BY <1>2
  <2> HIDE DEF end
  <2>5. end <= pos
    BY <1>1, <2>3, <2>4
  <2> QED BY <2>3, <2>4, <2>5 DEF end
<1>4. CASE i = n
  <2> DEFINE a == After(input, Coming, i, 0)
             last == After(input, Coming, i, Len(input.instructions[Coming][i]))
             o == Begin(input, Coming, i)
             l == Len(Number(Len(input.instructions[Coming][i])))
  <2>1. a = o + l + 1 /\ last = o + l + 1 + m /\ o \in Nat /\ l \in Nat \ {0}
    BY <1>2, Zenon DEF ElementLies
  <2>2. pos + Origin = last
    BY <1>4, Terminator, Zenon
  <2> HIDE DEF a, last, o, l, m, n
  <2>3. end = pos
    BY <1>1, <1>2, <2>1, <2>2 DEF a
  <2> QED BY <1>1, <2>3 DEF m
<1> QED BY <1>3, <1>4

LEMMA ContentTerminatorKeeps ==
  ASSUME ParserInv, ContentTerminator PROVE ParserInv'
<1> DEFINE size == CharSize(instructionbuf[pos])
           byte == instructionbuf[pos]
           n == Len(__elementv)
           buf == [instructionbuf EXCEPT ![pos] = "0"]
           els == input.instructions[Coming]
<1>1. Busy /\ Here = pos /\ state = "CONTENT"
  BY DEF ContentTerminator, ParserInv, InvModes, Busy, Parsing, Here, InAppend
<1>2. Origin' = Origin /\ Coming' = Coming
  BY DEF ContentTerminator, outVars, Origin, Coming
<1>3. pos \in Nat /\ Origin \in Nat /\ unparsed_end \in Nat /\ pos < unparsed_end
      /\ Capacity \in Nat /\ unparsed_end <= Capacity /\ unparsed_start \in Nat
      /\ unparsed_start <= pos /\ n \in Nat
  BY <1>1, Basics, SequenceIs DEF ContentTerminator, ParserInv, InvTypes, InvModes, CharacterThere
<1>4. size \in {1, 2} /\ pos + size <= unparsed_end
  BY DEF ContentTerminator, CharacterThere, CharSize
<1>5. /\ pos' = pos + size /\ instructionbuf' = buf /\ at' = "appended"
      /\ state' = IF byte = ";" THEN "COMPLETE" ELSE IF byte = "," THEN "LENGTH" ELSE "ERROR"
  <2>1. state' = IF byte = ";" THEN "COMPLETE" ELSE IF byte = "," THEN "LENGTH" ELSE "ERROR"
    <3>1. CASE byte = ";"
      BY <3>1 DEF ContentTerminator
    <3>2. CASE byte = ","
      BY <3>2 DEF ContentTerminator
    <3>3. CASE byte # ";" /\ byte # ","
      BY <3>3 DEF ContentTerminator
    <3> QED BY <3>1, <3>2, <3>3
  <2> QED BY <2>1 DEF ContentTerminator
<1>6. buf \in [0 .. Capacity - 1 -> Symbols \cup {"0"}] /\ buf[pos] = "0"
      /\ \A p \in 0 .. Capacity - 1 : p # pos => buf[p] = instructionbuf[p]
  <2>1. instructionbuf \in [0 .. Capacity - 1 -> Symbols \cup {"0"}]
    BY DEF ParserInv, InvTypes
  <2>2. pos \in 0 .. Capacity - 1
    BY <1>3
  <2>3. buf \in [0 .. Capacity - 1 -> Symbols \cup {"0"}] /\ buf[pos] = "0"
    BY <2>1, <2>2
  <2>4. ASSUME NEW p \in 0 .. Capacity - 1, p # pos PROVE buf[p] = instructionbuf[p]
    BY <2>1, <2>2, <2>4
  <2> QED BY <2>3, <2>4
<1>7. UNCHANGED <<input, arrived, __element_length, __elementv, instr_start, unparsed_start,
                  unparsed_end, parsed_length, delivered, shifted, failure>>
  BY DEF ContentTerminator, outVars
<1>8. at = "content" /\ CharacterThere /\ __element_length = 0
  BY DEF ContentTerminator
<1> HIDE DEF size, buf, n
<1>9. pos' \in Nat /\ pos' > unparsed_start' /\ pos' <= unparsed_end'
  <2>1. unparsed_start' = unparsed_start /\ unparsed_end' = unparsed_end /\ pos' = pos + size
    BY <1>5, <1>7
  <2> QED BY <1>3, <1>4, <2>1
<1>10. state' \in {"LENGTH", "COMPLETE", "ERROR"}
  BY <1>5
<1>11. InvTypes'
  BY <1>5, <1>6, <1>7, <1>9, <1>10 DEF ParserInv, InvTypes
<1>12. shifted' = <<>> /\ failure' = "none"
  BY <1>7, <1>8 DEF ParserInv, InvModes
<1>13. Busy' => Here' = pos'
  BY <1>5 DEF Here, InAppend
<1>14. InvModes'
  <2>1. at' = "appended"
    BY <1>5
  <2>2. unparsed_start' \in Nat
    BY <1>3, <1>7
  <2> QED BY <1>9, <1>10, <1>12, <1>13, <2>1, <2>2 DEF InvModes
<1>15. InvDelivered'
  BY <1>7, Zenon DEF ParserInv, InvDelivered
<1>16. InvShifted'
  <2>1. at' = "appended"
    BY <1>5
  <2> QED BY <1>12, <2>1 DEF InvShifted
<1>17. InvStuck'
  <2>1. at' = "appended"
    BY <1>5
  <2>2. pos' # unparsed_start'
    BY <1>3, <1>7, <1>9
  <2> QED BY <2>1, <2>2 DEF InvStuck
<1>18. InvBytes'
  <2>1. BytesThere(input, instructionbuf, Origin, pos, unparsed_end)
    BY <1>1 DEF ParserInv, InvBytes
  <2>2. \A p \in pos + size .. unparsed_end - 1 : p \in pos .. unparsed_end - 1 /\ p # pos
                                                   /\ p \in 0 .. Capacity - 1
    BY <1>3, <1>4
  <2>3. BytesThere(input, buf, Origin, pos + size, unparsed_end)
    BY <1>6, <2>1, <2>2 DEF BytesThere
  <2>4. Busy' \/ at' = "idle" => Here' = pos + size
    BY <1>5, <1>13
  <2> QED BY <1>2, <1>5, <1>7, <2>3, <2>4 DEF InvBytes
<1>19. Coming <= Len(input.instructions) =>
         /\ n \in 1 .. Len(els) /\ ElementLies(input, Coming, n)
         /\ pos + Origin = After(input, Coming, n, Len(els[n]))
         /\ byte = IF n = Len(els) THEN ";" ELSE ","
  BY <1>8, Terminator, Zenon DEF n
<1>20. InvRefused'
  <2>1. state' = "ERROR" => Coming = Len(input.instructions) + 1
    <3>1. state' = "ERROR" => ~ (Coming <= Len(input.instructions))
      BY <1>5, <1>19
    <3> QED BY <3>1, Basics
  <2>2. state' = "ERROR" => NoneToTake(input, Coming)
    BY <2>1 DEF NoneToTake
  <2> QED BY <1>2, <1>7, <1>12, <2>2 DEF InvRefused
<1>21. InvRest'
  <2>1. ASSUME Coming = Len(input.instructions) + 1
        PROVE  byte # ";" /\ Start(input, Coming) <= (pos + size) + Origin
    <3> DEFINE s == Start(input, Coming)
               B == BytesOf(input)
    <3>1. s <= pos + Origin /\ s \in Nat
      BY <1>1, <2>1, Basics DEF ParserInv, InvRest
    <3>2. BytesThere(input, instructionbuf, Origin, pos, unparsed_end)
      BY <1>1 DEF ParserInv, InvBytes
    <3>3. pos \in pos .. unparsed_end - 1
      BY <1>3
    <3>4. byte = B[Origin + pos + 1]
      BY <3>2, <3>3 DEF BytesThere
    <3>5. Origin + pos + 1 \in s + 1 .. Len(B)
      <4>1. arrived = Origin + unparsed_end /\ arrived <= Len(B) /\ Len(B) \in Nat
        BY Basics DEF ParserInv, InvTypes
      <4> HIDE DEF s, B
      <4> QED BY <1>3, <3>1, <4>1
    <3>6. \A x \in (Start(input, Len(input.instructions) + 1) + 1) .. Len(B) : B[x] # ";"
      BY Basics, InstructionsAre, Zenon
    <3>7. \A x \in s + 1 .. Len(B) : B[x] # ";"
      BY <2>1, <3>6
    <3> HIDE DEF s, B, byte
    <3>8. s <= (pos + size) + Origin
      BY <1>3, <1>4, <3>1
    <3> QED BY <3>4, <3>5, <3>7, <3>8 DEF s
  <2> QED BY <1>2, <1>5, <1>7, <1>13, <2>1 DEF InvRest
<1>22. ASSUME Coming <= Len(input.instructions), Busy'
       PROVE  /\ size = 1 /\ Remaining' = 0
              /\ n # Len(els) => state' = "LENGTH"
                   /\ InLength(input, Coming, n, (pos + 1) + Origin, 0)
              /\ n = Len(els) => state' = "COMPLETE"
                   /\ AtEnd(input, Coming, n, (pos + 1) + Origin)
  <2> DEFINE last == After(input, Coming, n, Len(els[n]))
  <2>1. n \in 1 .. Len(els) /\ ElementLies(input, Coming, n) /\ pos + Origin = last
        /\ byte = IF n = Len(els) THEN ";" ELSE ","
    BY <1>19, <1>22
  <2>2. size = 1
    BY <2>1 DEF size, CharSize
  <2>3. Remaining' = 0
    BY <1>5, <1>7, <1>8 DEF Remaining
  <2>4. (pos + 1) + Origin = last + 1
    <3>1. pos + Origin = last
      BY <2>1
    <3> HIDE DEF last
    <3> QED BY <1>3, <3>1
  <2>5. ASSUME n # Len(els)
        PROVE  state' = "LENGTH" /\ InLength(input, Coming, n, (pos + 1) + Origin, 0)
    <3>1. state' = "LENGTH"
      BY <1>5, <2>1, <2>5
    <3>2. Begin(input, Coming, n + 1) = last + 1
      BY <2>1, <2>5, Zenon DEF ElementLies
    <3>3. n + 1 \in 1 .. Len(els)
      <4>1. n \in 1 .. Len(els) /\ Len(els) \in Nat
        <5>1. IsInstruction(els)
          BY <1>22, ComingIs
        <5> QED BY <2>1, <5>1 DEF IsInstruction
      <4> DEFINE m == Len(els)
      <4> HIDE DEF els, m
      <4>2. n \in 1 .. m /\ m \in Nat /\ n # m
        BY <2>5, <4>1 DEF m
      <4>3. n + 1 \in 1 .. m
        BY <4>2
      <4> QED BY <4>3 DEF m
    <3> DEFINE h == Len(els[n + 1])
               b == Begin(input, Coming, n + 1)
    <3>4. h \in Nat
      <4>1. IsElement(els[n + 1])
        BY <1>22, <3>3, ComingIs DEF IsInstruction
      <4> QED BY <4>1, SequenceIs DEF IsElement
    <3>5. Len(Number(h)) \in Nat /\ Partial(h, 0) = 0
      BY <3>4, PartialIs
    <3>6. 0 \in 0 .. Len(Number(h))
      <4> HIDE DEF h
      <4> QED BY <3>5
    <3>7. b \in Nat
      <4>1. Coming \in 1 .. Len(input.instructions) /\ IsInput(input)
        BY <1>22, Basics
      <4>2. ElementLies(input, Coming, n + 1)
        BY <3>3, <4>1, ElementAt, Zenon
      <4> QED BY <4>2, Zenon DEF ElementLies
    <3>8. (pos + 1) + Origin = b + 0
      <4>1. (pos + 1) + Origin = b
        BY <2>4, <3>2
      <4> HIDE DEF b
      <4> QED BY <3>7, <4>1
    <3>9. \E d \in 0 .. Len(Number(h)) : (pos + 1) + Origin = b + d /\ 0 = Partial(h, d)
      <4> HIDE DEF h, b
      <4> QED BY <3>5, <3>6, <3>8
    <3> QED BY <3>1, <3>3, <3>9, Zenon DEF InLength
  <2>6. ASSUME n = Len(els)
        PROVE  state' = "COMPLETE" /\ AtEnd(input, Coming, n, (pos + 1) + Origin)
    <3>1. state' = "COMPLETE"
      BY <1>5, <2>1, <2>6
    <3>2. Start(input, Coming + 1) = last + 1
      BY <2>1, <2>6, Zenon DEF ElementLies
    <3> QED BY <2>4, <2>6, <3>1, <3>2 DEF AtEnd
  <2> QED BY <2>2, <2>3, <2>5, <2>6
<1>23. InvPlace'
  <2>1. SUFFICES ASSUME Coming <= Len(input.instructions), Busy'
        PROVE  /\ instr_start + Origin = Start(input, Coming)
               /\ state' = "LENGTH" => InLength(input, Coming, n, Here' + Origin, Remaining')
               /\ state' = "COMPLETE" => AtEnd(input, Coming, n, Here' + Origin)
               /\ state' # "CONTENT"
    BY <1>2, <1>7 DEF InvPlace, n
  <2>2. instr_start + Origin = Start(input, Coming)
    BY <1>1, <2>1 DEF ParserInv, InvPlace
  <2>3. Here' = pos + 1 /\ Remaining' = 0
    BY <1>5, <1>13, <1>22, <2>1
  <2> QED BY <1>10, <1>22, <2>1, <2>2, <2>3
<1>24. InvElements'
  <2>1. SUFFICES ASSUME Coming <= Len(input.instructions), Busy'
        PROVE  /\ ContentsThere(input, Coming, __elementv, buf, Origin, unparsed_end)
               /\ ContentsEnd(input, Coming, __elementv, n, buf, pos + size)
    <3>1. Busy' => EndedElements' = n /\ Here' = pos + size
      BY <1>5, <1>7, <1>10, <1>13 DEF EndedElements, n
    <3> QED BY <1>2, <1>5, <1>7, <3>1 DEF InvElements
  <2> DEFINE F(i) == FlattenSeq(input.instructions[Coming][i])
             m(i) == Len(F(i))
             v == __elementv
  <2>2. ASSUME NEW i \in 1 .. n
        PROVE  /\ v[i] \in Nat /\ m(i) \in Nat /\ v[i] + m(i) <= pos
               /\ v[i] + m(i) # pos => instructionbuf[v[i] + m(i)] = "0"
    <3>1. i \in 1 .. Len(__elementv)
      BY DEF n
    <3>2. v[i] \in Nat /\ m(i) \in Nat
      BY <1>1, <2>1, <3>1, PointersAre
    <3>3. v[i] + m(i) <= pos /\ (v[i] + m(i) # pos => instructionbuf[v[i] + m(i)] = "0")
      BY <1>8, <2>1, <3>1, AllEnd, Zenon
    <3> QED BY <3>2, <3>3
  <2>3. ContentsThere(input, Coming, v, instructionbuf, Origin, unparsed_end)
    BY <1>1, <2>1 DEF ParserInv, InvElements
  <2>4. ASSUME NEW i \in 1 .. n
        PROVE  /\ i \in 1 .. Len(input.instructions[Coming])
               /\ v[i] + Origin = After(input, Coming, i, 0)
               /\ \A x \in 1 .. m(i) :
                    v[i] + x - 1 < unparsed_end => buf[v[i] + x - 1] = F(i)[x]
    <3>1. /\ i \in 1 .. Len(input.instructions[Coming])
          /\ v[i] + Origin = After(input, Coming, i, 0)
          /\ \A x \in 1 .. m(i) :
               v[i] + x - 1 < unparsed_end => instructionbuf[v[i] + x - 1] = F(i)[x]
      BY <2>3, Zenon DEF ContentsThere, n
    <3>2. ASSUME NEW x \in 1 .. m(i) PROVE v[i] + x - 1 < unparsed_end =>
                                              /\ v[i] + x - 1 # pos
                                              /\ v[i] + x - 1 \in 0 .. Capacity - 1
      <4> DEFINE a == v[i]
                 b == m(i)
      <4>1. a \in Nat /\ b \in Nat /\ a + b <= pos /\ x \in 1 .. b
        BY <2>2
      <4> HIDE DEF a, b
      <4>2. a + x - 1 < unparsed_end => a + x - 1 # pos /\ a + x - 1 \in 0 .. Capacity - 1
        BY <1>3, <4>1
      <4> QED BY <4>2 DEF a
    <3> QED BY <1>6, <3>1, <3>2
  <2>5. ContentsThere(input, Coming, v, buf, Origin, unparsed_end)
    BY <2>4, Zenon DEF ContentsThere, n
  <2>6. ASSUME NEW i \in 1 .. n
        PROVE  v[i] + m(i) + 1 <= pos + size /\ buf[v[i] + m(i)] = "0"
    <3> DEFINE e == v[i] + m(i)
    <3>1. e \in Nat /\ e <= pos /\ (e # pos => instructionbuf[e] = "0")
      BY <2>2
    <3> HIDE DEF e
    <3>2. e + 1 <= pos + size /\ buf[e] = "0"
      BY <1>3, <1>4, <1>6, <3>1
    <3> QED BY <3>2 DEF e
  <2>7. ContentsEnd(input, Coming, v, n, buf, pos + size)
    BY <2>6, Zenon DEF ContentsEnd
  <2> QED BY <2>5, <2>7
<1> QED BY <1>11, <1>14, <1>15, <1>16, <1>17, <1>18, <1>20, <1>21, <1>23, <1>24 DEF ParserInv

\* Where the content of an element that has ended is found.
LEMMA ContentIs ==
  ASSUME Capacity \in Nat, NEW p \in Nat, NEW flat \in Seq(Symbols),
         p + Len(flat) < Capacity, instructionbuf[p + Len(flat)] = "0",
         \A x \in 1 .. Len(flat) : /\ instructionbuf[p + x - 1] = flat[x]
                                   /\ flat[x] # "0"
  PROVE  Content(p) = flat
<1> DEFINE m == Len(flat)
           Q(q) == /\ instructionbuf[q] = "0"
                   /\ \A r \in p .. (q - 1) : instructionbuf[r] # "0"
           end == CHOOSE q \in p .. (Capacity - 1) : Q(q)
<1>1. m \in Nat /\ flat = [x \in 1 .. m |-> flat[x]]
  OBVIOUS
<1>2. \A x \in 1 .. m : instructionbuf[p + x - 1] = flat[x] /\ flat[x] # "0"
  OBVIOUS
<1>3. p + m \in p .. (Capacity - 1) /\ instructionbuf[p + m] = "0"
  BY <1>1
<1> HIDE DEF m
<1>4. ASSUME NEW r \in p .. ((p + m) - 1) PROVE instructionbuf[r] # "0"
  <2>1. r - p + 1 \in 1 .. m /\ p + (r - p + 1) - 1 = r
    BY <1>1
  <2> QED BY <1>2, <2>1
<1>5. Q(p + m)
  BY <1>3, <1>4, Zenon
<1>6. ASSUME NEW q \in p .. (Capacity - 1), Q(q) PROVE q = p + m
  <2>1. q \in Int /\ p <= q
    OBVIOUS
  <2>2. CASE q < p + m
    <3>1. q \in p .. ((p + m) - 1)
      BY <1>1, <2>1, <2>2
    <3> QED BY <1>4, <1>6, <3>1
  <2>3. CASE p + m < q
    <3>1. p + m \in p .. (q - 1)
      BY <1>1, <2>1, <2>3
    <3> QED BY <1>3, <1>6, <3>1
  <2> QED BY <1>1, <2>1, <2>2, <2>3
<1> HIDE DEF Q
<1>7. end \in p .. (Capacity - 1) /\ Q(end)
  BY <1>3, <1>5
<1>8. end = p + m
  BY <1>6, <1>7
<1>9. Content(p) = [i \in 1 .. (end - p) |-> instructionbuf[p + i - 1]]
  BY Zenon DEF Content, Q
<1> HIDE DEF end
<1>10. end - p = m
  BY <1>1, <1>8
<1>11. [i \in 1 .. m |-> instructionbuf[p + i - 1]] = [x \in 1 .. m |-> flat[x]]
  BY <1>2
<1> QED BY <1>1, <1>9, <1>10, <1>11

\* All elements are where they were written.
LEMMA ContentsAre ==
  ASSUME ParserInv, at = "appended", state = "COMPLETE", Coming <= Len(input.instructions)
  PROVE  /\ Len(__elementv) = Len(input.instructions[Coming])
         /\ \A i \in 1 .. Len(__elementv) :
              Content(__elementv[i]) = FlattenSeq(input.instructions[Coming][i])
<1> DEFINE F(i) == FlattenSeq(input.instructions[Coming][i])
           v == __elementv
<1>1. Busy /\ Here = pos /\ EndedElements = Len(v)
  BY DEF Busy, Parsing, Here, InAppend, EndedElements
<1>2. Len(v) = Len(input.instructions[Coming])
  BY <1>1 DEF ParserInv, InvPlace, AtEnd
<1>3. pos \in Nat /\ pos <= unparsed_end /\ unparsed_end \in Nat
      /\ unparsed_end <= Capacity /\ Capacity \in Nat
  BY <1>1, Basics DEF ParserInv, InvTypes, InvModes
<1>4. ASSUME NEW i \in 1 .. Len(v) PROVE Content(v[i]) = F(i)
  <2> DEFINE p == v[i]
             flat == F(i)
             m == Len(flat)
  <2>1. i \in 1 .. Len(input.instructions[Coming]) /\ p \in Nat /\ m \in Nat
        /\ ElementLies(input, Coming, i)
    BY <1>1, PointersAre
  <2>2. flat \in Seq(Symbols)
    <3>1. IsElement(input.instructions[Coming][i])
      BY <2>1, ComingIs DEF IsInstruction
    <3> QED BY <3>1, FlattenIs, Zenon DEF IsElement
  <2>3. p + m + 1 <= pos /\ instructionbuf[p + m] = "0"
    <3>1. ContentsEnd(input, Coming, v, Len(v), instructionbuf, pos)
      BY <1>1 DEF ParserInv, InvElements
    <3> QED BY <3>1, Zenon DEF ContentsEnd
  <2>4. \A x \in 1 .. m : p + x - 1 < unparsed_end => instructionbuf[p + x - 1] = flat[x]
    <3>1. ContentsThere(input, Coming, v, instructionbuf, Origin, unparsed_end)
      BY <1>1 DEF ParserInv, InvElements
    <3> QED BY <3>1, Zenon DEF ContentsThere
  <2>5. \A x \in 1 .. m : flat[x] # "0"
    BY <2>1, Zenon DEF ElementLies
  <2> HIDE DEF p, flat, m
  <2>6. p + m < Capacity /\ \A x \in 1 .. m : p + x - 1 < unparsed_end
    BY <1>3, <2>1, <2>3
  <2>7. Content(p) = flat
    BY <1>3, <2>1, <2>2, <2>3, <2>4, <2>5, <2>6, ContentIs DEF m
  <2> QED BY <2>7 DEF p, flat
<1> QED BY <1>2, <1>4

LEMMA ParsedKeeps ==
  ASSUME ParserInv, Parsed PROVE ParserInv'
<1>1. Busy /\ Here = pos /\ at = "appended" /\ state # "ERROR" /\ unparsed_start' = pos
      /\ Remaining = __element_length
  BY DEF Parsed, Busy, Parsing, Here, InAppend, Remaining
<1>2. UNCHANGED <<input, arrived, state, __element_length, __elementv, instructionbuf,
                  instr_start, unparsed_end, pos, parsed_length, shifted, failure>>
  BY DEF Parsed, parserVars, localVars
<1>3. Origin' = Origin /\ failure' = "none" /\ at' \in {"append", "idle"}
  BY <1>1, <1>2 DEF Parsed, Origin, ParserInv, InvModes
<1>4. pos \in Nat /\ pos <= unparsed_end /\ unparsed_start \in Nat /\ unparsed_start <= pos
      /\ instr_start \in Nat /\ instr_start <= unparsed_start
  BY <1>1 DEF ParserInv, InvTypes, InvModes
<1>5. InvTypes'
  <2>1. unparsed_start' = pos /\ at' \in {"append", "idle"} /\ instr_start <= pos
    BY <1>1, <1>3, <1>4
  <2> QED BY <1>2, <1>4, <2>1 DEF ParserInv, InvTypes
<1>6. InvStuck' /\ InvRefused'
  BY <1>3 DEF InvStuck, InvRefused
<1>7. CASE state # "COMPLETE"
  <2>1. at' = "append" /\ delivered' = delivered
    BY <1>7 DEF Parsed
  <2>2. Parsing' /\ Here' = Here /\ Remaining' = Remaining /\ Here' = unparsed_start'
    BY <1>1, <1>2, <2>1 DEF Parsing, Here, InAppend, Remaining
  <2>3. /\ InvBytes' /\ InvPlace' /\ InvElements' /\ InvRest' /\ InvDelivered'
        /\ InvShifted' /\ shifted' = <<>>
    BY <1>1, <1>2, <2>1, <2>2, StaysPut
  <2>4. InvModes'
    <3>1. state' \in {"LENGTH", "CONTENT"}
      BY <1>1, <1>2, <1>7 DEF ParserInv, InvTypes
    <3>2. unparsed_start' <= Here' /\ Here' <= unparsed_end'
      BY <1>5, <2>2 DEF InvTypes
    <3> QED BY <1>3, <2>1, <2>3, <3>1, <3>2 DEF InvModes
  <2> QED BY <1>5, <1>6, <2>3, <2>4 DEF ParserInv
<1>8. CASE state = "COMPLETE"
  <2> DEFINE els == input.instructions[Coming]
             fresh == [i \in 1 .. Len(__elementv) |-> Content(__elementv[i])]
  <2>1. at' = "idle" /\ delivered' = Append(delivered, fresh)
    BY <1>8 DEF Parsed
  <2>2. Coming <= Len(input.instructions)
    <3>1. Coming # Len(input.instructions) + 1
      BY <1>1, <1>8 DEF ParserInv, InvRest
    <3> QED BY <3>1, Basics
  <2>3. fresh = MeantOf(input, Coming)
    <3>1. /\ Len(__elementv) = Len(els)
          /\ \A i \in 1 .. Len(__elementv) : Content(__elementv[i]) = FlattenSeq(els[i])
      BY <1>1, <1>8, <2>2, ContentsAre
    <3> QED BY <3>1 DEF MeantOf
  <2>4. fresh \in Seq(Seq(Symbols))
    <3>1. Len(els) \in Nat /\ \A i \in 1 .. Len(els) : IsElement(els[i])
      BY <2>2, ComingIs DEF IsInstruction
    <3>2. \A i \in 1 .. Len(els) : FlattenSeq(els[i]) \in Seq(Symbols)
      BY <3>1, FlattenIs, Zenon DEF IsElement
    <3>3. [i \in 1 .. Len(els) |-> FlattenSeq(els[i])] \in Seq(Seq(Symbols))
      <4> DEFINE S == Seq(Symbols)
                 n == Len(els)
                 f(i) == FlattenSeq(els[i])
      <4>1. n \in Nat /\ \A i \in 1 .. n : f(i) \in S
        BY <3>1, <3>2
      <4> HIDE DEF S, n, f
      <4>2. [i \in 1 .. n |-> f(i)] \in Seq(S)
        BY <4>1
      <4> QED BY <4>2 DEF S, n, f
    <3> QED BY <2>3, <3>3 DEF MeantOf
  <2>5. delivered \in Seq(Seq(Seq(Symbols))) /\ Len(delivered) = Coming - 1
        /\ Len(delivered) \in Nat
    <3>1. delivered \in Seq(Seq(Seq(Symbols)))
      BY DEF ParserInv, InvDelivered
    <3>2. Len(delivered) \in Nat
      BY <3>1, SequenceIs, Zenon
    <3> QED BY <3>1, <3>2, Basics
  <2> HIDE DEF fresh
  <2>6. /\ delivered' \in Seq(Seq(Seq(Symbols))) /\ Len(delivered') = Coming
        /\ \A k \in 1 .. Coming - 1 : delivered'[k] = delivered[k]
        /\ delivered'[Coming] = fresh
    <3> DEFINE S == Seq(Seq(Symbols))
               c == Coming
    <3>1. delivered \in Seq(S) /\ fresh \in S /\ Len(delivered) = c - 1 /\ c \in Nat \ {0}
      BY <2>4, <2>5, Basics
    <3>2. delivered' = Append(delivered, fresh)
      BY <2>1
    <3> HIDE DEF S, c
    <3>3. /\ delivered' \in Seq(S) /\ Len(delivered') = c
          /\ \A k \in 1 .. c - 1 : delivered'[k] = delivered[k]
          /\ delivered'[c] = fresh
      BY <3>1, <3>2
    <3> QED BY <3>3 DEF S, c
  <2>7. Coming' = Coming + 1
    BY <2>6 DEF Coming
  <2>8. InvDelivered'
    <3>1. Len(delivered) = Coming - 1
          /\ \A k \in 1 .. Len(delivered) : delivered[k] = MeantOf(input, k)
      BY <2>5 DEF ParserInv, InvDelivered
    <3>2. ASSUME NEW k \in 1 .. Coming PROVE delivered'[k] = MeantOf(input, k)
      <4>1. CASE k = Coming
        BY <2>3, <2>6, <4>1
      <4>2. CASE k # Coming
        <5>1. k \in 1 .. Coming - 1 /\ k \in 1 .. Len(delivered)
          BY <2>5, <4>2, Basics
        <5> QED BY <2>6, <3>1, <5>1
      <4> QED BY <4>1, <4>2
    <3>3. input' = input
      BY <1>2
    <3> QED BY <2>2, <2>6, <3>2, <3>3, Zenon DEF InvDelivered
  <2>9. ~Busy' /\ Here' = pos /\ shifted = <<>> /\ shifted' = <<>>
    BY <1>1, <1>2, <2>1 DEF Busy, Parsing, Here, InAppend, ParserInv, InvModes
  <2>10. InvBytes'
    <3>1. BytesThere(input, instructionbuf, Origin, pos, unparsed_end)
      BY <1>1 DEF ParserInv, InvBytes
    <3> QED BY <1>2, <1>3, <2>9, <3>1 DEF InvBytes
  <2>11. InvPlace' /\ InvElements' /\ InvRest'
    BY <2>9 DEF InvPlace, InvElements, InvRest
  <2>12. InvModes'
    BY <1>2, <1>3, <1>8, <2>1, <2>9 DEF InvModes
  <2>13. InvShifted'
    <3>1. pos + Origin = Start(input, Coming + 1)
      BY <1>1, <1>8, <2>2 DEF ParserInv, InvPlace, AtEnd
    <3>2. Len(shifted') = 0 /\ shifted' \in Seq(Symbols \cup {"0"})
      BY <2>9
    <3>3. unparsed_start' + Origin' = Start(input', Coming') + Len(shifted')
      <4> DEFINE s == Start(input, Coming + 1)
      <4>1. unparsed_start' + Origin' = s /\ Start(input', Coming') = s /\ Len(shifted') = 0
        BY <1>1, <1>2, <1>3, <2>7, <3>1, <3>2
      <4>2. s \in Nat
        <5>1. Coming + 1 \in 1 .. Len(input.instructions) + 1
          BY <2>2, Basics
        <5> QED BY <5>1, Basics
      <4> HIDE DEF s
      <4> QED BY <4>1, <4>2
    <3> QED BY <2>9, <3>2, <3>3 DEF InvShifted
  <2> QED BY <1>5, <1>6, <2>8, <2>10, <2>11, <2>12, <2>13 DEF ParserInv
<1> QED BY <1>7, <1>8

LEMMA ReadKeeps ==
  ASSUME ParserInv, Read PROVE ParserInv'
<1>1. /\ state' = "LENGTH" /\ __element_length' = 0 /\ __elementv' = <<>>
      /\ instr_start' = unparsed_start /\ at = "idle" /\ at' = "append" /\ shifted = <<>>
  BY DEF Read, parserVars, ParserInv, InvModes
<1>2. UNCHANGED <<input, arrived, instructionbuf, unparsed_start, unparsed_end, pos,
                  parsed_length, delivered, shifted, failure>>
  BY DEF Read, localVars, outVars
<1>3. /\ Origin' = Origin /\ Coming' = Coming /\ Here = unparsed_start
      /\ Here' = unparsed_start /\ Remaining' = 0 /\ EndedElements' = 0
  BY <1>1, <1>2 DEF Origin, Coming, Here, InAppend, Remaining, EndedElements
<1>4. unparsed_start \in Nat /\ unparsed_end \in Nat /\ unparsed_start <= unparsed_end
      /\ Origin \in Nat
  BY Basics DEF ParserInv, InvTypes
<1>5. InvTypes'
  <2>1. __elementv' \in Seq(Nat) /\ Len(__elementv') = 0
    BY <1>1
  <2>2. 0 \in 0 .. MaxLength /\ Len(__elementv') <= MaxElements
    BY <2>1, Basics
  <2> QED BY <1>1, <1>2, <1>4, <2>1, <2>2 DEF ParserInv, InvTypes
<1>6. failure' = "none"
  BY <1>1, <1>2 DEF ParserInv, InvModes
<1>7. InvModes'
  <2>1. unparsed_start' <= Here' /\ Here' <= unparsed_end'
    BY <1>2, <1>3, <1>4
  <2> QED BY <1>1, <1>2, <1>6, <2>1 DEF InvModes
<1>8. InvBytes'
  <2>1. BytesThere(input, instructionbuf, Origin, unparsed_start, unparsed_end)
    BY <1>1, <1>3 DEF ParserInv, InvBytes
  <2> QED BY <1>2, <1>3, <2>1 DEF InvBytes
<1>9. unparsed_start + Origin = Start(input, Coming)
  <2>1. unparsed_start + Origin = Start(input, Coming) + 0
    BY <1>1 DEF ParserInv, InvShifted
  <2>2. Start(input, Coming) \in Nat
    BY Basics
  <2> QED BY <2>1, <2>2
<1>10. ASSUME Coming <= Len(input.instructions)
       PROVE  InLength(input, Coming, 0, Start(input, Coming), 0)
  <2> DEFINE els == input.instructions[Coming]
             h == Len(els[1])
             b == Begin(input, Coming, 1)
  <2>1. 0 + 1 \in 1 .. Len(els) /\ 0 + 1 = 1
    BY <1>10, ComingIs DEF IsInstruction
  <2>2. ElementLies(input, Coming, 1)
    <3>1. Coming \in 1 .. Len(input.instructions) /\ IsInput(input)
      BY <1>10, Basics
    <3> QED BY <2>1, <3>1, ElementAt, Zenon
  <2>3. b = Start(input, Coming) /\ h \in Nat /\ b \in Nat
    BY <2>2, Zenon DEF ElementLies
  <2>4. Len(Number(h)) \in Nat /\ Partial(h, 0) = 0
    BY <2>3, PartialIs
  <2>5. \E d \in 0 .. Len(Number(h)) : b = b + d /\ 0 = Partial(h, d)
    <3> HIDE DEF h, b
    <3> QED BY <2>3, <2>4
  <2> QED BY <2>1, <2>3, <2>5, Zenon DEF InLength
<1>11. InvPlace'
  <2> SUFFICES ASSUME Coming <= Len(input.instructions)
      PROVE  /\ unparsed_start + Origin = Start(input, Coming)
             /\ InLength(input, Coming, 0, unparsed_start + Origin, 0)
    <3>1. Len(__elementv') = 0
      BY <1>1
    <3> QED BY <1>1, <1>2, <1>3, <3>1 DEF InvPlace
  <2> QED BY <1>9, <1>10
<1>12. InvElements'
  <2>1. ContentsThere(input', Coming', __elementv', instructionbuf', Origin', unparsed_end')
    BY <1>1 DEF ContentsThere
  <2>2. ContentsEnd(input', Coming', __elementv', EndedElements', instructionbuf', Here')
    BY <1>3 DEF ContentsEnd
  <2> QED BY <2>1, <2>2 DEF InvElements
<1>13. InvRest'
  <2>1. Start(input, Coming) \in Nat
    BY Basics
  <2>2. Start(input, Coming) <= unparsed_start + Origin
    BY <1>9, <2>1
  <2> QED BY <1>1, <1>2, <1>3, <2>2 DEF InvRest
<1>14. InvStuck' /\ InvRefused'
  BY <1>1, <1>6 DEF InvStuck, InvRefused
<1>15. InvDelivered'
  BY <1>2, Zenon DEF ParserInv, InvDelivered
<1>16. InvShifted'
  BY <1>1, <1>2 DEF InvShifted
<1> QED BY <1>5, <1>7, <1>8, <1>11, <1>12, <1>13, <1>14, <1>15, <1>16 DEF ParserInv

LEMMA ShiftKeeps ==
  ASSUME ParserInv, Shift PROVE ParserInv'
<1> DEFINE l == Len(shifted)
           B == BytesOf(input)
           s == Start(input, Coming)
<1>1. PICK n \in 1 .. (unparsed_end - unparsed_start) :
        /\ shifted' = shifted \o [i \in 1 .. n |-> instructionbuf[unparsed_start + i - 1]]
        /\ unparsed_start' = unparsed_start + n
  BY DEF Shift, AfterShift
<1>2. at = "idle" /\ state = "COMPLETE"
  BY DEF Shift
<1>3. UNCHANGED <<input, arrived, state, __element_length, __elementv, instructionbuf,
                  instr_start, unparsed_end, at, pos, parsed_length, delivered, failure>>
  BY DEF Shift, parserVars, localVars
<1>4. /\ unparsed_start \in Nat /\ unparsed_end \in Nat /\ unparsed_start <= unparsed_end
      /\ n \in Nat /\ n >= 1 /\ unparsed_start + n <= unparsed_end
      /\ unparsed_end <= Capacity /\ Capacity \in Nat /\ Origin \in Nat
      /\ arrived = Origin + unparsed_end /\ arrived <= Len(B) /\ Len(B) \in Nat
      /\ instr_start \in Nat /\ instr_start <= unparsed_start
  BY <1>1, Basics DEF ParserInv, InvTypes
<1>5. Origin' = Origin /\ Coming' = Coming /\ Here = unparsed_start /\ Here' = unparsed_start + n
  BY <1>1, <1>2, <1>3 DEF Origin, Coming, Here, InAppend
<1>6. BytesThere(input, instructionbuf, Origin, unparsed_start, unparsed_end)
  BY <1>2, <1>5 DEF ParserInv, InvBytes
<1>7. InvTypes'
  <2>1. unparsed_start' \in Nat /\ instr_start <= unparsed_start'
        /\ unparsed_start' <= unparsed_end
    BY <1>1, <1>4
  <2> QED BY <1>3, <2>1 DEF ParserInv, InvTypes
<1>8. ~Busy' /\ failure' = "none" /\ at' = "idle" /\ state' = "COMPLETE"
  BY <1>2, <1>3 DEF Busy, Parsing, ParserInv, InvModes
<1>9. InvModes' /\ InvPlace' /\ InvElements' /\ InvRest' /\ InvStuck' /\ InvRefused'
  BY <1>8 DEF InvModes, InvPlace, InvElements, InvRest, InvStuck, InvRefused
<1>10. InvBytes'
  <2>1. BytesThere(input, instructionbuf, Origin, unparsed_start + n, unparsed_end)
    BY <1>4, <1>6 DEF BytesThere
  <2> QED BY <1>3, <1>5, <2>1 DEF InvBytes
<1>11. InvDelivered'
  BY <1>3, Zenon DEF ParserInv, InvDelivered
<1>12. InvShifted'
  <2> DEFINE fresh == [i \in 1 .. n |-> instructionbuf[unparsed_start + i - 1]]
             S == Symbols \cup {"0"}
  <2>1. shifted \in Seq(S) /\ l \in Nat /\ s \in Nat /\ unparsed_start + Origin = s + l
    <3>1. shifted \in Seq(S) /\ unparsed_start + Origin = s + l
      BY <1>2 DEF ParserInv, InvShifted
    <3>2. l \in Nat
      BY <3>1, SequenceIs
    <3> QED BY <3>1, <3>2, Basics
  <2>2. \A x \in 1 .. l : s + x <= Len(B) /\ shifted[x] = B[s + x]
    <3>1. CASE shifted = <<>>
      BY <3>1
    <3>2. CASE shifted # <<>>
      BY <3>2, Zenon DEF ParserInv, InvShifted
    <3> QED BY <3>1, <3>2
  <2>3. instructionbuf \in [0 .. Capacity - 1 -> S]
    BY DEF ParserInv, InvTypes
  <2>4. ASSUME NEW i \in 1 .. n
        PROVE  /\ instructionbuf[unparsed_start + i - 1] \in S
               /\ instructionbuf[unparsed_start + i - 1] = B[s + l + i]
               /\ s + l + i <= Len(B)
    <3>1. unparsed_start + i - 1 \in 0 .. Capacity - 1
          /\ unparsed_start + i - 1 \in unparsed_start .. unparsed_end - 1
          /\ Origin + (unparsed_start + i - 1) + 1 = s + l + i
          /\ s + l + i <= Len(B)
      <4> HIDE DEF s, l, B
      <4> QED BY <1>4, <2>1
    <3>2. instructionbuf[unparsed_start + i - 1] = B[Origin + (unparsed_start + i - 1) + 1]
      BY <1>6, <3>1, Zenon DEF BytesThere
    <3>3. instructionbuf[unparsed_start + i - 1] \in S
      BY <2>3, <3>1
    <3> QED BY <3>1, <3>2, <3>3
  <2>5. fresh \in Seq(S) /\ Len(fresh) = n /\ \A i \in 1 .. n : fresh[i] = B[s + l + i]
    <3> DEFINE f(i) == instructionbuf[unparsed_start + i - 1]
               b(i) == B[s + l + i]
    <3>1. n \in Nat /\ \A i \in 1 .. n : f(i) \in S /\ f(i) = b(i)
      BY <1>4, <2>4
    <3> HIDE DEF S, f, b
    <3>2. [i \in 1 .. n |-> f(i)] \in Seq(S) /\ Len([i \in 1 .. n |-> f(i)]) = n
          /\ \A i \in 1 .. n : [j \in 1 .. n |-> f(j)][i] = b(i)
      BY <3>1
    <3> QED BY <3>2 DEF f, b
  <2>6. shifted' = shifted \o fresh
    BY <1>1
  <2> HIDE DEF fresh, S, B
  <2>7. /\ shifted' \in Seq(S) /\ Len(shifted') = l + n
        /\ \A x \in 1 .. l : shifted'[x] = shifted[x]
        /\ \A x \in l + 1 .. l + n : shifted'[x] = fresh[x - l]
    <3>1. shifted \in Seq(S) /\ fresh \in Seq(S) /\ Len(fresh) = n
      BY <2>1, <2>5
    <3> QED BY <2>6, <3>1, JoinedAre
  <2> HIDE DEF l, s
  <2>8. ASSUME NEW x \in 1 .. l + n PROVE s + x <= Len(B) /\ shifted'[x] = B[s + x]
    <3>1. CASE x <= l
      <4>1. x \in 1 .. l
        BY <2>1, <3>1
      <4> QED BY <2>2, <2>7, <4>1
    <3>2. CASE ~(x <= l)
      <4>1. x \in l + 1 .. l + n /\ x - l \in 1 .. n /\ s + l + (x - l) = s + x
        BY <1>4, <2>1, <3>2
      <4>2. s + l + (x - l) <= Len(B)
        BY <2>4, <4>1
      <4> QED BY <2>5, <2>7, <4>1, <4>2
    <3> QED BY <3>1, <3>2
  <2>9. unparsed_start' + Origin = s + Len(shifted')
    <3>1. unparsed_start' = unparsed_start + n
      BY <1>1
    <3> QED BY <1>4, <2>1, <2>7, <3>1
  <2>10. shifted' \in Seq(Symbols \cup {"0"})
    BY <2>7 DEF S
  <2>11. Start(input', Coming') = s /\ BytesOf(input') = B /\ Origin' = Origin
    BY <1>3, <1>5 DEF s, B
  <2> QED BY <2>7, <2>8, <2>9, <2>10, <2>11, Zenon DEF InvShifted
<1> QED BY <1>7, <1>9, <1>10, <1>11, <1>12 DEF ParserInv

LEMMA ShiftBufferKeeps ==
  ASSUME ParserInv, ShiftBuffer PROVE ParserInv'
<1> DEFINE n == Len(__elementv)
           s == instr_start
           v == __elementv
           w == [i \in 1 .. n |-> v[i] - s]
           buf == [p \in 0 .. (Capacity - 1) |->
                     IF p < Capacity - s THEN instructionbuf[p + s] ELSE instructionbuf[p]]
<1>1. /\ at = "fill" /\ unparsed_end = Capacity /\ instructionbuf' = buf
      /\ unparsed_end' = Capacity - s /\ unparsed_start' = unparsed_start - s
      /\ instr_start' = 0 /\ __elementv' = w
  BY DEF ShiftBuffer, ElementsMoved
<1>2. UNCHANGED <<input, arrived, state, __element_length, at, pos, parsed_length,
                  delivered, shifted, failure>>
  BY DEF ShiftBuffer, localVars, outVars
<1>3. /\ Busy /\ Here = unparsed_start /\ state \in {"LENGTH", "CONTENT"}
      /\ shifted = <<>> /\ failure = "none"
  BY <1>1 DEF Busy, Parsing, Here, InAppend, ParserInv, InvModes
<1>4. /\ s \in Nat /\ unparsed_start \in Nat /\ Capacity \in Nat /\ Origin \in Nat
      /\ s <= unparsed_start /\ unparsed_start <= Capacity /\ arrived = Origin + Capacity
      /\ arrived \in Nat
  BY <1>1, Basics DEF ParserInv, InvTypes
<1>5. n \in Nat /\ v \in Seq(Nat) /\ \A i \in 1 .. n : v[i] \in s .. Capacity
  BY <1>1, SequenceIs DEF ParserInv, InvTypes
<1>6. w \in Seq(Nat) /\ Len(w) = n
      /\ \A i \in 1 .. n : w[i] = v[i] - s /\ w[i] \in 0 .. Capacity - s /\ v[i] \in Nat
  <2> DEFINE f(i) == v[i] - s
  <2>1. \A i \in 1 .. n : f(i) \in Nat /\ f(i) \in 0 .. Capacity - s /\ v[i] \in Nat
    BY <1>4, <1>5
  <2> HIDE DEF f, n
  <2>2. [i \in 1 .. n |-> f(i)] \in Seq(Nat) /\ Len([i \in 1 .. n |-> f(i)]) = n
        /\ \A i \in 1 .. n : [j \in 1 .. n |-> f(j)][i] = f(i)
    BY <1>5, <2>1
  <2>3. \A i \in 1 .. n : [j \in 1 .. n |-> f(j)][i] \in 0 .. Capacity - s /\ v[i] \in Nat
    BY <2>1, <2>2
  <2> QED BY <2>2, <2>3, Zenon DEF f
<1>7. /\ buf \in [0 .. Capacity - 1 -> Symbols \cup {"0"}]
      /\ \A p \in 0 .. Capacity - s - 1 : buf[p] = instructionbuf[p + s]
  <2>1. instructionbuf \in [0 .. Capacity - 1 -> Symbols \cup {"0"}]
    BY DEF ParserInv, InvTypes
  <2>2. ASSUME NEW p \in 0 .. Capacity - 1
        PROVE  (IF p < Capacity - s THEN instructionbuf[p + s] ELSE instructionbuf[p])
                 \in Symbols \cup {"0"}
    <3>1. CASE p < Capacity - s
      <4>1. p + s \in 0 .. Capacity - 1
        BY <1>4, <3>1
      <4> QED BY <2>1, <3>1, <4>1
    <3>2. CASE ~(p < Capacity - s)
      BY <2>1, <3>2
    <3> QED BY <3>1, <3>2
  <2>3. \A p \in 0 .. Capacity - s - 1 : p \in 0 .. Capacity - 1 /\ p < Capacity - s
    BY <1>4
  <2> QED BY <2>2, <2>3
<1> HIDE DEF w, buf, n
<1>8. /\ Origin' = Origin + s /\ Here' = unparsed_start - s /\ Here' + Origin' = Here + Origin
      /\ Coming' = Coming /\ Remaining' = Remaining /\ EndedElements' = EndedElements
      /\ 0 + Origin' = s + Origin /\ Here' \in Nat /\ Here' <= Capacity - s
  <2>1. Origin' = Origin + s
    <3>1. Origin' = arrived - (Capacity - s)
      BY <1>1, <1>2 DEF Origin
    <3> QED BY <1>4, <3>1
  <2>2. Here' = unparsed_start - s
    BY <1>1, <1>2 DEF Here, InAppend
  <2>3. Len(__elementv') = Len(__elementv)
    BY <1>1, <1>6 DEF n
  <2>4. Coming' = Coming /\ Remaining' = Remaining /\ EndedElements' = EndedElements
    BY <1>1, <1>2, <2>3 DEF Coming, Remaining, EndedElements
  <2>5. Here' + Origin' = Here + Origin /\ 0 + Origin' = s + Origin
        /\ Here' \in Nat /\ Here' <= Capacity - s
    BY <1>3, <1>4, <2>1, <2>2
  <2> QED BY <2>1, <2>2, <2>4, <2>5
<1>9. InvTypes'
  <2>1. /\ unparsed_start' \in Nat /\ unparsed_end' \in Nat /\ instr_start' \in Nat
        /\ instr_start' <= unparsed_start' /\ unparsed_start' <= unparsed_end'
        /\ unparsed_end' <= Capacity /\ unparsed_end' <= arrived'
    BY <1>1, <1>2, <1>4
  <2>2. \A i \in 1 .. Len(__elementv') : __elementv'[i] \in instr_start' .. unparsed_end'
    BY <1>1, <1>6
  <2>3. __elementv' \in Seq(Nat) /\ Len(__elementv') <= MaxElements
    BY <1>1, <1>6 DEF ParserInv, InvTypes, n
  <2>4. instructionbuf' \in [0 .. Capacity - 1 -> Symbols \cup {"0"}]
    BY <1>1, <1>7
  <2> QED BY <1>2, <2>1, <2>2, <2>3, <2>4 DEF ParserInv, InvTypes
<1>10. InvModes'
  <2>1. unparsed_start' <= Here' /\ Here' <= unparsed_end'
    BY <1>1, <1>4, <1>8
  <2>2. at' = "fill" /\ state' \in {"LENGTH", "CONTENT"} /\ shifted' = <<>> /\ failure' = "none"
    BY <1>1, <1>2, <1>3
  <2> QED BY <2>1, <2>2 DEF InvModes
<1>11. InvBytes'
  <2>1. BytesThere(input, instructionbuf, Origin, unparsed_start, Capacity)
    BY <1>1, <1>3 DEF ParserInv, InvBytes
  <2>2. ASSUME NEW p \in unparsed_start - s .. (Capacity - s) - 1
        PROVE  buf[p] = BytesOf(input)[(Origin + s) + p + 1]
    <3>1. /\ p \in 0 .. Capacity - s - 1 /\ p + s \in unparsed_start .. Capacity - 1
          /\ Origin + (p + s) + 1 = (Origin + s) + p + 1
      BY <1>4
    <3>2. buf[p] = instructionbuf[p + s]
      BY <1>7, <3>1
    <3>3. instructionbuf[p + s] = BytesOf(input)[Origin + (p + s) + 1]
      BY <2>1, <3>1, Zenon DEF BytesThere
    <3> QED BY <3>1, <3>2, <3>3
  <2>3. BytesThere(input, buf, Origin + s, unparsed_start - s, Capacity - s)
    BY <2>2 DEF BytesThere
  <2> QED BY <1>1, <1>2, <1>8, <2>3 DEF InvBytes
<1>12. InvPlace'
  <2>1. Len(__elementv') = Len(__elementv)
    BY <1>1, <1>6 DEF n
  <2>2. instr_start' + Origin' = instr_start + Origin
    BY <1>1, <1>8
  <2> QED BY <1>2, <1>3, <1>8, <2>1, <2>2 DEF ParserInv, InvPlace
<1>13. InvElements'
  <2> SUFFICES ASSUME Coming <= Len(input.instructions)
      PROVE  /\ ContentsThere(input, Coming, w, buf, Origin', Capacity - s)
             /\ ContentsEnd(input, Coming, w, EndedElements, buf, Here')
    BY <1>1, <1>2, <1>8 DEF InvElements
  <2> DEFINE F(i) == FlattenSeq(input.instructions[Coming][i])
             m(i) == Len(F(i))
  <2>1. ASSUME NEW i \in 1 .. n
        PROVE  /\ i \in 1 .. Len(input.instructions[Coming])
               /\ v[i] + Origin = After(input, Coming, i, 0)
               /\ \A x \in 1 .. m(i) :
                    v[i] + x - 1 < Capacity => instructionbuf[v[i] + x - 1] = F(i)[x]
    <3>1. ContentsThere(input, Coming, v, instructionbuf, Origin, Capacity)
      BY <1>1, <1>3 DEF ParserInv, InvElements
    <3> QED BY <3>1, Zenon DEF ContentsThere, n
  <2>2. ASSUME NEW i \in 1 .. n
        PROVE  /\ w[i] + Origin' = After(input, Coming, i, 0)
               /\ \A x \in 1 .. m(i) :
                    w[i] + x - 1 < Capacity - s => buf[w[i] + x - 1] = F(i)[x]
    <3> DEFINE a == v[i]
               b == m(i)
               c == w[i]
    <3>1. a \in Nat /\ c = a - s /\ c \in Nat
      BY <1>6
    <3>2. a + Origin = After(input, Coming, i, 0)
      BY <2>1
    <3>3. \A x \in 1 .. b : a + x - 1 < Capacity => instructionbuf[a + x - 1] = F(i)[x]
      BY <2>1
    <3> HIDE DEF a, b, c, F
    <3>4. c + Origin' = a + Origin
      BY <1>4, <1>8, <3>1
    <3>5. ASSUME NEW x \in 1 .. b, c + x - 1 < Capacity - s PROVE buf[c + x - 1] = F(i)[x]
      <4>1. /\ c + x - 1 \in 0 .. Capacity - s - 1 /\ (c + x - 1) + s = a + x - 1
            /\ a + x - 1 < Capacity
        BY <1>4, <3>1, <3>5
      <4>2. buf[c + x - 1] = instructionbuf[(c + x - 1) + s]
        BY <1>7, <4>1, Zenon
      <4> QED BY <3>3, <4>1, <4>2
    <3>6. c + Origin' = After(input, Coming, i, 0)
          /\ \A x \in 1 .. b : c + x - 1 < Capacity - s => buf[c + x - 1] = F(i)[x]
      BY <3>2, <3>4, <3>5
    <3> QED BY <3>6 DEF b, c
  <2>3. ContentsThere(input, Coming, w, buf, Origin', Capacity - s)
    <3>1. Len(w) = n
      BY <1>6
    <3> QED BY <2>1, <2>2, <3>1, Zenon DEF ContentsThere
  <2>4. ASSUME NEW i \in 1 .. EndedElements
        PROVE  w[i] + m(i) + 1 <= Here' /\ buf[w[i] + m(i)] = "0"
    <3> DEFINE a == v[i]
               b == m(i)
               c == w[i]
    <3>1. i \in 1 .. n /\ a \in Nat /\ b \in Nat
      BY <1>3, PointersAre DEF n
    <3>2. c = a - s /\ c \in Nat
      BY <1>6, <3>1
    <3>3. a + b + 1 <= unparsed_start /\ instructionbuf[a + b] = "0"
      <4>1. ContentsEnd(input, Coming, v, EndedElements, instructionbuf, unparsed_start)
        BY <1>3 DEF ParserInv, InvElements
      <4> QED BY <4>1, Zenon DEF ContentsEnd
    <3> HIDE DEF a, b, c
    <3>4. c + b + 1 <= Here' /\ c + b \in 0 .. Capacity - s - 1 /\ (c + b) + s = a + b
      BY <1>4, <1>8, <3>1, <3>2, <3>3
    <3>5. c + b + 1 <= Here' /\ buf[c + b] = "0"
      <4>1. buf[c + b] = instructionbuf[(c + b) + s]
        BY <1>7, <3>4, Zenon
      <4> QED BY <3>3, <3>4, <4>1
    <3> QED BY <3>5 DEF b, c
  <2>5. ContentsEnd(input, Coming, w, EndedElements, buf, Here')
    BY <2>4, Zenon DEF ContentsEnd
  <2> QED BY <2>3, <2>5
<1>14. InvRest'
  BY <1>2, <1>3, <1>8 DEF ParserInv, InvRest
<1>15. InvStuck'
  <2>1. at = "fill" /\ at' = "fill" /\ arrived' = arrived /\ input' = input
    BY <1>1, <1>2
  <2> QED BY <1>3, <1>8, <2>1 DEF ParserInv, InvStuck
<1>16. InvRefused' /\ InvShifted'
  <2>1. at' = "fill" /\ failure' = "none" /\ shifted' = <<>>
    BY <1>1, <1>2, <1>3
  <2> QED BY <2>1 DEF InvRefused, InvShifted
<1>17. InvDelivered'
  BY <1>2, Zenon DEF ParserInv, InvDelivered
<1> QED BY <1>9, <1>10, <1>11, <1>12, <1>13, <1>14, <1>15, <1>16, <1>17 DEF ParserInv

LEMMA ReceiveKeeps ==
  ASSUME ParserInv, Receive PROVE ParserInv'
<1> DEFINE v == __elementv
           B == BytesOf(input)
           e == unparsed_end
           buf(n) == [p \in 0 .. (Capacity - 1) |->
                        IF p \in e .. (e + n - 1) THEN B[arrived + (p - e) + 1]
                                                  ELSE instructionbuf[p]]
<1>1. PICK n \in 1 .. (Capacity - e) :
        /\ arrived + n <= Len(B) /\ instructionbuf' = buf(n)
        /\ unparsed_end' = e + n /\ arrived' = arrived + n
  BY BytesAre DEF Receive
<1> DEFINE fresh == buf(n)
<1>2. at = "fill" /\ at' = "append" /\ e < Capacity
  BY DEF Receive
<1>3. UNCHANGED <<input, state, __element_length, __elementv, instr_start, unparsed_start,
                  pos, parsed_length, delivered, shifted, failure>>
  BY DEF Receive, parserVars, localVars, outVars
<1>4. /\ Busy /\ Here = unparsed_start /\ state \in {"LENGTH", "CONTENT"}
      /\ shifted = <<>> /\ failure = "none"
  BY <1>2 DEF Busy, Parsing, Here, InAppend, ParserInv, InvModes
<1>5. /\ e \in Nat /\ unparsed_start \in Nat /\ Capacity \in Nat /\ Origin \in Nat
      /\ unparsed_start <= e /\ arrived = Origin + e /\ arrived \in Nat
      /\ n \in Nat /\ n >= 1 /\ e + n <= Capacity /\ arrived + n <= Len(B) /\ Len(B) \in Nat
  BY <1>1, <1>2, Basics DEF ParserInv, InvTypes
<1>6. instructionbuf \in [0 .. Capacity - 1 -> Symbols \cup {"0"}]
  BY DEF ParserInv, InvTypes
<1>7. ASSUME NEW p \in e .. e + n - 1
      PROVE  /\ p \in 0 .. Capacity - 1 /\ p \in e .. (e + n - 1)
             /\ arrived + (p - e) + 1 = Origin + p + 1 /\ Origin + p + 1 \in 1 .. Len(B)
  <2> HIDE DEF B
  <2> QED BY <1>5
<1>8. /\ fresh \in [0 .. Capacity - 1 -> Symbols \cup {"0"}]
      /\ \A p \in e .. e + n - 1 : fresh[p] = B[Origin + p + 1]
      /\ \A p \in 0 .. e - 1 : fresh[p] = instructionbuf[p]
  <2>1. ASSUME NEW p \in e .. e + n - 1 PROVE B[arrived + (p - e) + 1] \in Symbols
    <3>1. B \in Seq(Symbols) /\ arrived + (p - e) + 1 \in 1 .. Len(B)
      BY <1>7, Basics
    <3> HIDE DEF B
    <3> QED BY <3>1, SequenceIs
  <2>2. ASSUME NEW p \in 0 .. e - 1
        PROVE  p \in 0 .. Capacity - 1 /\ ~(p \in e .. (e + n - 1))
    BY <1>5
  <2> DEFINE b(p) == B[arrived + (p - e) + 1]
  <2> HIDE DEF b
  <2>3. ASSUME NEW p \in 0 .. Capacity - 1
        PROVE  (IF p \in e .. (e + n - 1) THEN B[arrived + (p - e) + 1]
                                          ELSE instructionbuf[p]) \in Symbols \cup {"0"}
    <3>1. CASE p \in e .. (e + n - 1)
      BY <2>1, <3>1
    <3>2. CASE ~(p \in e .. (e + n - 1))
      BY <1>6, <3>2
    <3> QED BY <3>1, <3>2
  <2>4. fresh \in [0 .. Capacity - 1 -> Symbols \cup {"0"}]
    <3> HIDE DEF B
    <3> QED BY <2>3
  <2>5. ASSUME NEW p \in e .. e + n - 1 PROVE fresh[p] = B[Origin + p + 1]
    <3>1. p \in 0 .. Capacity - 1 /\ p \in e .. (e + n - 1)
          /\ arrived + (p - e) + 1 = Origin + p + 1
      BY <1>7
    <3>2. fresh[p] = B[arrived + (p - e) + 1]
      <4> HIDE DEF B
      <4> QED BY <3>1
    <3> QED BY <3>1, <3>2
  <2>6. ASSUME NEW p \in 0 .. e - 1 PROVE fresh[p] = instructionbuf[p]
    <3> HIDE DEF B
    <3> QED BY <2>2
  <2> QED BY <2>4, <2>5, <2>6
<1> HIDE DEF buf, fresh
<1>9. /\ Origin' = Origin /\ Coming' = Coming /\ Here' = Here
      /\ Remaining' = Remaining /\ EndedElements' = EndedElements
      /\ instructionbuf' = fresh
  <2>1. Origin' = (arrived + n) - (e + n)
    BY <1>1 DEF Origin
  <2>2. Origin' = Origin
    BY <1>5, <2>1
  <2> QED BY <1>1, <1>2, <1>3, <2>2
      DEF Coming, Here, InAppend, Remaining, EndedElements, fresh
<1>10. InvTypes'
  <2>1. /\ unparsed_end' \in Nat /\ unparsed_start' <= unparsed_end'
        /\ unparsed_end' <= Capacity /\ unparsed_end' <= arrived'
        /\ arrived' \in Nat /\ arrived' <= Len(BytesOf(input'))
    <3> DEFINE b == Len(B)
    <3>1. arrived' = arrived + n /\ unparsed_end' = e + n /\ unparsed_start' = unparsed_start
          /\ Len(BytesOf(input')) = b /\ arrived + n <= b
      BY <1>1, <1>3
    <3> HIDE DEF b
    <3> QED BY <1>5, <3>1
  <2>2. \A i \in 1 .. Len(__elementv') : __elementv'[i] \in instr_start' .. unparsed_end'
    <3>1. \A i \in 1 .. Len(v) : v[i] \in instr_start .. e
      BY DEF ParserInv, InvTypes
    <3>2. \A x \in instr_start .. e : x \in instr_start .. e + n
      BY <1>5
    <3>3. unparsed_end' = e + n
      BY <1>1
    <3> QED BY <1>3, <3>1, <3>2, <3>3
  <2> QED BY <1>2, <1>3, <1>8, <1>9, <2>1, <2>2 DEF ParserInv, InvTypes
<1>11. InvModes'
  <2>1. unparsed_start' <= Here' /\ Here' <= unparsed_end'
    <3>1. unparsed_end' = e + n /\ Here' = unparsed_start /\ unparsed_start' = unparsed_start
      BY <1>1, <1>3, <1>4, <1>9
    <3> QED BY <1>5, <3>1
  <2>2. at' = "append" /\ state' \in {"LENGTH", "CONTENT"} /\ shifted' = <<>> /\ failure' = "none"
    BY <1>2, <1>3, <1>4
  <2> QED BY <2>1, <2>2 DEF InvModes
<1>12. InvBytes'
  <2>1. BytesThere(input, instructionbuf, Origin, unparsed_start, e)
    BY <1>4 DEF ParserInv, InvBytes
  <2>2. ASSUME NEW p \in unparsed_start .. (e + n) - 1
        PROVE  fresh[p] = B[Origin + p + 1]
    <3>1. p \in e .. e + n - 1 \/ (p \in unparsed_start .. e - 1 /\ p \in 0 .. e - 1)
      BY <1>5
    <3>2. p \in unparsed_start .. e - 1 => instructionbuf[p] = B[Origin + p + 1]
      BY <2>1, Zenon DEF BytesThere
    <3> QED BY <1>8, <3>1, <3>2
  <2>3. BytesThere(input, fresh, Origin, unparsed_start, e + n)
    BY <2>2, Zenon DEF BytesThere
  <2> QED BY <1>1, <1>3, <1>4, <1>9, <2>3 DEF InvBytes
<1>13. InvPlace'
  BY <1>3, <1>4, <1>9 DEF ParserInv, InvPlace
<1>14. InvElements'
  <2> SUFFICES ASSUME Coming <= Len(input.instructions)
      PROVE  /\ ContentsThere(input, Coming, v, fresh, Origin, e + n)
             /\ ContentsEnd(input, Coming, v, EndedElements, fresh, unparsed_start)
    BY <1>1, <1>3, <1>4, <1>9 DEF InvElements
  <2> DEFINE F(i) == FlattenSeq(input.instructions[Coming][i])
             m(i) == Len(F(i))
  <2>1. ContentsThere(input, Coming, v, instructionbuf, Origin, e)
    BY <1>4 DEF ParserInv, InvElements
  <2>2. ASSUME NEW i \in 1 .. Len(v), NEW x \in 1 .. m(i), v[i] + x - 1 < e + n
        PROVE  fresh[v[i] + x - 1] = F(i)[x]
    <3> DEFINE a == v[i]
               b == m(i)
               l == Len(Number(Len(input.instructions[Coming][i])))
               o == Begin(input, Coming, i)
    <3>1. a \in Nat /\ b \in Nat /\ a + Origin = After(input, Coming, i, 0)
          /\ ElementLies(input, Coming, i)
      BY <1>4, PointersAre
    <3>2. /\ After(input, Coming, i, 0) = o + l + 1 /\ o \in Nat /\ l \in Nat \ {0}
          /\ B[o + l + 1 + x] = F(i)[x]
      BY <3>1, Zenon DEF ElementLies
    <3>3. x \in 1 .. b
      OBVIOUS
    <3>4. a + Origin = o + l + 1
      BY <3>1, <3>2
    <3>5. a + x - 1 < e + n
      BY <2>2
    <3>6. a + x - 1 < e => instructionbuf[a + x - 1] = F(i)[x]
      BY <2>1, Zenon DEF ContentsThere
    <3> HIDE DEF a, b, l, o, F
    <3>7. \/ a + x - 1 < e /\ a + x - 1 \in 0 .. e - 1
          \/ a + x - 1 \in e .. e + n - 1 /\ Origin + (a + x - 1) + 1 = o + l + 1 + x
      BY <1>5, <3>1, <3>2, <3>3, <3>4, <3>5
    <3>8. fresh[a + x - 1] = F(i)[x]
      <4>1. CASE a + x - 1 < e /\ a + x - 1 \in 0 .. e - 1
        BY <1>8, <3>6, <4>1
      <4>2. CASE a + x - 1 \in e .. e + n - 1 /\ Origin + (a + x - 1) + 1 = o + l + 1 + x
        <5>1. fresh[a + x - 1] = B[Origin + (a + x - 1) + 1]
          BY <1>8, <4>2, Zenon
        <5> QED BY <3>2, <4>2, <5>1
      <4> QED BY <3>7, <4>1, <4>2
    <3> QED BY <3>8 DEF a, F
  <2>3. ContentsThere(input, Coming, v, fresh, Origin, e + n)
    BY <2>1, <2>2, Zenon DEF ContentsThere
  <2>4. ASSUME NEW i \in 1 .. EndedElements
        PROVE  v[i] + m(i) + 1 <= unparsed_start /\ fresh[v[i] + m(i)] = "0"
    <3> DEFINE a == v[i]
               b == m(i)
    <3>1. a \in Nat /\ b \in Nat
      BY <1>4, PointersAre
    <3>2. a + b + 1 <= unparsed_start /\ instructionbuf[a + b] = "0"
      <4>1. ContentsEnd(input, Coming, v, EndedElements, instructionbuf, unparsed_start)
        BY <1>4 DEF ParserInv, InvElements
      <4> QED BY <4>1, Zenon DEF ContentsEnd
    <3> HIDE DEF a, b
    <3>3. a + b \in 0 .. e - 1
      BY <1>5, <3>1, <3>2
    <3>4. a + b + 1 <= unparsed_start /\ fresh[a + b] = "0"
      BY <1>8, <3>2, <3>3
    <3> QED BY <3>4 DEF a, b
  <2>5. ContentsEnd(input, Coming, v, EndedElements, fresh, unparsed_start)
    BY <2>4, Zenon DEF ContentsEnd
  <2> QED BY <2>3, <2>5
<1>15. InvRest'
  BY <1>3, <1>4, <1>9 DEF ParserInv, InvRest
<1>16. InvStuck' /\ InvRefused' /\ InvShifted'
  <2>1. at' = "append" /\ failure' = "none" /\ shifted' = <<>>
    BY <1>2, <1>3, <1>4
  <2> QED BY <2>1 DEF InvStuck, InvRefused, InvShifted
<1>17. InvDelivered'
  BY <1>3, Zenon DEF ParserInv, InvDelivered
<1> QED BY <1>10, <1>11, <1>12, <1>13, <1>14, <1>15, <1>16, <1>17 DEF ParserInv

LEMMA InitKeeps ==
  ASSUME InitParser PROVE ParserInv
<1>1. /\ at = "idle" /\ state = "LENGTH" /\ __elementv = <<>> /\ shifted = <<>>
      /\ delivered = <<>> /\ arrived = 0 /\ unparsed_start = 0 /\ unparsed_end = 0
      /\ failure = "none" /\ instr_start = 0 /\ __element_length = 0 /\ input \in Inputs
      /\ pos = 0 /\ parsed_length = 0
      /\ instructionbuf = [p \in 0 .. (Capacity - 1) |-> "0"]
  BY DEF InitParser
<1>2. IsInput(input)
  BY <1>1, InputIs
<1>3. Len(BytesOf(input)) \in Nat /\ Start(input, 1) = 0 /\ Len(input.instructions) \in Nat
  <2>1. Len(BytesOf(input)) \in Nat /\ Start(input, 1) = 0
    BY <1>2, InstructionsAre, Zenon
  <2> QED BY <1>2, <2>1 DEF IsInput
<1>4. Coming = 1 /\ Origin = 0 /\ Here = 0 /\ ~Busy
  BY <1>1 DEF Coming, Origin, Here, InAppend, Busy, Parsing
<1>5. InvTypes
  <2>1. __elementv \in Seq(Nat) /\ Len(__elementv) = 0
    BY <1>1
  <2>2. instructionbuf \in [0 .. Capacity - 1 -> Symbols \cup {"0"}]
    BY <1>1
  <2>3. arrived <= Len(BytesOf(input))
    BY <1>1, <1>3
  <2> QED BY <1>1, <2>1, <2>2, <2>3, SizeAssumption DEF InvTypes
<1>6. InvModes /\ InvPlace /\ InvElements /\ InvRest /\ InvStuck /\ InvRefused
  BY <1>1, <1>4 DEF InvModes, InvPlace, InvElements, InvRest, InvStuck, InvRefused
<1>7. InvBytes
  <2>1. \A p \in Here .. unparsed_end - 1 : FALSE
    BY <1>1, <1>4
  <2> QED BY <2>1 DEF InvBytes, BytesThere
<1>8. InvDelivered
  <2>1. delivered \in Seq(Seq(Seq(Symbols))) /\ Len(delivered) = 0
    BY <1>1
  <2> QED BY <1>3, <2>1 DEF InvDelivered
<1>9. InvShifted
  <2>1. shifted \in Seq(Symbols \cup {"0"}) /\ Len(shifted) = 0
    BY <1>1
  <2> QED BY <1>1, <1>3, <1>4, <2>1 DEF InvShifted
<1> QED BY <1>5, <1>6, <1>7, <1>8, <1>9 DEF ParserInv

LEMMA StutterKeeps ==
  ASSUME ParserInv, UNCHANGED allVars PROVE ParserInv'
<1>1. UNCHANGED <<input, arrived, state, __element_length, __elementv, instructionbuf,
                  instr_start, unparsed_start, unparsed_end, at, pos, parsed_length,
                  delivered, shifted, failure>>
  BY DEF allVars, parserVars, bufferVars, localVars, outVars
<1>2. /\ Busy' = Busy /\ Here' = Here /\ Remaining' = Remaining /\ Origin' = Origin
      /\ Coming' = Coming /\ EndedElements' = EndedElements
  BY <1>1 DEF Busy, Parsing, Here, InAppend, Remaining, Origin, Coming, EndedElements
<1>3. InvTypes' /\ InvModes'
  BY <1>1, <1>2 DEF ParserInv, InvTypes, InvModes
<1>4. InvBytes' /\ InvPlace' /\ InvElements' /\ InvRest'
  BY <1>1, <1>2 DEF ParserInv, InvBytes, InvPlace, InvElements, InvRest
<1>5. InvStuck' /\ InvRefused'
  BY <1>1, <1>2 DEF ParserInv, InvStuck, InvRefused
<1>6. InvDelivered' /\ InvShifted'
  BY <1>1, <1>2 DEF ParserInv, InvDelivered, InvShifted
<1> QED BY <1>3, <1>4, <1>5, <1>6 DEF ParserInv

LEMMA ParserInvariant == SpecParser => []ParserInv
<1>1. InitParser => ParserInv
  BY InitKeeps
<1>2. ASSUME ParserInv, [NextParser]_allVars PROVE ParserInv'
  BY <1>2, StutterKeeps, ReadKeeps, TimeoutKeeps, ShiftKeeps, TooManyElementsKeeps, ResumeKeeps,
     LengthDigitKeeps, LengthPeriodKeeps, LengthOtherKeeps, LengthOutKeeps, LengthEndKeeps,
     ContentCharacterKeeps, ContentTerminatorKeeps, ContentOutKeeps, ParsedKeeps,
     ParseErrorKeeps, NeedMoreKeeps, ShiftBufferKeeps, NoMemoryKeeps, ReceiveKeeps, ClosedKeeps,
     Zenon
  DEF NextParser, Step
<1>3. ParserInv /\ [NextParser]_allVars => ParserInv'
  BY <1>2
<1> QED BY <1>1, <1>3, PTL DEF SpecParser

LEMMA PrefixIs ==
  ASSUME NEW S, NEW s \in Seq(S), NEW t \in Seq(S), Len(s) <= Len(t),
         \A x \in 1 .. Len(s) : s[x] = t[x]
  PROVE  IsPrefix(s, t)
<1>1. SubSeq(s, 1, Len(s)) = SubSeq(t, 1, Len(s))
  OBVIOUS
<1> QED BY <1>1 DEF IsPrefix

\* What is written of an instruction is what a receiver expects.
LEMMA MeantIs ==
  ASSUME IsInput(input)
  PROVE  /\ Meant \in Seq(Seq(Seq(Symbols))) /\ Len(Meant) = Len(input.instructions)
         /\ \A k \in 1 .. Len(input.instructions) : Meant[k] = MeantOf(input, k)
<1> DEFINE n == Len(input.instructions)
           S == Seq(Symbols)
           f(k) == MeantOf(input, k)
<1>1. n \in Nat
  BY DEF IsInput
<1>2. ASSUME NEW k \in 1 .. n PROVE f(k) \in Seq(S)
  <2> DEFINE m == Len(input.instructions[k])
             g(i) == FlattenSeq(input.instructions[k][i])
  <2>1. m \in Nat /\ \A i \in 1 .. m : IsElement(input.instructions[k][i])
    BY DEF IsInput, IsInstruction
  <2>2. \A i \in 1 .. m : g(i) \in S
    BY <2>1, FlattenIs, Zenon DEF IsElement
  <2>3. f(k) = [i \in 1 .. m |-> g(i)]
    BY DEF MeantOf
  <2> HIDE DEF m, g, S, f
  <2> QED BY <2>1, <2>2, <2>3
<1>3. Meant = [k \in 1 .. n |-> f(k)]
  BY DEF Meant, MeantOf
<1> HIDE DEF n, S, f
<1>4. Meant \in Seq(Seq(S)) /\ Len(Meant) = n /\ \A k \in 1 .. n : Meant[k] = f(k)
  BY <1>1, <1>2, <1>3
<1> QED BY <1>4 DEF n, S, f

\* guac_parser_read returns the instructions that were sent, in order, with the
\* contents of their elements, and nothing else: in whatever pieces the bytes come,
\* wherever guac_parser_append is cut, and although the instruction is moved in the
\* buffer under the pointers to its elements, which never leave what was read.
THEOREM InstructionsAreKept == SpecParser => []InstructionsKept
<1>1. ASSUME ParserInv PROVE ParserTypeOK
  <2>1. arrived \in 0 .. Len(Bytes)
    <3>1. arrived \in Nat /\ arrived <= Len(BytesOf(input))
      BY <1>1 DEF ParserInv, InvTypes
    <3>2. Len(BytesOf(input)) \in Nat
      BY <1>1, Basics
    <3> QED BY <3>1, <3>2, BytesAre
  <2> QED BY <1>1, <2>1 DEF ParserTypeOK, ParserInv, InvTypes
<1>2. ASSUME ParserInv PROVE IsPrefix(delivered, Meant)
  <2>1. IsInput(input)
    BY <1>2, Basics
  <2>2. /\ delivered \in Seq(Seq(Seq(Symbols))) /\ Len(delivered) <= Len(input.instructions)
        /\ \A k \in 1 .. Len(delivered) : delivered[k] = MeantOf(input, k)
    BY <1>2 DEF ParserInv, InvDelivered
  <2>3. /\ Meant \in Seq(Seq(Seq(Symbols))) /\ Len(Meant) = Len(input.instructions)
        /\ \A k \in 1 .. Len(input.instructions) : Meant[k] = MeantOf(input, k)
    BY <2>1, MeantIs
  <2>4. \A k \in 1 .. Len(delivered) : k \in 1 .. Len(input.instructions)
    <3>1. Len(delivered) \in Nat /\ Len(input.instructions) \in Nat
      BY <2>1, <2>2, SequenceIs, Zenon DEF IsInput
    <3> QED BY <2>2, <3>1
  <2>5. \A k \in 1 .. Len(delivered) : delivered[k] = Meant[k]
    BY <2>2, <2>3, <2>4, Zenon
  <2>6. Len(delivered) <= Len(Meant)
    BY <2>2, <2>3
  <2> QED BY <2>2, <2>3, <2>5, <2>6, PrefixIs, Zenon
<1>3. ParserInv => InstructionsKept
  BY <1>1, <1>2 DEF InstructionsKept
<1> QED BY <1>3, ParserInvariant, PTL

\* Unless it waited too long, guac_parser_read fails only if there is no next
\* instruction or if that is too big: in its elements, in one of them, or for the
\* buffer. In particular the buffer is never full of bytes that could be dropped.
THEOREM RefusalsHaveCause == SpecParser => []RefusedForCause
<1>1. ASSUME ParserInv PROVE RefusedForCause
  <2>1. Coming - 1 = Len(delivered) /\ Coming = Len(delivered) + 1
        /\ Len(input.instructions) \in Nat /\ Coming \in Nat
    BY <1>1, Basics DEF Coming
  <2>2. failure \in {"parse", "memory", "closed"} => NoneToTake(input, Coming)
    BY <1>1 DEF ParserInv, InvRefused
  <2>3. Coming = Len(input.instructions) + 1 => Len(delivered) = Len(input.instructions)
    BY <2>1
  <2> QED BY <2>1, <2>2, <2>3 DEF NoneToTake, RefusedForCause
<1>2. ParserInv => RefusedForCause
  BY <1>1
<1> QED BY <1>2, ParserInvariant, PTL

\* The bytes that guac_parser_shift hands over, in any number of calls, follow the
\* last instruction that was returned in what was sent: none is lost or repeated.
THEOREM HandedOverFollows == SpecParser => []HandedOverInOrder
<1>1. ASSUME ParserInv PROVE HandedOverInOrder
  <2> DEFINE before == FlattenSeq([k \in 1 .. Len(delivered) |-> Instruction(input.instructions[k])])
             n == Len(input.instructions)
             c == Len(delivered)
             B == BytesOf(input)
             s == Start(input, Coming)
             S == Symbols \cup {"0"}
  <2> SUFFICES ASSUME shifted # <<>> PROVE IsPrefix(before \o shifted, Bytes)
    BY DEF HandedOverInOrder
  <2>1. IsInput(input) /\ n \in Nat /\ c \in 0 .. n /\ Coming = c + 1
    <3>1. IsInput(input) /\ n \in Nat /\ c = Coming - 1 /\ Coming \in Nat /\ 1 <= Coming
          /\ Coming <= n + 1
      BY <1>1, Basics
    <3> HIDE DEF c, n
    <3> QED BY <3>1
  <2>2. before = FlattenSeq(SubSeq(Instructions(input), 1, c))
    <3> DEFINE W(k) == Instruction(input.instructions[k])
    <3>1. Instructions(input) = [k \in 1 .. n |-> W(k)]
      BY DEF Instructions
    <3> HIDE DEF W, c, n
    <3>2. SubSeq([k \in 1 .. n |-> W(k)], 1, c) = [k \in 1 .. c |-> W(k)]
      BY <2>1
    <3> QED BY <3>1, <3>2 DEF W, c
  <2>3. /\ before \in Seq(Symbols) /\ Len(before) = s /\ s \in Nat
        /\ \A x \in 1 .. s : before[x] = B[x]
    BY <2>1, <2>2, InstructionsAre, Zenon
  <2>4. B \in Seq(Symbols) /\ Len(B) \in Nat /\ s <= Len(B)
    BY <1>1, Basics
  <2>5. shifted \in Seq(S) /\ \A x \in 1 .. Len(shifted) :
                                s + x <= Len(B) /\ shifted[x] = B[s + x]
    BY <1>1, Zenon DEF ParserInv, InvShifted
  <2>6. before \in Seq(S) /\ B \in Seq(S)
    <3>1. ASSUME NEW t \in Seq(Symbols) PROVE t \in Seq(S)
      BY SequenceIs, SequenceOf
    <3> HIDE DEF before, B, S
    <3> QED BY <2>3, <2>4, <3>1
  <2> HIDE DEF before, B, S, s
  <2> DEFINE all == before \o shifted
             l == Len(shifted)
  <2>7. /\ all \in Seq(S) /\ Len(all) = s + l
        /\ \A x \in 1 .. s : all[x] = before[x]
        /\ \A x \in s + 1 .. s + l : all[x] = shifted[x - s]
    BY <2>3, <2>5, <2>6, JoinedAre
  <2>8. l \in Nat /\ l # 0
    BY <2>5
  <2> HIDE DEF all, l
  <2>9. Len(all) <= Len(B)
    <3>1. l \in 1 .. Len(shifted)
      BY <2>8 DEF l
    <3>2. s + l <= Len(B)
      BY <2>5, <3>1
    <3> QED BY <2>7, <3>2
  <2>10. ASSUME NEW x \in 1 .. Len(all) PROVE all[x] = B[x]
    <3>1. CASE x <= s
      <4>1. x \in 1 .. s
        BY <2>3, <3>1
      <4> QED BY <2>3, <2>7, <4>1
    <3>2. CASE ~(x <= s)
      <4>1. x \in s + 1 .. s + l /\ x - s \in 1 .. l /\ s + (x - s) = x
        BY <2>3, <2>7, <2>8, <3>2
      <4>2. shifted[x - s] = B[s + (x - s)]
        BY <2>5, <4>1 DEF l
      <4> QED BY <2>7, <4>1, <4>2
    <3> QED BY <3>1, <3>2
  <2>11. IsPrefix(all, B)
    BY <2>6, <2>7, <2>9, <2>10, PrefixIs, Zenon
  <2> QED BY <2>11, BytesAre DEF all, B
<1>2. ParserInv => HandedOverInOrder
  BY <1>1
<1> QED BY <1>2, ParserInvariant, PTL

=============================================================================

------------------------- MODULE ClientProcessProofs --------------------------
(***************************************************************************)
(* The client process for any number of users and any configuration: what  *)
(* the threads of the users do to the shared vector leaves at most one     *)
(* owner, and every parameter is taken for what it was sent as.            *)
(***************************************************************************)
EXTENDS ClientProcess, SequenceTheorems, FiniteSetTheorems, TLAPS

\* The places and elements of a list.
LEMMA ListProperties ==
  ASSUME NEW S, NEW s \in Seq(S)
  PROVE  \A i \in DOMAIN s : i \in Nat /\ s[i] \in S
  OBVIOUS

\* What RemoveAt leaves: erase, of an element that need not be the first.
LEMMA RemoveAtKeeps ==
  ASSUME NEW S, NEW s \in Seq(S), NEW k \in 1..Len(s)
  PROVE  /\ RemoveAt(s, k) \in Seq(S) /\ Len(RemoveAt(s, k)) = Len(s) - 1
         /\ k > 1 => RemoveAt(s, k)[1] = s[1]
<1> DEFINE a == SubSeq(s, 1, k - 1)
           b == SubSeq(s, k + 1, Len(s))
<1>1. k \in Nat /\ Len(s) \in Nat /\ 1 <= k /\ k <= Len(s)
  OBVIOUS
<1>2. a \in Seq(S) /\ Len(a) = k - 1 /\ \A i \in 1..k - 1 : a[i] = s[i]
  BY <1>1
<1>3. b \in Seq(S) /\ Len(b) = Len(s) - k
  BY <1>1
<1>4. RemoveAt(s, k) = a \o b
  BY DEF RemoveAt
<1> HIDE DEF a, b
<1>5. a \o b \in Seq(S) /\ Len(a \o b) = Len(a) + Len(b)
  BY <1>2, <1>3, ConcatProperties
<1>6. k > 1 => (a \o b)[1] = a[1]
  BY <1>1, <1>2, <1>3
<1> QED BY <1>1, <1>2, <1>3, <1>4, <1>5, <1>6

-----------------------------------------------------------------------------
(* The types.                                                              *)

\* What the service writes before the first command, and the commands.
ParamKinds == {"folder", "NO_LOG", "cut", "protocol", "library", "fps"}
Kinds == ParamKinds \union {"ADD", "REMOVE", "STOP"}
Params == [kind : ParamKinds, user : SUBSET Users]
Messages == [kind : Kinds, user : SUBSET Users]

ServiceTypes ==
  /\ config \in Configs
  /\ toSend \in Seq(Params) /\ Len(toSend) <= 4
  /\ channel \in Seq(Messages) /\ Len(channel) <= ChannelSize
  /\ removed \subseteq gone /\ gone \subseteq added /\ added \subseteq Users

MainTypes ==
  /\ main \in Reading \union {"load", "wait", "push", "abort", "join", "joining", "exit"}
  /\ params \in [Reading -> Kinds \union {"none"}]
  /\ slot \in Nat /\ subject \subseteq Users
  /\ fault \in {"none", "freed user", "moved element", "erased end"}

UserTypes ==
  /\ m_ClientUsers \in Seq(Users)
  /\ user \in [Users -> {"none", "handshake", "start", "io", "stop", "leave", "free",
                         "find", "erase", "done"}]
  /\ ownerFlag \subseteq Users /\ aborted \subseteq Users
  /\ m_bIsRunning \in [Users -> BOOLEAN] /\ place \in [Users -> Nat]

Types == ServiceTypes /\ MainTypes /\ UserTypes

-----------------------------------------------------------------------------
(* The channel.                                                            *)

\* A message more in the channel, and one less.
Longer(m) ==
  /\ channel' \in Seq(Messages) /\ Len(channel') = Len(channel) + 1
  /\ Len(channel') <= ChannelSize
  /\ \A i \in 1..Len(channel) : channel'[i] = channel[i]
  /\ channel'[Len(channel) + 1] = m

Shorter ==
  /\ Len(channel) >= 1 /\ channel[1] \in Messages
  /\ channel' \in Seq(Messages) /\ Len(channel') = Len(channel) - 1
  /\ \A i \in 1..Len(channel) - 1 : channel'[i] = channel[i + 1]

LEMMA Sent ==
  ASSUME Types, NEW m \in Messages, Send(m) PROVE Longer(m)
<1>1. channel \in Seq(Messages) /\ channel' = Append(channel, m)
  BY DEF Types, ServiceTypes, Send
<1>2. Len(channel) < ChannelSize /\ Len(channel) \in Nat
  BY <1>1 DEF Send
<1> QED BY <1>1, <1>2 DEF Longer, ChannelSize

LEMMA Taken ==
  ASSUME Types, channel # <<>>, channel' = Tail(channel)
  PROVE  Shorter /\ Head(channel) = channel[1]
  BY DEF Types, ServiceTypes, Shorter

LEMMA ParamSent ==
  ASSUME Types, SendParam
  PROVE  /\ Len(toSend) >= 1 /\ toSend[1] \in Params /\ Longer(toSend[1])
         /\ toSend' \in Seq(Params) /\ Len(toSend') = Len(toSend) - 1
         /\ \A i \in 1..Len(toSend) - 1 : toSend'[i] = toSend[i + 1]
<1>1. toSend \in Seq(Params) /\ toSend # <<>> /\ toSend' = Tail(toSend)
  BY DEF Types, ServiceTypes, SendParam
<1>2. Len(toSend) >= 1 /\ toSend[1] \in Params /\ Head(toSend) = toSend[1]
  BY <1>1
<1>3. toSend[1] \in Messages
  BY <1>2 DEF Params, Messages, Kinds
<1>4. Longer(toSend[1])
  BY <1>2, <1>3, Sent DEF SendParam
<1> QED BY <1>1, <1>2, <1>4

LEMMA Received ==
  ASSUME Types, NEW k, Receive(k)
  PROVE  /\ Shorter /\ channel[1].kind = k /\ subject' = channel[1].user
         /\ subject' \subseteq Users /\ main = "wait"
         /\ UNCHANGED <<config, toSend, added, gone, removed, params>>
<1>1. Shorter /\ Head(channel) = channel[1]
  BY Taken DEF Receive
<1>2. channel[1].user \subseteq Users
  BY <1>1 DEF Shorter, Messages
<1> QED BY <1>1, <1>2 DEF Receive

LEMMA CommandsSent ==
  ASSUME Types
  PROVE  /\ \A u \in Users : SendAdd(u) => Longer(Command("ADD", u))
         /\ \A u \in Users : SendRemove(u) => Longer(Command("REMOVE", u))
         /\ SendStop => Longer(Stop)
<1>1. Stop \in Messages /\ \A u \in Users : /\ Command("ADD", u) \in Messages
                                           /\ Command("REMOVE", u) \in Messages
  BY DEF Stop, Command, Messages, Kinds
<1> QED BY <1>1, Sent DEF SendAdd, SendRemove, SendStop

-----------------------------------------------------------------------------
(* The vector.                                                             *)

\* u is the first element of the vector.
IsFirst(u) == Len(m_ClientUsers) >= 1 /\ m_ClientUsers[1] = u

LEMMA Pushed ==
  ASSUME Types, PushUser
  PROVE  /\ m_ClientUsers' \in Seq(Users)
         /\ \A u : IsFirst(u) => IsFirst(u)'
         /\ \A u : m_ClientUsers = <<>> /\ subject = {u} => IsFirst(u)'
<1>1. PICK u \in Users : u \in subject /\ m_ClientUsers' = Append(m_ClientUsers, u)
  BY DEF Types, MainTypes, PushUser
<1>2. m_ClientUsers \in Seq(Users)
  BY DEF Types, UserTypes
<1>3. m_ClientUsers' \in Seq(Users) /\ Len(m_ClientUsers') = Len(m_ClientUsers) + 1
  BY <1>1, <1>2
<1>4. Len(m_ClientUsers) >= 1 => m_ClientUsers'[1] = m_ClientUsers[1]
  BY <1>1, <1>2
<1>5. m_ClientUsers = <<>> => m_ClientUsers'[1] = u
  BY <1>1, <1>2
<1> QED BY <1>1, <1>2, <1>3, <1>4, <1>5 DEF IsFirst

LEMMA Erased ==
  ASSUME Types, NEW u \in Users, Erase(u)
  PROVE  /\ m_ClientUsers' \in Seq(Users)
         /\ \A v : IsFirst(v) /\ place[u] # 1 => IsFirst(v)'
<1>1. m_ClientUsers \in Seq(Users) /\ place[u] \in 1..Len(m_ClientUsers)
  BY DEF Types, UserTypes, Erase
<1>2. /\ m_ClientUsers' \in Seq(Users) /\ Len(m_ClientUsers') = Len(m_ClientUsers) - 1
      /\ place[u] > 1 => m_ClientUsers'[1] = m_ClientUsers[1]
  BY <1>1, RemoveAtKeeps DEF Erase
<1> QED BY <1>1, <1>2 DEF IsFirst

-----------------------------------------------------------------------------
(* The owner.                                                              *)

\* An ADD in the channel is for a user that has no thread yet, and for no
\* user there are two: AddUser never starts a second thread for one.
Waits(u) == u \in added /\ user[u] = "none"
IsAdd(i) == channel[i].kind = "ADD"

Started == \A u \in Users : user[u] # "none" => u \in added
Awaited == \A i \in 1..Len(channel) : IsAdd(i) =>
  \E u \in Users : channel[i].user = {u} /\ Waits(u)
OnceEach == \A i, j \in 1..Len(channel) :
  i # j /\ IsAdd(i) /\ IsAdd(j) => channel[i].user # channel[j].user

AddInv == Started /\ Awaited /\ OnceEach

\* A thread that found its user in front erases that one.  Of the other
\* places this cannot be said: the elements behind one that is erased move.
PlaceInv == \A u \in Users : user[u] = "erase" =>
  place[u] >= 1 /\ (place[u] = 1 => IsFirst(u))

\* The owner is in front of all others, or about to be put into a vector that
\* is empty until then.
OwnerInv ==
  /\ \A u \in Users : user[u] = "none" => u \notin ownerFlag
  /\ \A u \in ownerFlag \intersect Existing :
       IsFirst(u) \/ (main = "push" /\ m_ClientUsers = <<>> /\ subject = {u})

-----------------------------------------------------------------------------
(* The parameters.                                                         *)

\* What the service writes for the log.
LogKind(c) == IF c.fileLog THEN "folder" ELSE IF c.size = 6 THEN "NO_LOG" ELSE "cut"

\* The service writes something for the log.
HasLog == \A c \in Configs : c.size # 0

\* Message i of those that are in the channel or not written yet.
Coming(i) == IF i <= Len(channel) THEN channel[i] ELSE toSend[i - Len(channel)]
AreComing(n) == n <= Len(channel) + Len(toSend)

\* The parameters that are not read are on their way, in the order in which
\* they are read.
DueInv ==
  /\ added # {} => toSend = <<>>
  /\ main = "readLog" => /\ AreComing(4)
                         /\ Coming(1).kind = LogKind(config)
                         /\ Coming(2).kind = "protocol"
                         /\ Coming(3).kind = "library"
                         /\ Coming(4).kind = "fps"
  /\ main = "readProtocol" => /\ AreComing(3)
                              /\ Coming(1).kind = "protocol"
                              /\ Coming(2).kind = "library"
                              /\ Coming(3).kind = "fps"
  /\ main = "readLibrary" => /\ AreComing(2)
                             /\ Coming(1).kind = "library"
                             /\ Coming(2).kind = "fps"
  /\ main \in {"load", "readFPS"} => AreComing(1) /\ Coming(1).kind = "fps"

\* Those that are read were taken for what they are.
TakenInv ==
  /\ params.readLog \in {"none", LogKind(config)}
  /\ params.readProtocol \in {"none", "protocol"}
  /\ params.readLibrary \in {"none", "library"}
  /\ params.readFPS \in {"none", "fps"}

IInv == Types /\ AddInv /\ PlaceInv /\ OwnerInv
ParamInv == Types /\ DueInv /\ TakenInv


\* Every step keeps the types of the service and the channel, ...
LEMMA ServiceTypesKept ==
  ASSUME Types, Next
  PROVE  ServiceTypes'
<1> USE DEF Types, ServiceTypes, sendVars, mainVars, userVars
<1>1. ASSUME SendParam PROVE ServiceTypes'
  BY <1>1, ParamSent DEF Longer, SendParam, Send
<1>2. ASSUME SendStop PROVE ServiceTypes'
  BY <1>2, CommandsSent DEF Longer, SendStop, Send
<1>3. ASSUME ReadParam PROVE ServiceTypes'
  BY <1>3, Taken DEF Shorter, ChannelSize, ReadParam, After
<1>4. ASSUME AddUser PROVE ServiceTypes'
  BY <1>4, Received DEF Shorter, ChannelSize, AddUser
<1>5. ASSUME FindUser PROVE ServiceTypes'
  BY <1>5, Received DEF Shorter, ChannelSize, FindUser
<1>6. ASSUME StopProcess PROVE ServiceTypes'
  BY <1>6, Received DEF Shorter, ChannelSize, StopProcess
<1>7. ASSUME NEW u \in Users, SendAdd(u) PROVE ServiceTypes'
  BY <1>7, CommandsSent DEF Longer, SendAdd, Send
<1>8. ASSUME NEW u \in Users, ClientGoes(u) PROVE ServiceTypes'
  BY <1>8 DEF ClientGoes
<1>9. ASSUME NEW u \in Users, SendRemove(u) PROVE ServiceTypes'
  BY <1>9, CommandsSent DEF Longer, SendRemove, Send
<1>10. ASSUME LoadPlugin \/ LoadFails \/ ReadTimeout \/ PushUser \/
             AbortUser \/ JoinUser
      PROVE  UNCHANGED <<config, toSend, channel, added, gone, removed>>
  BY <1>10 DEF LoadPlugin, LoadFails, ReadTimeout, PushUser, AbortUser,
     JoinUser
<1>11. ASSUME Joined \/ UsesFreed \/ UsesMoved
      PROVE  UNCHANGED <<config, toSend, channel, added, gone, removed>>
  BY <1>11 DEF Joined, UsesFreed, UsesMoved
<1>12. ASSUME NEW u \in Users, Handshake(u) \/ StartIO(u) \/ EndIO(u) \/
             StopUser(u) \/ LeaveClient(u) \/ FreeUser(u) \/ FindItself(u)
      PROVE  UNCHANGED <<config, toSend, channel, added, gone, removed>>
  BY <1>12 DEF Handshake, UserGoto, StartIO, EndIO, StopUser, LeaveClient, FreeUser,
     FindItself
<1>13. ASSUME NEW u \in Users, Erase(u) \/ ErasesEnd(u)
      PROVE  UNCHANGED <<config, toSend, channel, added, gone, removed>>
  BY <1>13 DEF Erase, UserGoto, ErasesEnd
<1>14. UNCHANGED <<config, toSend, channel, added, gone, removed>> => ServiceTypes'
  OBVIOUS
<1> QED
  BY <1>1, <1>2, <1>3, <1>4, <1>5, <1>6, <1>7, <1>8, <1>9, <1>10, <1>11,
     <1>12, <1>13, <1>14 DEF Next, Service, Main, User

\* ... those of the main thread, ...
LEMMA MainTypesKept ==
  ASSUME Types, Next
  PROVE  MainTypes'
<1> USE DEF Types, MainTypes, Reading, sendVars, mainVars, userVars
<1>1. ASSUME ReadParam PROVE MainTypes'
  BY <1>1, Taken DEF Shorter, Messages, ReadParam, After
<1>2. ASSUME LoadPlugin PROVE MainTypes'
  BY <1>2 DEF LoadPlugin
<1>3. ASSUME LoadFails PROVE MainTypes'
  BY <1>3 DEF LoadFails
<1>4. ASSUME ReadTimeout PROVE MainTypes'
  BY <1>4 DEF ReadTimeout
<1>5. ASSUME AddUser PROVE MainTypes'
  BY <1>5, Received DEF AddUser
<1>6. ASSUME PushUser PROVE MainTypes'
  BY <1>6 DEF PushUser
<1>7. ASSUME FindUser PROVE MainTypes'
  <2>1. subject' \subseteq Users /\ UNCHANGED <<params, fault>>
    BY <1>7, Received DEF FindUser
  <2>2. main' \in {"wait", "abort"} /\ slot' \in Nat
    <3>1. \A i \in DOMAIN m_ClientUsers : i \in Nat
      BY ListProperties DEF UserTypes
    <3> QED BY <1>7, <3>1 DEF FindUser
  <2> QED BY <2>1, <2>2
<1>8. ASSUME AbortUser PROVE MainTypes'
  BY <1>8 DEF AbortUser
<1>9. ASSUME JoinUser PROVE MainTypes'
  <2>1. m_ClientUsers[slot] \in Users
    <3>1. slot \in DOMAIN m_ClientUsers /\ m_ClientUsers \in Seq(Users)
      BY <1>9 DEF UserTypes, JoinUser, Refers
    <3> QED BY <3>1, ListProperties
  <2> QED BY <1>9, <2>1 DEF JoinUser
<1>10. ASSUME Joined PROVE MainTypes'
  BY <1>10 DEF Joined
<1>11. ASSUME StopProcess PROVE MainTypes'
  BY <1>11, Received DEF StopProcess
<1>12. ASSUME UsesFreed PROVE MainTypes'
  BY <1>12 DEF UsesFreed
<1>13. ASSUME UsesMoved PROVE MainTypes'
  BY <1>13 DEF UsesMoved
<1>14. ASSUME NEW u \in Users, ErasesEnd(u) PROVE MainTypes'
  BY <1>14 DEF ErasesEnd
<1>15. ASSUME SendParam \/ SendStop
      PROVE  UNCHANGED <<main, params, slot, subject, fault>>
  BY <1>15 DEF SendParam, Send, SendStop
<1>16. ASSUME NEW u \in Users, SendAdd(u) \/ ClientGoes(u) \/ SendRemove(u) \/
             Handshake(u) \/ StartIO(u) \/ EndIO(u)
      PROVE  UNCHANGED <<main, params, slot, subject, fault>>
  BY <1>16 DEF SendAdd, Send, ClientGoes, SendRemove, Handshake, UserGoto,
     StartIO, EndIO
<1>17. ASSUME NEW u \in Users, StopUser(u) \/ LeaveClient(u) \/ FreeUser(u) \/ FindItself(u) \/
             Erase(u)
      PROVE  UNCHANGED <<main, params, slot, subject, fault>>
  BY <1>17 DEF StopUser, LeaveClient, UserGoto, FreeUser, FindItself, Erase
<1>18. UNCHANGED <<main, params, slot, subject, fault>> => MainTypes'
  OBVIOUS
<1> QED
  BY <1>1, <1>2, <1>3, <1>4, <1>5, <1>6, <1>7, <1>8, <1>9, <1>10, <1>11,
     <1>12, <1>13, <1>14, <1>15, <1>16, <1>17, <1>18 DEF Next, Service, Main,
     User

\* ... and those of the users.
LEMMA UserTypesKept ==
  ASSUME Types, Next
  PROVE  UserTypes'
<1> USE DEF Types, UserTypes, sendVars, mainVars, userVars
<1>1. ASSUME AddUser PROVE UserTypes'
  BY <1>1, Received DEF AddUser
<1>2. ASSUME PushUser PROVE UserTypes'
  BY <1>2, Pushed DEF PushUser
<1>3. ASSUME AbortUser PROVE UserTypes'
  BY <1>3 DEF Refers, AbortUser
<1>4. ASSUME NEW u \in Users, Handshake(u) PROVE UserTypes'
  BY <1>4 DEF Handshake, UserGoto
<1>5. ASSUME NEW u \in Users, StartIO(u) PROVE UserTypes'
  BY <1>5 DEF StartIO, UserGoto
<1>6. ASSUME NEW u \in Users, EndIO(u) PROVE UserTypes'
  BY <1>6 DEF EndIO, UserGoto
<1>7. ASSUME NEW u \in Users, StopUser(u) \/ LeaveClient(u) PROVE UserTypes'
  BY <1>7 DEF StopUser, LeaveClient, UserGoto
<1>8. ASSUME NEW u \in Users, FreeUser(u) PROVE UserTypes'
  BY <1>8 DEF FreeUser, UserGoto
<1>9. ASSUME NEW u \in Users, FindItself(u) PROVE UserTypes'
  <2>1. UNCHANGED <<m_ClientUsers, ownerFlag, aborted, m_bIsRunning>>
    BY <1>9 DEF FindItself
  <2>2. user' = [user EXCEPT ![u] = "done"] \/ user' = [user EXCEPT ![u] = "erase"]
    BY <1>9 DEF FindItself, UserGoto
  <2>3. place' = place \/ \E i \in DOMAIN m_ClientUsers : place' = [place EXCEPT ![u] = i]
    BY <1>9 DEF FindItself
  <2>4. \A i \in DOMAIN m_ClientUsers : i \in Nat
    BY ListProperties
  <2>5. place' \in [Users -> Nat]
    BY <2>3, <2>4
  <2> QED BY <2>1, <2>2, <2>5
<1>10. ASSUME NEW u \in Users, Erase(u) PROVE UserTypes'
  BY <1>10, Erased DEF Erase, UserGoto
<1>11. ASSUME SendParam \/ SendStop \/ ReadParam \/ LoadPlugin \/ LoadFails \/
             ReadTimeout
      PROVE  UNCHANGED <<m_ClientUsers, user, ownerFlag, aborted, m_bIsRunning, place>>
  BY <1>11 DEF SendParam, Send, SendStop, ReadParam, After, LoadPlugin,
     LoadFails, ReadTimeout
<1>12. ASSUME FindUser \/ JoinUser \/ Joined \/ StopProcess \/ UsesFreed \/
             UsesMoved
      PROVE  UNCHANGED <<m_ClientUsers, user, ownerFlag, aborted, m_bIsRunning, place>>
  BY <1>12 DEF FindUser, Receive, JoinUser, Joined, StopProcess, UsesFreed,
     UsesMoved
<1>13. ASSUME NEW u \in Users, SendAdd(u) \/ ClientGoes(u) \/ SendRemove(u) \/
             ErasesEnd(u)
      PROVE  UNCHANGED <<m_ClientUsers, user, ownerFlag, aborted, m_bIsRunning, place>>
  BY <1>13 DEF SendAdd, Send, ClientGoes, SendRemove, ErasesEnd
<1>14. UNCHANGED <<m_ClientUsers, user, ownerFlag, aborted, m_bIsRunning, place>> => UserTypes'
  OBVIOUS
<1> QED
  BY <1>1, <1>2, <1>3, <1>4, <1>5, <1>6, <1>7, <1>8, <1>9, <1>10, <1>11,
     <1>12, <1>13, <1>14 DEF Next, Service, Main, User

\* Threads that exist or not stay so.
LEMMA AddBeside ==
  ASSUME AddInv, UNCHANGED <<channel, added>>,
         \A u \in Users : user'[u] = "none" <=> user[u] = "none"
  PROVE  AddInv'
  BY DEF AddInv, Started, Awaited, OnceEach, Waits, IsAdd

\* Another message than ADD.
LEMMA AddLonger ==
  ASSUME Types, AddInv, UNCHANGED <<user, added>>,
         NEW m, Longer(m), m.kind # "ADD"
  PROVE  AddInv'
<1> channel \in Seq(Messages)
  BY DEF Types, ServiceTypes
<1>1. Started'
  BY DEF AddInv, Started
<1>2. \A i \in 1..Len(channel)' : IsAdd(i)' =>
        i \in 1..Len(channel) /\ IsAdd(i) /\ channel'[i] = channel[i]
  BY DEF Longer, IsAdd
<1>3. Awaited'
  BY <1>2 DEF AddInv, Awaited, Waits
<1>4. OnceEach'
  BY <1>2 DEF AddInv, OnceEach
<1> QED BY <1>1, <1>3, <1>4 DEF AddInv

\* The first message is read, and perhaps the thread of a user started.
LEMMA AddShorter ==
  ASSUME Types, AddInv, Shorter, UNCHANGED added,
         \/ UNCHANGED user
         \/ /\ IsAdd(1)
            /\ \E l : \E u \in channel[1].user : l # "none" /\ user' = [user EXCEPT ![u] = l]
  PROVE  AddInv'
<1> channel \in Seq(Messages)
  BY DEF Types, ServiceTypes
<1>1. \A u \in Users : user'[u] # user[u] =>
         IsAdd(1) /\ channel[1].user = {u} /\ Waits(u)
  <2>1. ASSUME IsAdd(1), NEW l, NEW u \in channel[1].user,
               user' = [user EXCEPT ![u] = l], NEW v \in Users, user'[v] # user[v]
        PROVE  channel[1].user = {v} /\ Waits(v)
    <3>1. v = u
      BY <2>1 DEF Types, UserTypes
    <3>2. PICK w \in Users : channel[1].user = {w} /\ Waits(w)
      BY <2>1 DEF AddInv, Awaited, Shorter
    <3> QED BY <2>1, <3>1, <3>2
  <2> QED BY <2>1
<1>2. Started'
  BY <1>1 DEF AddInv, Started, Waits
<1>3. \A i \in 1..Len(channel)' : IsAdd(i)' =>
        i + 1 \in 1..Len(channel) /\ IsAdd(i + 1) /\ channel'[i] = channel[i + 1]
  BY DEF Shorter, IsAdd
<1>4. Awaited'
  <2> SUFFICES ASSUME NEW i \in 1..Len(channel)', IsAdd(i)'
               PROVE  \E u \in Users : channel'[i].user = {u} /\ Waits(u)'
    BY DEF Awaited
  <2>1. i + 1 \in 1..Len(channel) /\ IsAdd(i + 1) /\ channel'[i] = channel[i + 1]
    BY <1>3
  <2>2. PICK u \in Users : channel[i + 1].user = {u} /\ Waits(u)
    BY <2>1 DEF AddInv, Awaited
  <2>3. IsAdd(1) => channel[1].user # {u}
    <3>1. 1 \in 1..Len(channel) /\ i + 1 # 1
      BY <2>1
    <3> QED BY <2>1, <2>2, <3>1 DEF AddInv, OnceEach
  <2> QED BY <1>1, <2>1, <2>2, <2>3 DEF Waits
<1>5. OnceEach'
  BY <1>3 DEF AddInv, OnceEach
<1> QED BY <1>2, <1>4, <1>5 DEF AddInv

\* An ADD is sent for a user that has none in the channel and no thread.
LEMMA AddSent ==
  ASSUME Types, AddInv, NEW u \in Users, SendAdd(u)
  PROVE  AddInv'
<1>1. /\ Longer(Command("ADD", u)) /\ u \notin added /\ added' = added \union {u}
      /\ user' = user
  BY CommandsSent DEF SendAdd, userVars
<1>2. channel \in Seq(Messages) /\ Len(channel) \in Nat
  BY DEF Types, ServiceTypes
<1> DEFINE n == Len(channel) + 1
<1>3. Len(channel') = n /\ channel'[n].user = {u} /\ channel'[n].kind = "ADD"
  BY <1>1, <1>2 DEF Longer, Command
<1>4. \A i \in 1..n : i # n => i \in 1..Len(channel) /\ channel'[i] = channel[i]
  BY <1>1, <1>2 DEF Longer
<1>5. user[u] = "none"
  BY <1>1 DEF AddInv, Started
<1>6. Started'
  BY <1>1 DEF AddInv, Started
<1>7. Awaited'
  BY <1>1, <1>3, <1>4, <1>5 DEF AddInv, Awaited, Waits, IsAdd
<1>8. \A i \in 1..n : i # n /\ IsAdd(i)' => channel'[i].user # {u}
  BY <1>1, <1>4 DEF AddInv, Awaited, Waits, IsAdd
<1>9. OnceEach'
  BY <1>3, <1>4, <1>8 DEF AddInv, OnceEach, IsAdd
<1> QED BY <1>6, <1>7, <1>9 DEF AddInv

\* A user is added once, and the thread of it is started once.
LEMMA AddKept ==
  ASSUME Types, AddInv, Next
  PROVE  AddInv'
<1> USE DEF Longer, sendVars, mainVars, userVars
<1>1. ASSUME SendParam PROVE AddInv'
  <2>1. toSend[1].kind # "ADD"
    BY <1>1, ParamSent DEF Params, ParamKinds
  <2> QED BY <1>1, <2>1, ParamSent, AddLonger DEF SendParam
<1>2. ASSUME SendStop PROVE AddInv'
  BY <1>2, CommandsSent, AddLonger DEF SendStop, Stop
<1>3. ASSUME ReadParam PROVE AddInv'
  BY <1>3, Taken, AddShorter DEF ReadParam
<1>4. ASSUME AddUser PROVE AddInv'
  <2>1. Shorter /\ IsAdd(1) /\ subject' = channel[1].user /\ UNCHANGED added
    BY <1>4, Received DEF AddUser, IsAdd
  <2>2. \E u \in channel[1].user : user' = [user EXCEPT ![u] = "handshake"]
    BY <1>4, <2>1 DEF AddUser
  <2> QED BY <2>1, <2>2, AddShorter
<1>5. ASSUME FindUser PROVE AddInv'
  BY <1>5, Received, AddShorter DEF FindUser
<1>6. ASSUME StopProcess PROVE AddInv'
  BY <1>6, Received, AddShorter DEF StopProcess
<1>7. ASSUME NEW u \in Users, SendAdd(u) PROVE AddInv'
  BY <1>7, AddSent
<1>8. ASSUME NEW u \in Users, SendRemove(u) PROVE AddInv'
  BY <1>8, CommandsSent, AddLonger DEF SendRemove, Command
<1>9. ASSUME NEW u \in Users, Handshake(u) PROVE AddInv'
  BY <1>9, AddBeside DEF Types, UserTypes, Handshake, UserGoto
<1>10. ASSUME NEW u \in Users, StartIO(u) PROVE AddInv'
  BY <1>10, AddBeside DEF Types, UserTypes, StartIO, UserGoto
<1>11. ASSUME NEW u \in Users, EndIO(u) PROVE AddInv'
  BY <1>11, AddBeside DEF Types, UserTypes, EndIO, UserGoto
<1>12. ASSUME NEW u \in Users, StopUser(u) \/ LeaveClient(u) PROVE AddInv'
  BY <1>12, AddBeside DEF Types, UserTypes, StopUser, LeaveClient, UserGoto
<1>13. ASSUME NEW u \in Users, FreeUser(u) PROVE AddInv'
  BY <1>13, AddBeside DEF Types, UserTypes, FreeUser, UserGoto
<1>14. ASSUME NEW u \in Users, FindItself(u) PROVE AddInv'
  BY <1>14, AddBeside DEF Types, UserTypes, FindItself, UserGoto
<1>15. ASSUME NEW u \in Users, Erase(u) PROVE AddInv'
  BY <1>15, AddBeside DEF Types, UserTypes, Erase, UserGoto
<1>16. ASSUME LoadPlugin \/ LoadFails \/ ReadTimeout \/ PushUser \/
             AbortUser \/ JoinUser
      PROVE  UNCHANGED <<channel, added, user>>
  BY <1>16 DEF LoadPlugin, LoadFails, ReadTimeout, PushUser, AbortUser,
     JoinUser
<1>17. ASSUME Joined \/ UsesFreed \/ UsesMoved
      PROVE  UNCHANGED <<channel, added, user>>
  BY <1>17 DEF Joined, UsesFreed, UsesMoved
<1>18. ASSUME NEW u \in Users, ClientGoes(u) \/ ErasesEnd(u)
      PROVE  UNCHANGED <<channel, added, user>>
  BY <1>18 DEF ClientGoes, ErasesEnd
<1>19. UNCHANGED <<channel, added, user>> => AddInv'
  BY DEF AddInv, Started, Awaited, OnceEach, Waits, IsAdd
<1> QED
  BY <1>1, <1>2, <1>3, <1>4, <1>5, <1>6, <1>7, <1>8, <1>9, <1>10, <1>11,
     <1>12, <1>13, <1>14, <1>15, <1>16, <1>17, <1>18, <1>19 DEF Next, Service,
     Main, User

\* An erasure at the first place is that of the thread's own user, so it never
\* changes what another one found there.
LEMMA PlaceKept ==
  ASSUME Types, AddInv, PlaceInv, Next
  PROVE  PlaceInv'
<1> USE DEF Types, UserTypes, PlaceInv, sendVars, mainVars, userVars
<1>1. ASSUME AddUser PROVE PlaceInv'
  BY <1>1 DEF IsFirst, AddUser, Receive
<1>2. ASSUME PushUser PROVE PlaceInv'
  BY <1>2, Pushed DEF PushUser
<1>3. ASSUME NEW u \in Users, Handshake(u) PROVE PlaceInv'
  BY <1>3 DEF IsFirst, Handshake, UserGoto
<1>4. ASSUME NEW u \in Users, StartIO(u) PROVE PlaceInv'
  BY <1>4 DEF IsFirst, StartIO, UserGoto
<1>5. ASSUME NEW u \in Users, EndIO(u) PROVE PlaceInv'
  BY <1>5 DEF IsFirst, EndIO, UserGoto
<1>6. ASSUME NEW u \in Users, StopUser(u) \/ LeaveClient(u) PROVE PlaceInv'
  BY <1>6 DEF IsFirst, StopUser, LeaveClient, UserGoto
<1>7. ASSUME NEW u \in Users, FreeUser(u) PROVE PlaceInv'
  BY <1>7 DEF IsFirst, FreeUser, UserGoto
<1>8. ASSUME NEW u \in Users, FindItself(u) PROVE PlaceInv'
  <2>1. ASSUME NEW i \in DOMAIN m_ClientUsers, m_ClientUsers[i] = u,
               place' = [place EXCEPT ![u] = i], UserGoto(u, "erase"),
               UNCHANGED m_ClientUsers
        PROVE  PlaceInv'
    <3>1. i >= 1 /\ (i = 1 => IsFirst(u))
      BY <2>1 DEF IsFirst
    <3> QED BY <2>1, <3>1 DEF UserGoto, IsFirst
  <2>2. ASSUME UserGoto(u, "done"), UNCHANGED <<place, m_ClientUsers>>
        PROVE  PlaceInv'
    BY <2>2 DEF UserGoto, IsFirst
  <2> QED BY <1>8, <2>1, <2>2 DEF FindItself
<1>9. ASSUME NEW u \in Users, Erase(u) PROVE PlaceInv'
  <2>1. \A v \in Users : user'[v] = "erase" => v # u /\ user[v] = "erase"
    BY <1>9 DEF Erase, UserGoto
  <2>2. \A v \in Users : user'[v] = "erase" /\ place[v] = 1 => place[u] # 1
    BY <1>9, <2>1 DEF Erase, IsFirst
  <2> QED BY <1>9, <2>1, <2>2, Erased DEF Erase
<1>10. ASSUME SendParam \/ SendStop \/ ReadParam \/ LoadPlugin \/ LoadFails \/
             ReadTimeout
      PROVE  UNCHANGED <<m_ClientUsers, user, place>>
  BY <1>10 DEF SendParam, Send, SendStop, ReadParam, After, LoadPlugin,
     LoadFails, ReadTimeout
<1>11. ASSUME FindUser \/ AbortUser \/ JoinUser \/ Joined \/ StopProcess \/
             UsesFreed
      PROVE  UNCHANGED <<m_ClientUsers, user, place>>
  BY <1>11 DEF FindUser, Receive, AbortUser, JoinUser, Joined, StopProcess,
     UsesFreed
<1>12. ASSUME UsesMoved
      PROVE  UNCHANGED <<m_ClientUsers, user, place>>
  BY <1>12 DEF UsesMoved
<1>13. ASSUME NEW u \in Users, SendAdd(u) \/ ClientGoes(u) \/ SendRemove(u) \/
             ErasesEnd(u)
      PROVE  UNCHANGED <<m_ClientUsers, user, place>>
  BY <1>13 DEF SendAdd, Send, ClientGoes, SendRemove, ErasesEnd
<1>14. UNCHANGED <<m_ClientUsers, user, place>> => PlaceInv'
  BY DEF IsFirst
<1> QED
  BY <1>1, <1>2, <1>3, <1>4, <1>5, <1>6, <1>7, <1>8, <1>9, <1>10, <1>11,
     <1>12, <1>13, <1>14 DEF Next, Service, Main, User

\* Nobody becomes an owner while there is one, and nobody erases it.
LEMMA OwnerKept ==
  ASSUME Types, AddInv, PlaceInv, OwnerInv, Next
  PROVE  OwnerInv'
<1> USE DEF Types, UserTypes, OwnerInv, sendVars, mainVars, userVars
<1>1. ASSUME ReadParam PROVE OwnerInv'
  BY <1>1 DEF Reading, IsFirst, Existing, ReadParam, After
<1>2. ASSUME LoadPlugin PROVE OwnerInv'
  BY <1>2 DEF IsFirst, Existing, LoadPlugin
<1>3. ASSUME LoadFails PROVE OwnerInv'
  BY <1>3 DEF IsFirst, Existing, LoadFails
<1>4. ASSUME ReadTimeout PROVE OwnerInv'
  BY <1>4 DEF Reading, IsFirst, Existing, ReadTimeout
<1>5. ASSUME AddUser PROVE OwnerInv'
  <2>1. /\ Shorter /\ IsAdd(1) /\ subject' = channel[1].user /\ main = "wait"
        /\ main' = "push" /\ UNCHANGED m_ClientUsers
    BY <1>5, Received DEF AddUser, IsAdd
  <2>2. PICK v \in Users : channel[1].user = {v} /\ user[v] = "none"
    BY <2>1 DEF AddInv, Awaited, Waits, Shorter
  <2>3. /\ user' = [user EXCEPT ![v] = "handshake"] /\ v \notin ownerFlag
        /\ ownerFlag' = IF m_ClientUsers = <<>> THEN ownerFlag \union {v}
                        ELSE ownerFlag
    BY <1>5, <2>1, <2>2 DEF AddUser, IsOwner
  <2>4. \A u \in ownerFlag \intersect Existing : IsFirst(u)
    BY <2>1
  <2>5. (ownerFlag \intersect Existing)' \subseteq
          (ownerFlag \intersect Existing) \union
          (IF m_ClientUsers = <<>> THEN {v} ELSE {})
    BY <2>2, <2>3 DEF Existing
  <2>6. \A u \in Users : user'[u] = "none" => u \notin ownerFlag'
    BY <2>2, <2>3
  <2> QED BY <2>1, <2>2, <2>4, <2>5, <2>6 DEF IsFirst
<1>6. ASSUME PushUser PROVE OwnerInv'
  <2>1. UNCHANGED <<user, ownerFlag, subject>>
    BY <1>6 DEF PushUser
  <2> QED BY <1>6, <2>1, Pushed DEF Existing
<1>7. ASSUME FindUser PROVE OwnerInv'
  BY <1>7 DEF Receive, IsFirst, Existing, FindUser, Receive
<1>8. ASSUME AbortUser PROVE OwnerInv'
  BY <1>8 DEF IsFirst, Existing, AbortUser
<1>9. ASSUME JoinUser PROVE OwnerInv'
  BY <1>9 DEF IsFirst, Existing, JoinUser
<1>10. ASSUME Joined PROVE OwnerInv'
  BY <1>10 DEF IsFirst, Existing, Joined
<1>11. ASSUME StopProcess PROVE OwnerInv'
  BY <1>11 DEF Receive, IsFirst, Existing, StopProcess, Receive
<1>12. ASSUME NEW u \in Users, Handshake(u) PROVE OwnerInv'
  BY <1>12 DEF IsFirst, Existing, Handshake, UserGoto
<1>13. ASSUME NEW u \in Users, StartIO(u) PROVE OwnerInv'
  BY <1>13 DEF IsFirst, Existing, StartIO, UserGoto
<1>14. ASSUME NEW u \in Users, EndIO(u) PROVE OwnerInv'
  BY <1>14 DEF IsFirst, Existing, EndIO, UserGoto
<1>15. ASSUME NEW u \in Users, StopUser(u) \/ LeaveClient(u) PROVE OwnerInv'
  BY <1>15 DEF IsFirst, Existing, StopUser, LeaveClient, UserGoto
<1>16. ASSUME NEW u \in Users, FreeUser(u) PROVE OwnerInv'
  BY <1>16 DEF IsFirst, Existing, FreeUser, UserGoto
<1>17. ASSUME NEW u \in Users, FindItself(u) PROVE OwnerInv'
  BY <1>17 DEF IsFirst, Existing, FindItself, UserGoto
<1>18. ASSUME NEW u \in Users, Erase(u) PROVE OwnerInv'
  <2>1. /\ user[u] = "erase" /\ user' = [user EXCEPT ![u] = "done"]
        /\ place[u] \in DOMAIN m_ClientUsers
        /\ UNCHANGED <<ownerFlag, main, subject>>
    BY <1>18 DEF Erase, UserGoto, mainVars
  <2>2. \A v \in Existing : IsFirst(v) => place[u] # 1
    BY <2>1 DEF Existing, PlaceInv, IsFirst
  <2>3. m_ClientUsers # <<>>
    BY <2>1
  <2>4. Existing' \subseteq Existing
    BY <2>1 DEF Existing
  <2> QED BY <1>18, <2>1, <2>2, <2>3, <2>4, Erased
<1>19. ASSUME SendParam \/ SendStop \/ UsesFreed \/ UsesMoved
      PROVE  UNCHANGED <<m_ClientUsers, user, ownerFlag, main, subject>>
  BY <1>19 DEF SendParam, Send, SendStop, UsesFreed, UsesMoved
<1>20. ASSUME NEW u \in Users, SendAdd(u) \/ ClientGoes(u) \/ SendRemove(u) \/
             ErasesEnd(u)
      PROVE  UNCHANGED <<m_ClientUsers, user, ownerFlag, main, subject>>
  BY <1>20 DEF SendAdd, Send, ClientGoes, SendRemove, ErasesEnd
<1>21. UNCHANGED <<m_ClientUsers, user, ownerFlag, main, subject>> => OwnerInv'
  BY DEF IsFirst, Existing
<1> QED
  BY <1>1, <1>2, <1>3, <1>4, <1>5, <1>6, <1>7, <1>8, <1>9, <1>10, <1>11,
     <1>12, <1>13, <1>14, <1>15, <1>16, <1>17, <1>18, <1>19, <1>20, <1>21 DEF
     Next, Service, Main, User

\* The parameters stay in order, whatever is written behind them.
LEMMA DueKept ==
  ASSUME Types, DueInv, Next
  PROVE  DueInv'
<1> USE DEF Types, ServiceTypes, DueInv, Coming, AreComing, sendVars,
   mainVars, userVars
<1>1. ASSUME SendParam PROVE DueInv'
  BY <1>1, ParamSent DEF Longer, SendParam, Send
<1>2. ASSUME SendStop PROVE DueInv'
  BY <1>2, CommandsSent DEF Longer, SendStop, Send
<1>3. ASSUME ReadParam PROVE DueInv'
  BY <1>3, Taken DEF Shorter, Reading, ReadParam, After
<1>4. ASSUME LoadPlugin PROVE DueInv'
  BY <1>4 DEF LoadPlugin
<1>5. ASSUME LoadFails PROVE DueInv'
  BY <1>5 DEF LoadFails
<1>6. ASSUME ReadTimeout PROVE DueInv'
  BY <1>6 DEF ReadTimeout
<1>7. ASSUME AddUser PROVE DueInv'
  BY <1>7 DEF AddUser, Receive
<1>8. ASSUME PushUser PROVE DueInv'
  BY <1>8 DEF PushUser
<1>9. ASSUME FindUser PROVE DueInv'
  BY <1>9 DEF FindUser, Receive
<1>10. ASSUME AbortUser PROVE DueInv'
  BY <1>10 DEF AbortUser
<1>11. ASSUME JoinUser PROVE DueInv'
  BY <1>11 DEF JoinUser
<1>12. ASSUME Joined PROVE DueInv'
  BY <1>12 DEF Joined
<1>13. ASSUME StopProcess PROVE DueInv'
  BY <1>13 DEF StopProcess, Receive
<1>14. ASSUME NEW u \in Users, SendAdd(u) PROVE DueInv'
  BY <1>14, CommandsSent DEF Longer, SendAdd, Send
<1>15. ASSUME NEW u \in Users, SendRemove(u) PROVE DueInv'
  BY <1>15, CommandsSent DEF Longer, SendRemove, Send
<1>16. ASSUME UsesFreed \/ UsesMoved
      PROVE  UNCHANGED <<config, channel, toSend, main, added>>
  BY <1>16 DEF UsesFreed, UsesMoved
<1>17. ASSUME NEW u \in Users, ClientGoes(u) \/ Handshake(u) \/ StartIO(u) \/
             EndIO(u) \/ StopUser(u) \/ LeaveClient(u) \/ FreeUser(u)
      PROVE  UNCHANGED <<config, channel, toSend, main, added>>
  BY <1>17 DEF ClientGoes, Handshake, UserGoto, StartIO, EndIO, StopUser, LeaveClient,
     FreeUser
<1>18. ASSUME NEW u \in Users, FindItself(u) \/ Erase(u) \/ ErasesEnd(u)
      PROVE  UNCHANGED <<config, channel, toSend, main, added>>
  BY <1>18 DEF FindItself, UserGoto, Erase, ErasesEnd
<1>19. UNCHANGED <<config, channel, toSend, main, added>> => DueInv'
  OBVIOUS
<1> QED
  BY <1>1, <1>2, <1>3, <1>4, <1>5, <1>6, <1>7, <1>8, <1>9, <1>10, <1>11,
     <1>12, <1>13, <1>14, <1>15, <1>16, <1>17, <1>18, <1>19 DEF Next, Service,
     Main, User

\* A parameter is taken from the front, where the one that is due is.
LEMMA TakenKept ==
  ASSUME Types, DueInv, TakenInv, Next
  PROVE  TakenInv'
<1> USE DEF Types, TakenInv, sendVars, mainVars, userVars
<1>1. ASSUME ReadParam PROVE TakenInv'
  BY <1>1, Taken DEF MainTypes, DueInv, Coming, AreComing, Shorter, Reading,
     ReadParam, After
<1>2. ASSUME SendParam \/ SendStop \/ LoadPlugin \/ LoadFails \/
             ReadTimeout \/ AddUser
      PROVE  UNCHANGED <<config, params>>
  BY <1>2 DEF SendParam, Send, SendStop, LoadPlugin, LoadFails, ReadTimeout,
     AddUser, Receive
<1>3. ASSUME PushUser \/ FindUser \/ AbortUser \/ JoinUser \/ Joined \/
             StopProcess
      PROVE  UNCHANGED <<config, params>>
  BY <1>3 DEF PushUser, FindUser, Receive, AbortUser, JoinUser, Joined,
     StopProcess
<1>4. ASSUME UsesFreed \/ UsesMoved
      PROVE  UNCHANGED <<config, params>>
  BY <1>4 DEF UsesFreed, UsesMoved
<1>5. ASSUME NEW u \in Users, SendAdd(u) \/ ClientGoes(u) \/ SendRemove(u) \/
             Handshake(u) \/ StartIO(u) \/ EndIO(u)
      PROVE  UNCHANGED <<config, params>>
  BY <1>5 DEF SendAdd, Send, ClientGoes, SendRemove, Handshake, UserGoto,
     StartIO, EndIO
<1>6. ASSUME NEW u \in Users, StopUser(u) \/ LeaveClient(u) \/ FreeUser(u) \/ FindItself(u) \/
             Erase(u) \/ ErasesEnd(u)
      PROVE  UNCHANGED <<config, params>>
  BY <1>6 DEF StopUser, LeaveClient, UserGoto, FreeUser, FindItself, Erase, ErasesEnd
<1>7. UNCHANGED <<config, params>> => TakenInv'
  OBVIOUS
<1> QED
  BY <1>1, <1>2, <1>3, <1>4, <1>5, <1>6, <1>7 DEF Next, Service, Main, User


\* The initial states.
LEMMA TypesAtFirst == Init => Types
<1> SUFFICES ASSUME Init PROVE Types
  OBVIOUS
<1> DEFINE rest == <<Param("protocol"), Param("library"), Param("fps")>>
<1>1. LogParam(config) \in Seq(Params) /\ Len(LogParam(config)) <= 1
  <2>1. \A k \in ParamKinds : Param(k) \in Params
    BY DEF Param, Params
  <2> QED BY <2>1 DEF LogParam, ParamKinds
<1>2. rest \in Seq(Params) /\ Len(rest) = 3
  BY DEF Param, Params, ParamKinds
<1>3. toSend = LogParam(config) \o rest
  BY DEF Init
<1> HIDE DEF rest
<1>4. /\ LogParam(config) \o rest \in Seq(Params)
      /\ Len(LogParam(config) \o rest) = Len(LogParam(config)) + 3
  <2>1. LogParam(config) \o rest \in Seq(Params)
    BY <1>1, <1>2, ConcatProperties
  <2>2. Len(LogParam(config) \o rest) = Len(LogParam(config)) + Len(rest)
    BY <1>1, <1>2, ConcatProperties
  <2> QED BY <1>2, <2>1, <2>2
<1>5. toSend \in Seq(Params) /\ Len(toSend) <= 4
  BY <1>1, <1>3, <1>4
<1> QED BY <1>5 DEF Init, Types, ServiceTypes, MainTypes, UserTypes, ChannelSize,
     Reading, Kinds, ParamKinds, Messages

\* Every state of the client process satisfies it.
THEOREM OwnerInvariance == Spec => []IInv
<1>1. Init => IInv
  BY TypesAtFirst DEF Init, IInv, AddInv, Started, Awaited, OnceEach, PlaceInv,
     OwnerInv, Existing
<1>2. IInv /\ [Next]_vars => IInv'
  <2> SUFFICES ASSUME IInv, [Next]_vars PROVE IInv'
    OBVIOUS
  <2>1. CASE Next
    BY <2>1, ServiceTypesKept, MainTypesKept, UserTypesKept, AddKept, PlaceKept,
       OwnerKept DEF IInv, Types
  <2>2. CASE UNCHANGED vars
    <3> USE <2>2 DEF vars, sendVars, mainVars, userVars
    <3>1. Types'
      BY DEF IInv, Types, ServiceTypes, MainTypes, UserTypes
    <3>2. AddInv'
      BY AddBeside DEF IInv
    <3>3. PlaceInv' /\ OwnerInv'
      BY DEF IInv, PlaceInv, OwnerInv, IsFirst, Existing
    <3> QED BY <3>1, <3>2, <3>3 DEF IInv
  <2> QED BY <2>1, <2>2
<1> QED BY <1>1, <1>2, PTL DEF Spec

\* AddUser makes a user the owner if the vector is empty.  The first element is
\* erased only by its own thread, so no owner that exists is overlooked.
THEOREM AlwaysOneOwner == Spec => []OneOwner
<1>1. IInv => OneOwner
  <2> SUFFICES ASSUME IInv PROVE OneOwner
    OBVIOUS
  <2> DEFINE Owners == ownerFlag \intersect Existing
  <2>1. TypeOK
    BY DEF IInv, Types, ServiceTypes, MainTypes, UserTypes, TypeOK
  <2>2. \A u, v \in Owners : u = v
    BY DEF IInv, OwnerInv, IsFirst
  <2>3. CASE Owners = {}
    BY <2>1, <2>3, FS_EmptySet DEF OneOwner
  <2>4. CASE Owners # {}
    <3>1. PICK u \in Owners : TRUE
      BY <2>4
    <3>2. Owners = {u}
      BY <2>2, <3>1
    <3> QED BY <2>1, <3>2, FS_Singleton DEF OneOwner
  <2> QED BY <2>3, <2>4
<1> QED BY <1>1, OwnerInvariance, PTL

\* If something is written for the log, whatever it is, every parameter is
\* taken for what it was sent as.
THEOREM ParamInvariance == ASSUME HasLog PROVE Spec => []ParamInv
<1>1. Init => ParamInv
  <2> SUFFICES ASSUME Init PROVE ParamInv
    OBVIOUS
  <2>1. /\ Len(toSend) = 4 /\ toSend[1].kind = LogKind(config)
        /\ toSend[2].kind = "protocol" /\ toSend[3].kind = "library"
        /\ toSend[4].kind = "fps"
    <3>1. LogParam(config) = <<Param(LogKind(config))>>
      BY DEF Init, HasLog, LogParam, LogKind
    <3> QED BY <3>1 DEF Init, Param
  <2> QED BY <2>1, TypesAtFirst DEF Init, ParamInv, DueInv, TakenInv, Coming,
       AreComing, Reading, Param
<1>2. ParamInv /\ [Next]_vars => ParamInv'
  <2> SUFFICES ASSUME ParamInv, [Next]_vars PROVE ParamInv'
    OBVIOUS
  <2>1. CASE Next
    BY <2>1, ServiceTypesKept, MainTypesKept, UserTypesKept, DueKept, TakenKept
       DEF ParamInv, Types
  <2>2. CASE UNCHANGED vars
    <3> USE <2>2 DEF vars, sendVars, mainVars, userVars
    <3>1. Types'
      BY DEF ParamInv, Types, ServiceTypes, MainTypes, UserTypes
    <3>2. DueInv' /\ TakenInv'
      BY DEF ParamInv, DueInv, TakenInv, Coming, AreComing
    <3> QED BY <3>1, <3>2 DEF ParamInv
  <2> QED BY <2>1, <2>2
<1> QED BY <1>1, <1>2, PTL DEF Spec

\* With a file log in a folder that has a name, or none and a folder whose name
\* is as long as "NO_LOG", all four are what StartClientProcess expects.
THEOREM AlwaysParamsInPlace ==
  ASSUME \A c \in Configs : c.size # 0 /\ (c.fileLog \/ c.size = 6)
  PROVE  Spec => []ParamsInPlace
<1>1. HasLog
  BY DEF HasLog
<1>2. ParamInv => ParamsInPlace
  BY ConfigsAssumption DEF ParamInv, Types, ServiceTypes, TakenInv, LogKind,
     ParamsInPlace
<1> QED BY <1>1, <1>2, ParamInvariance, PTL
=============================================================================

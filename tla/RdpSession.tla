----------------------------- MODULE RdpSession ------------------------------
(***************************************************************************)
(* The client thread of the RDP plugin (guac_rdp_client_thread): one       *)
(* session after another, each with a FreeRDP instance, a keyboard and a   *)
(* display of its own, until the client stops.  The threads of users call  *)
(* the handlers meanwhile: keys (Keyboard), mouse, a new size, which can   *)
(* ask for a new session, and the display when a user joins.  What the     *)
(* client thread does under rdp_lock with nobody able to look on is one    *)
(* step; a frame that is drawn changes nothing here, but what is written   *)
(* to a client that is gone is never written.                              *)
(***************************************************************************)
EXTENDS Keyboard

CONSTANTS
  NoSize,
  Sizes,      \* pairs of a width and a height that are asked for, any ints
  IntMax,     \* INT_MAX
  Resolution, \* settings->resolution
  FirstSize,  \* settings->width and height as the owner gave them
  MinSize,    \* GUAC_RDP_DISP_MIN_SIZE
  MaxSize,    \* GUAC_RDP_DISP_MAX_SIZE
  Buttons,
  Plans,      \* bound: what users do in a behaviour, the keys and buttons
              \* they press, the sizes and how many of them they ask for, and
              \* with which settings->resize_method and optimal_resolution
  MaxSessions \* bound: sessions

ASSUME SessionAssumption ==
  /\ MaxSessions \in Nat
  /\ MinSize \in Nat \ {0} /\ MaxSize \in Nat /\ MinSize <= MaxSize
  /\ MinSize % 2 = 0 /\ MaxSize % 2 = 0
  /\ Sizes \subseteq Int \X Int /\ NoSize \notin Int \X Int
  /\ IntMax \in Nat /\ MaxSize * MaxSize <= IntMax /\ Resolution \in Int
  /\ \A p \in Plans :
       /\ p.keys \subseteq Keys /\ p.sizes \subseteq Sizes
       /\ p.buttons \subseteq Buttons /\ p.resizes \in Nat
       /\ p.method \in {"none", "reconnect", "update"} /\ p.optimal \in Int

VARIABLES
  thread,     \* where the client thread is
  running,    \* client->state is GUAC_CLIENT_RUNNING
  session,    \* the number of the current or last session
  instLive,   \* its FreeRDP instance is not freed
  display,    \* rdp_client->display: "null", "live" or "freed"
  size,       \* the size of the session
  settings,   \* settings->width and height
  requested,  \* disp->requested_width and height
  reconnect,  \* disp->reconnect_needed
  layout,     \* the size the server was sent and has yet to take, if any
  resizing,   \* the size a user is asking for, NoSize if none
  inst,       \* the instance its handler has read
  mouseMask,  \* rdp_client->mouse_button_mask
  remoteButtons,
  blocked,    \* a write to a client that is gone waits for ever
  calling,    \* the users whose threads may still call a handler
  plan,       \* the plan of this behaviour
  \* history
  resizes,    \* requests of a size
  asked,      \* the size that the last request was for
  late,       \* the last request need not be met
  strayed     \* a handler used something freed although it had the lock

sizeVars == <<size, settings, requested, reconnect, layout, resizing, inst, plan,
              resizes, asked, late>>
mouseVars == <<mouseMask, remoteButtons, strayed>>
sessionVars == <<thread, running, session, instLive, display, blocked>>
vars == <<keyboardVars, sessionVars, sizeVars, mouseVars, calling>>

Init ==
  /\ rdpInst = 0 /\ rdpLock = FALSE
  /\ keyboard = 0 /\ keyboardLive = FALSE
  /\ lockFlags = {} /\ synchronized = FALSE /\ keysymState = {}
  /\ todo = [t \in Users |-> <<>>]
  /\ using = [t \in Users |-> 0]
  /\ held = [t \in Users |-> {}]
  /\ remoteKeys = {} /\ remoteLocks = {} /\ repeated = FALSE
  /\ dropped = FALSE /\ fault = "none"
  /\ thread = "start" /\ running = TRUE
  /\ session = 0 /\ instLive = FALSE /\ display = "null"
  /\ size = FirstSize /\ settings = FirstSize /\ requested = NoSize
  /\ reconnect = FALSE /\ layout = NoSize
  /\ resizing = [u \in Users |-> NoSize]
  /\ inst = [u \in Users |-> 0]
  /\ mouseMask = {} /\ remoteButtons = {}
  /\ blocked = FALSE
  /\ calling = Users /\ plan \in Plans
  /\ resizes = 0 /\ asked = NoSize /\ late = FALSE /\ strayed = FALSE

-----------------------------------------------------------------------------
(* guac_rdp_client_thread goes on while the client runs, and               *)
(* guac_rdp_handle_connection makes the display ...                        *)
Start ==
  /\ thread = "start"
  /\ IF running
     THEN /\ session < MaxSessions
          /\ session' = session + 1 /\ display' = "live" /\ thread' = "keyboard"
     ELSE thread' = "done" /\ UNCHANGED <<session, display>>
  /\ UNCHANGED <<keyboardVars, running, instLive, blocked, sizeVars, mouseVars>>

(* ... and the keyboard, takes the settings ...                            *)
Prepare ==
  /\ thread = "keyboard"
  /\ keyboard' = session /\ keyboardLive' = TRUE
  /\ lockFlags' = {} /\ synchronized' = FALSE /\ keysymState' = {}
  /\ dropped' = FALSE
  /\ size' = settings /\ repeated' = FALSE
  /\ instLive' = TRUE
  /\ thread' = "connect"
  /\ UNCHANGED <<rdpInst, rdpLock, remote, typing, fault, running, session, display,
                 blocked, settings, requested, reconnect, layout, resizing, inst,
                 plan, resizes, asked, late, mouseVars>>

(* ... and connects: the locks of the server are in any state ...          *)
Connect ==
  /\ thread = "connect"
  /\ rdpInst' = session
  /\ remoteKeys' = {} /\ remoteLocks' \in SUBSET Locks /\ remoteButtons' = {}
  /\ thread' = "connected"
  /\ UNCHANGED <<rdpLock, kbVars, typing, dropped, fault, running, session, instLive,
                 display, blocked, sizeVars, mouseMask, strayed>>

(* ... or aborts, with nothing freed.                                      *)
ConnectFails ==
  /\ thread = "connect"
  /\ running' = FALSE /\ thread' = "done"
  /\ UNCHANGED <<keyboardVars, session, instLive, display, blocked, sizeVars, mouseVars>>

(* guac_rdp_disp_reconnect_complete, without the lock.                     *)
ReconnectComplete ==
  /\ thread = "connected"
  /\ reconnect' = FALSE
  /\ thread' = "loop"
  /\ UNCHANGED <<keyboardVars, running, session, instLive, display, blocked,
                 size, settings, requested, layout, resizing, inst, plan, resizes,
                 asked, late, mouseVars>>

(* The server takes the size that it was sent.                             *)
Resized ==
  /\ thread = "loop" /\ ~rdpLock
  /\ layout # NoSize
  /\ size' = layout /\ layout' = NoSize
  /\ UNCHANGED <<keyboardVars, sessionVars, settings, requested, reconnect, resizing,
                 inst, plan, resizes, asked, late, mouseVars>>

(* The server closes the connection, or an error: nothing is freed.        *)
ServerCloses ==
  /\ thread = "loop" /\ ~rdpLock
  /\ running' = FALSE /\ thread' = "done"
  /\ UNCHANGED <<keyboardVars, session, instLive, display, blocked, sizeVars, mouseVars>>

(* The loop ends: under rdp_lock the instance is freed ...                 *)
Disconnect ==
  /\ thread = "loop" /\ (~running \/ reconnect) /\ ~rdpLock
  /\ rdpLock' = TRUE /\ instLive' = FALSE
  /\ thread' = "disconnected"
  /\ UNCHANGED <<rdpInst, kbVars, remote, typing, dropped, fault, running, session,
                 display, blocked, sizeVars, mouseVars>>

\* rdp_inst keeps its value.
MutantKeepsInstance == rdpInst
InstanceAfter == 0

(* ... and forgotten ...                                                   *)
ForgetInstance ==
  /\ thread = "disconnected"
  /\ rdpInst' = InstanceAfter
  /\ thread' = "forgotten"
  /\ UNCHANGED <<rdpLock, kbVars, remote, typing, dropped, fault, running, session,
                 instLive, display, blocked, sizeVars, mouseVars>>

(* ... the keyboard is freed ...                                           *)
FreeKeyboard ==
  /\ thread = "forgotten"
  /\ keyboardLive' = FALSE
  /\ thread' = "freeing"
  /\ UNCHANGED <<rdpInst, rdpLock, keyboard, lockFlags, synchronized, keysymState,
                 repeated, remote, typing, dropped, fault, running, session, instLive,
                 display, blocked, sizeVars, mouseVars>>

\* rdp_lock stays locked.
MutantStaysLocked == TRUE
LockAfter == FALSE

(* ... and the display; the lock is released and the next session follows. *)
FreeDisplay ==
  /\ thread = "freeing"
  /\ display' = "freed"
  /\ rdpLock' = LockAfter
  /\ thread' = "start"
  /\ UNCHANGED <<rdpInst, kbVars, remote, typing, dropped, fault, running, session,
                 instLive, blocked, sizeVars, mouseVars>>

ClientThread ==
  \/ Start \/ Prepare \/ Connect \/ ConnectFails \/ ReconnectComplete
  \/ Resized \/ ServerCloses \/ Disconnect \/ ForgetInstance \/ FreeKeyboard \/ FreeDisplay

(* The client is told to stop.                                             *)
Stop ==
  /\ running /\ running' = FALSE
  /\ UNCHANGED <<keyboardVars, thread, session, instLive, display, blocked,
                 sizeVars, mouseVars>>

(* guac_socket_write to a client that is gone never returns once its ring  *)
(* is full: the client thread, wherever it writes, with the lock or not,   *)
(* or the mouse handler, which tells the others of the cursor.             *)
Block ==
  /\ ~blocked /\ blocked' = TRUE
  /\ \/ /\ thread \in {"start", "keyboard", "connect", "freeing"}
        /\ thread' = "blocked" /\ UNCHANGED rdpLock
     \/ /\ thread = "loop" /\ ~rdpLock
        /\ thread' = "blocked" /\ rdpLock' \in BOOLEAN
     \/ /\ rdpInst # 0 /\ ~rdpLock
        /\ rdpLock' = TRUE /\ UNCHANGED thread
  /\ UNCHANGED <<rdpInst, kbVars, remote, typing, dropped, fault, running, session,
                 instLive, display, sizeVars, mouseVars>>

-----------------------------------------------------------------------------
Least(x, y) == IF x > y THEN y ELSE x
Most(x, y) == IF x < y THEN y ELSE x
Magnitude(x) == IF x < 0 THEN -x ELSE x

\* x * m / d as C has it, which truncates, and whether it is defined: a product
\* that does not fit an int, or a division by 0, is undefined.  (INT_MIN counts
\* as one that does not fit.)
Scaled(x, m, d) ==
  LET q == (Magnitude(x) * Magnitude(m)) \div Magnitude(d)
  IN  IF (x < 0) # ((m < 0) # (d < 0)) THEN -q ELSE q
Scales(x, m, d) ==
  d # 0 /\ (m # 0 => Magnitude(x) <= IntMax \div Magnitude(m))

\* guac_rdp_disp_fit: the first of the two is brought within the bounds, the
\* other one follows it.
Fit(a, b) ==
  IF a < MinSize
  THEN <<MinSize, Least(Scaled(b, MinSize, a), MaxSize)>>
  ELSE IF a > MaxSize
  THEN <<MaxSize, Most(Scaled(b, MaxSize, a), MinSize)>>
  ELSE <<a, b>>
Fits(a, b) ==
  /\ a < MinSize => Scales(b, MinSize, a)
  /\ a > MaxSize => Scales(b, MaxSize, a)

\* Width must be even: an odd negative one has a remainder of -1.
Even(width) == IF width > 0 /\ width % 2 = 1 THEN width - 1 ELSE width

\* The height is not fitted.
MutantFitsWidth(width, height) ==
  LET wh == Fit(width, height) IN <<Even(wh[1]), wh[2]>>

\* The size that guac_rdp_disp_set_size requests, if that is defined.
Fitted(width, height) ==
  LET wh == Fit(width, height)
      hw == Fit(wh[2], wh[1])
  IN  <<Even(hw[2]), hw[1]>>
CanFit(width, height) ==
  Fits(width, height) /\ LET wh == Fit(width, height) IN Fits(wh[2], wh[1])

\* Undefined arithmetic.
Miscalculates ==
  /\ fault' = "arithmetic"
  /\ UNCHANGED <<rdpInst, rdpLock, kbVars, remote, typing, dropped, sessionVars,
                 sizeVars, mouseVars>>

(* guac_rdp_user_size_handler: the instance is read without the lock, and  *)
(* client pixels are converted to remote pixels ...                        *)
Resize(u, wh) ==
  /\ resizes < plan.resizes
  /\ \/ /\ \E x \in {wh[1], wh[2]} : ~Scales(x, Resolution, plan.optimal)
        /\ Miscalculates
     \/ /\ \A x \in {wh[1], wh[2]} : Scales(x, Resolution, plan.optimal)
        /\ resizes' = resizes + 1
        /\ resizing' = [resizing EXCEPT ![u] =
              <<Scaled(wh[1], Resolution, plan.optimal),
                Scaled(wh[2], Resolution, plan.optimal)>>]
        /\ inst' = [inst EXCEPT ![u] = rdpInst]
        /\ UNCHANGED <<keyboardVars, sessionVars, size, settings, requested, reconnect,
                       layout, plan, asked, late, mouseVars>>

\* The settings keep the old size.
MutantSettingsStay(wh) == settings
SettingsAfter(wh) == wh

\* guac_rdp_disp_update_size, with the instance that was read: nothing for a
\* dimension of 0, for a request that comes too soon after another and for the
\* size that the session has.  Any other goes the way of the resize method: a
\* new session is asked for, or the server is told if the channel is there, or
\* nothing is done.
UpdateSize(wh, instance) ==
  \/ late' = TRUE /\ UNCHANGED <<settings, reconnect, layout, fault>>
  \/ /\ wh[1] # 0 /\ wh[2] # 0
     /\ instance # 0 /\ ~(instance = session /\ instLive)
     /\ fault' = "instance" /\ late' = TRUE /\ UNCHANGED <<settings, reconnect, layout>>
  \/ /\ wh[1] # 0 /\ wh[2] # 0
     /\ instance # 0 => instance = session /\ instLive
     /\ IF instance # 0 /\ wh = size
        THEN late' = reconnect /\ UNCHANGED <<settings, reconnect, layout>>
        ELSE \/ /\ plan.method = "reconnect"
                /\ settings' = SettingsAfter(wh) /\ reconnect' = TRUE
                /\ late' = (thread \in {"connect", "connected"})
                /\ UNCHANGED layout
             \/ /\ plan.method = "update"
                /\ layout' \in {layout} \union (IF thread = "loop" THEN {wh} ELSE {})
                /\ late' = TRUE /\ UNCHANGED <<settings, reconnect>>
             \/ /\ plan.method = "none"
                /\ late' = TRUE /\ UNCHANGED <<settings, reconnect, layout>>
     /\ UNCHANGED fault

(* ... and guac_rdp_disp_set_size has the lock.                            *)
SetSize(u) ==
  /\ resizing[u] # NoSize /\ ~rdpLock
  /\ \/ /\ ~CanFit(resizing[u][1], resizing[u][2])
        /\ Miscalculates
     \/ /\ CanFit(resizing[u][1], resizing[u][2])
        /\ resizing' = [resizing EXCEPT ![u] = NoSize]
        /\ asked' = resizing[u]
        /\ requested' = Fitted(resizing[u][1], resizing[u][2])
        /\ UpdateSize(requested', inst[u])
        /\ UNCHANGED <<rdpInst, rdpLock, kbVars, remote, typing, dropped, sessionVars,
                       size, inst, plan, resizes, mouseVars>>

(* guac_rdp_user_mouse_handler, all of it under rdp_lock: the buttons that *)
(* changed since the last event are sent.                                  *)
Mouse(mask) ==
  /\ calling # {} /\ ~rdpLock
  /\ rdpInst # 0
  /\ mouseMask' = mask
  /\ remoteButtons' = (remoteButtons \ (mouseMask \ mask)) \union (mask \ mouseMask)
  /\ strayed' = (strayed \/ ~instLive \/ display # "live")
  /\ UNCHANGED <<keyboardVars, sessionVars, sizeVars>>

(* A user that joins is sent the display, without the lock.                *)
UseDisplay ==
  /\ display # "live"
  /\ fault' = "display"
  /\ UNCHANGED <<rdpInst, rdpLock, kbVars, remote, typing, dropped, sessionVars,
                 sizeVars, mouseVars>>

-----------------------------------------------------------------------------
\* No handler of u is called.
Idle(u) == todo[u] = <<>> /\ resizing[u] = NoSize

\* The loop of u's thread goes on while the client runs: one call more at
\* most after it stopped.
Calls(u) ==
  /\ u \in calling /\ Idle(u)
  /\ calling' = IF running THEN calling ELSE calling \ {u}

PressOrRelease(u, k) ==
  /\ \E pressed \in BOOLEAN : Key(u, k, pressed)
  /\ UNCHANGED <<sessionVars, sizeVars, mouseVars>>
Keyed(u) == Typing(u) /\ UNCHANGED <<sessionVars, sizeVars, mouseVars>>

Next ==
  /\ fault = "none"
  /\ \/ /\ \/ ClientThread \/ Stop \/ Block
           \/ \E u \in Users : Keyed(u) \/ SetSize(u)
           \/ \E mask \in SUBSET plan.buttons : Mouse(mask)
           \/ UseDisplay
        /\ UNCHANGED calling
     \/ \E u \in Users : Calls(u) /\ (\/ \E k \in plan.keys : PressOrRelease(u, k)
                                     \/ \E wh \in plan.sizes : Resize(u, wh))

Spec == Init /\ [][Next]_vars

Goes(A) == fault = "none" /\ A /\ UNCHANGED calling

\* The client thread goes on, and every handler that was called.
FairSpec ==
  /\ Spec
  /\ WF_vars(Goes(ClientThread))
  /\ \A u \in Users : WF_vars(Goes(Keyed(u) \/ SetSize(u)))

-----------------------------------------------------------------------------
\* A size, of ints.
IsSize(wh) == wh = NoSize \/ wh \in Int \X Int

\* The types of the variables.
TypeOK ==
  /\ rdpInst \in 0..MaxSessions /\ rdpLock \in BOOLEAN
  /\ keyboard \in 0..MaxSessions /\ keyboardLive \in BOOLEAN
  /\ lockFlags \subseteq Locks /\ synchronized \in BOOLEAN /\ keysymState \subseteq Keys
  /\ using \in [Users -> 0..MaxSessions] /\ held \in [Users -> SUBSET Keys]
  /\ remoteKeys \subseteq {Scancode(k) : k \in Keys} /\ remoteLocks \subseteq Locks
  /\ repeated \in BOOLEAN /\ dropped \in BOOLEAN
  /\ fault \in {"none", "keyboard", "instance", "display", "arithmetic"}
  /\ thread \in {"start", "keyboard", "connect", "connected", "loop", "disconnected",
                 "forgotten", "freeing", "done", "blocked"}
  /\ running \in BOOLEAN /\ session \in 0..MaxSessions /\ instLive \in BOOLEAN
  /\ display \in {"null", "live", "freed"} /\ blocked \in BOOLEAN
  /\ reconnect \in BOOLEAN /\ \A u \in Users : IsSize(resizing[u])
  /\ inst \in [Users -> 0..MaxSessions]
  /\ mouseMask \subseteq Buttons /\ remoteButtons \subseteq Buttons
  /\ resizes \in 0..plan.resizes /\ late \in BOOLEAN

\* What the handlers of events reach with rdp_lock and read under it, the
\* instance and the cursor of the display, is not freed, however sessions end
\* and begin.  (The size handler has the lock, but read its instance before.)
InLockAlive ==
  /\ ~strayed
  /\ ~rdpLock /\ rdpInst # 0 =>
       instLive /\ display = "live" /\ rdpInst = session

\* guac_rdp_disp_set_size was asked for a size of two positive dimensions.
Proper == asked # NoSize /\ asked[1] > 0 /\ asked[2] > 0

\* Within the bounds of the display update channel, and of an even width.
InBounds(wh) ==
  /\ wh[1] \in MinSize..MaxSize /\ wh[2] \in MinSize..MaxSize
  /\ wh[1] % 2 = 0

\* A dimension of wh is not positive, or too large to be scaled to MaxSize.
AtEdge(wh) == \E x \in {wh[1], wh[2]} : x <= 0 \/ x > IntMax \div MaxSize

\* A size of two positive dimensions is requested as one within the bounds of
\* the display update channel, although fitting one dimension changes the
\* other one.  What is undefined is so for a size at the edge only, once it is
\* converted, or for one that the conversion is undefined for: no result of
\* the first fit makes the second one fail.
RequestFits ==
  /\ Proper => InBounds(requested)
  /\ fault = "arithmetic" =>
       \/ \E u \in Users : resizing[u] # NoSize /\ AtEdge(resizing[u])
       \/ \E wh \in plan.sizes : \E x \in {wh[1], wh[2]} :
            ~Scales(x, Resolution, plan.optimal)

\* Every variable has its type, and where a resize asks for a new session that
\* session has, once it is up, the last size that was asked for, if that was
\* neither asked for too soon after another one, nor while connecting, nor is
\* the size from before a request that is still pending.
ResizeDone ==
  /\ TypeOK
  /\ plan.method = "reconnect" /\ Proper =>
       (thread = "loop" /\ ~reconnect /\ ~late => size = requested)

\* The thread of a client that stopped ends and no handler is left waiting for
\* rdp_lock, unless a write to a client that is gone is under way.
SessionEnds ==
  ~running ~> (thread = "done" /\ \A u \in Users : Idle(u)) \/ blocked \/ fault # "none"

-----------------------------------------------------------------------------
(* What one would expect, and the code does not keep: see README.md.       *)

\* No handler uses what a session that ended has freed, or what the first
\* one has yet to make.
NoFault == fault = "none"

\* Whatever size is asked for is requested within the bounds: "Fits a given
\* dimension within the allowed bounds for Display Update messages"
\* (rdp_disp.c:77).
AnySizeFits == fault # "arithmetic" /\ (asked # NoSize => InBounds(requested))

\* The session has the locks of the keyboard once that says so: "whether the
\* states of remote lock keys have been synchronized" (keyboard.h:46).
SynchronizedIsSent ==
  thread = "loop" /\ synchronized /\ (\A u \in Users : todo[u] = <<>>) =>
    remoteLocks = lockFlags

\* A size that was asked for too soon is asked for later.
DeferredSent == late ~> ~late \/ ~running \/ fault # "none"
=============================================================================

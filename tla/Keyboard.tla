------------------------------ MODULE Keyboard -------------------------------
(***************************************************************************)
(* The keyboard of an RDP session (keyboard.c): keysyms that clients press *)
(* and release become key events of the server's layout, with the          *)
(* modifiers and locks that a keysym needs pressed, released and set       *)
(* around it.  The keyboard has no lock of its own; every event is sent    *)
(* under rdp_lock, and skipped while there is no session.                  *)
(*                                                                         *)
(* A press may be repeated and a key released that nobody holds: clients   *)
(* send what they like.                                                    *)
(*                                                                         *)
(* Each call is unrolled into its events; reading the keyboard and sending *)
(* the event that follows from it are one step.  Keysyms without a mapping,*)
(* which are sent as characters, leave no state behind and are left out.   *)
(***************************************************************************)
EXTENDS Integers, FiniteSets, SequencesExt

CONSTANTS
  Users,    \* the threads of users that type
  Keys,       \* keysyms with a mapping
  Locks,      \* lock flags
  Keymap,     \* guac_rdp_keysym_desc of every keysym
  LockFlags,  \* guac_rdp_keyboard_lock_flag of every keysym, as a set
  MaxHeld     \* bound: keysyms that a user holds down

Modifiers == UNION {ToSet(Keymap[k].set) \union ToSet(Keymap[k].clear) : k \in Keys}

\* The modifiers that generate.pl can ask for and the keysyms that toggle a
\* lock are mapped in base.keymap, plainly, and nothing else to their keys.
ASSUME KeymapAssumption ==
  /\ \A k \in Keys :
       /\ Keymap[k].set \in Seq(Keys) /\ Keymap[k].clear \in Seq(Keys)
       /\ ToSet(Keymap[k].set) \intersect ToSet(Keymap[k].clear) = {}
       /\ Keymap[k].setLocks \subseteq Locks /\ Keymap[k].clearLocks \subseteq Locks
       /\ Keymap[k].setLocks \intersect Keymap[k].clearLocks = {}
       /\ LockFlags[k] \subseteq Locks
  /\ \A m \in Keys : m \in Modifiers \/ LockFlags[m] # {} =>
       /\ Keymap[m].set = <<>> /\ Keymap[m].clear = <<>>
       /\ Keymap[m].setLocks = {} /\ Keymap[m].clearLocks = {}
       /\ \A k \in Keys \ {m} : Keymap[k].scancode # Keymap[m].scancode
  /\ \A m \in Modifiers : LockFlags[m] = {}

VARIABLES
  rdpInst,      \* rdp_client->rdp_inst: the number of a session, 0 for NULL
  rdpLock,      \* the client thread has rdp_lock
  keyboard,     \* rdp_client->keyboard: the number of a session, 0 for NULL
  keyboardLive, \* that keyboard is not freed
  lockFlags,    \* its lock_flags
  synchronized, \* its synchronized
  keysymState,  \* the keysyms whose keysym_state is 1
  todo,         \* what is left of the call a user is in
  using,        \* the keyboard of that call
  held,         \* the keysyms that a user holds down
  remoteKeys,   \* scancodes that are down in the session
  remoteLocks,  \* lock flags that are on in the session
  \* history
  repeated,     \* a lock key was pressed again while it was down
  dropped,      \* an event was skipped since this keyboard was made
  fault         \* what was used after it was freed, or before it was there

kbVars == <<keyboard, keyboardLive, lockFlags, synchronized, keysymState, repeated>>
remote == <<remoteKeys, remoteLocks>>
typing == <<todo, using, held>>
keyboardVars == <<rdpInst, rdpLock, kbVars, remote, typing, dropped, fault>>

Scancode(k) == Keymap[k].scancode

-----------------------------------------------------------------------------
\* Steps of a call: "to" is whether the key is pressed by it.
Op(what, k, to) == [what |-> what, key |-> k, to |-> to, from |-> ~to]

\* guac_rdp_keyboard_send_events: change the keysyms that are in state from.
SendEvents(ks, from, to) ==
  [i \in DOMAIN ks |-> [what |-> "change", key |-> ks[i], to |-> to, from |-> from]]

\* The modifiers that were held are not pressed again.
MutantNotRestored(k, pressed) ==
  <<Op("locks", k, pressed)>>
  \o SendEvents(Keymap[k].set, FALSE, TRUE)
  \o SendEvents(Keymap[k].clear, TRUE, FALSE)
  \o <<Op("key", k, pressed)>>
  \o SendEvents(Keymap[k].set, FALSE, FALSE)

\* The modifiers that are in the way are not released.
MutantNotCleared(k, pressed) ==
  <<Op("locks", k, pressed)>>
  \o SendEvents(Keymap[k].set, FALSE, TRUE)
  \o <<Op("key", k, pressed)>>
  \o SendEvents(Keymap[k].set, FALSE, FALSE)

\* guac_rdp_keyboard_send_event.
SendEvent(k, pressed) ==
  <<Op("locks", k, pressed)>>
  \o SendEvents(Keymap[k].set, FALSE, TRUE)
  \o SendEvents(Keymap[k].clear, TRUE, FALSE)
  \o <<Op("key", k, pressed)>>
  \o SendEvents(Keymap[k].set, FALSE, FALSE)
  \o SendEvents(Keymap[k].clear, TRUE, TRUE)

\* guac_rdp_keyboard_update_keysym.
UpdateKeysym(k, pressed) ==
  <<Op("sync", k, pressed), Op("record", k, pressed)>> \o SendEvent(k, pressed)

(* guac_rdp_user_key_handler: a user presses or releases a key.            *)
Key(t, k, pressed) ==
  /\ todo[t] = <<>>
  /\ held' = [held EXCEPT ![t] = IF pressed THEN @ \union {k} ELSE @ \ {k}]
  /\ Cardinality(held'[t]) <= MaxHeld
  /\ todo' = [todo EXCEPT ![t] =
        IF keyboard = 0 THEN <<>> ELSE UpdateKeysym(k, pressed)]
  /\ using' = [using EXCEPT ![t] = keyboard]
  /\ UNCHANGED <<rdpInst, rdpLock, kbVars, remote, dropped, fault>>

-----------------------------------------------------------------------------
\* t is at a step of its call, and on.
At(t, what) == todo[t] # <<>> /\ Head(todo[t]).what = what
Step(t) == todo' = [todo EXCEPT ![t] = Tail(@)]

\* The keyboard of the call was freed meanwhile.
Freed(t) == using[t] # keyboard \/ ~keyboardLive

\* The call uses its keyboard: undefined behaviour if it was freed.
Fault(t) == Freed(t) /\ fault' = "keyboard"
            /\ UNCHANGED <<rdpInst, rdpLock, kbVars, remote, typing, dropped>>

\* An event is sent, under rdp_lock, if there is a session.
Send(keys, locks) ==
  /\ ~rdpLock
  /\ IF rdpInst = 0
     THEN dropped' = TRUE /\ UNCHANGED remote
     ELSE remoteKeys' = keys /\ remoteLocks' = locks /\ UNCHANGED dropped

\* guac_rdp_send_key_event: a lock key that goes down toggles its lock.
SendKey(k, pressed) ==
  LET sc == Scancode(k)
      toggled == IF pressed /\ sc \notin remoteKeys THEN LockFlags[k] ELSE {}
  IN  Send(IF pressed THEN remoteKeys \union {sc} ELSE remoteKeys \ {sc},
           (remoteLocks \union toggled) \ (remoteLocks \intersect toggled))

\* guac_rdp_send_synchronize_event.
SendSync(flags) == Send(remoteKeys, flags)

(* The first call tells the session the states of the locks.               *)
Sync(t) ==
  /\ At(t, "sync") /\ ~Freed(t)
  /\ IF synchronized
     THEN UNCHANGED <<synchronized, remote, dropped>>
     ELSE SendSync(lockFlags) /\ synchronized' = TRUE
  /\ Step(t)
  /\ UNCHANGED <<rdpInst, rdpLock, keyboard, keyboardLive, lockFlags, keysymState,
                 repeated, using, held, fault>>

\* The flags after keysym k was pressed or released.
Toggled(k, pressed) ==
  IF pressed
  THEN (lockFlags \union LockFlags[k]) \ (lockFlags \intersect LockFlags[k])
  ELSE lockFlags

(* The call is recorded in the keyboard.                                   *)
Record(t) ==
  /\ At(t, "record") /\ ~Freed(t)
  /\ LET op == Head(todo[t]) IN
     /\ lockFlags' = Toggled(op.key, op.to)
     /\ repeated' = \/ repeated
                    \/ op.to /\ LockFlags[op.key] # {} /\ op.key \in keysymState
     /\ keysymState' = IF op.to THEN keysymState \union {op.key}
                                ELSE keysymState \ {op.key}
  /\ Step(t)
  /\ UNCHANGED <<rdpInst, rdpLock, keyboard, keyboardLive, synchronized, remote,
                 using, held, dropped, fault>>

(* guac_rdp_keyboard_update_locks.                                         *)
UpdateLocks(t) ==
  /\ At(t, "locks") /\ ~Freed(t)
  /\ LET desc == Keymap[Head(todo[t]).key]
         flags == (lockFlags \union desc.setLocks) \ desc.clearLocks
     IN  /\ IF flags # lockFlags THEN SendSync(flags)
                                 ELSE UNCHANGED <<remote, dropped>>
         /\ lockFlags' = flags
  /\ Step(t)
  /\ UNCHANGED <<rdpInst, rdpLock, keyboard, keyboardLive, synchronized, keysymState,
                 repeated, using, held, fault>>

(* A modifier is changed if its keysym_state is what it should not be.     *)
Change(t) ==
  /\ At(t, "change") /\ ~Freed(t)
  /\ LET op == Head(todo[t])
     IN  IF (op.key \in keysymState) = op.from
         THEN SendKey(op.key, op.to)
         ELSE UNCHANGED <<remote, dropped>>
  /\ Step(t)
  /\ UNCHANGED <<rdpInst, rdpLock, kbVars, using, held, fault>>

(* The event of the keysym itself.                                         *)
Target(t) ==
  /\ At(t, "key") /\ ~Freed(t)
  /\ SendKey(Head(todo[t]).key, Head(todo[t]).to)
  /\ Step(t)
  /\ UNCHANGED <<rdpInst, rdpLock, kbVars, using, held, fault>>

Typing(t) ==
  \/ Sync(t) \/ Record(t) \/ UpdateLocks(t) \/ Change(t) \/ Target(t)
  \/ todo[t] # <<>> /\ Fault(t)

-----------------------------------------------------------------------------
\* No call is under way, and every event of this keyboard reached the session.
Settled ==
  /\ \A t \in Users : todo[t] = <<>>
  /\ keyboardLive /\ keyboard = rdpInst /\ ~dropped

Down == {Scancode(k) : k \in keysymState}

\* Between calls no key is down in the session that nobody holds, the
\* modifiers are exactly as they are held, whatever had to be pressed or
\* released for the keysyms meanwhile, and the locks are as the keyboard has
\* them, once the session was told and unless a lock key was pressed twice: the
\* session, where it is down already, does not toggle its lock again.
KeysRestored == Settled =>
  /\ remoteKeys \subseteq Down
  /\ \A m \in Modifiers : m \in keysymState => Scancode(m) \in remoteKeys
  /\ synchronized /\ ~repeated => remoteLocks = lockFlags

\* When a keysym is pressed in the session the modifiers it needs are down
\* there, the ones that would change it up, and its locks are on.
PrerequisitesHeld == \A t \in Users :
  LET k == Head(todo[t]).key IN
  At(t, "key") /\ ~Freed(t) /\ ~dropped /\ Modifiers \intersect {k} = {} =>
    /\ \A m \in ToSet(Keymap[k].set) : Scancode(m) \in remoteKeys
    /\ \A m \in ToSet(Keymap[k].clear) : Scancode(m) \notin remoteKeys
    /\ ~repeated => Keymap[k].setLocks \subseteq remoteLocks
=============================================================================

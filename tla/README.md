# Verification of guacamole-server-windows

The program is a Windows port of the Guacamole proxy. A service accepts
connections of clients, starts one client process per remote-desktop session
and passes bytes between each connection and the process through rings in
shared memory. The process loads a protocol plugin (RDP), which keeps the
session with the remote desktop and sends drawing instructions to all users.

This directory has TLA+ models of the parts of that program in which threads,
processes and errors meet, the TLC configurations that check them on small
instances, and proofs for every instance of what matters most in them.

Line numbers are those of the files under `src/`. Short names below:
`S` is `src/libguac/src/socket-shared-memory.c`, the other file names are
unique in the repository.

- [The system](#the-system)
- [The modules](#the-modules)
- [How state and actions correspond to the code](#how-state-and-actions-correspond-to-the-code)
- [The runs](#the-runs)
- [The bounds](#the-bounds)
- [Fairness](#fairness)
- [The proofs](#the-proofs)
- [Where the code departs from what it says](#where-the-code-departs-from-what-it-says)
- [What is not modelled](#what-is-not-modelled)
- [The plan](#the-plan)

## The system

Three layers, from the outside in.

**The service** (`src/guacservice`). `GuacConnectionHandler` keeps the list of
connections, `GuacClientProcessHandlerMap` the sessions by their id.
`GuacConnection` has a thread for the whole life of a connection: it reads the
`select` instruction, makes a session or finds one, starts the child process
(`GuacClientProcessHandler::RunProcess`) if the session is new, passes bytes on
until the user leaves, and takes everything down. Four kinds of detached
threads are started on the way.

**The client process** (also `src/guacservice`). `GuacClientProcess` reads its
parameters and then commands (ADD, REMOVE, STOP) from a ring that the service
writes; every user has a thread and two rings of its own (`GuacClientUser`).

**The libraries and the plugin** (`src/libguac`, `src/common`,
`src/protocols/rdp`). `libguac` has the sockets, the parser of instructions, the
list of the users of a client with its lock, and the pools of integers behind
layers and streams. `common` has surfaces and the display. The plugin connects
them to FreeRDP.

| Component | State | Operations | Correct means | Hard because |
|---|---|---|---|---|
| Shared-memory socket (`S` 2661–3275) | a ring of packets, two markers, a count, a mutex, a condition | create, write, read, select, reset | what was written is read, in order, once, none withheld | two processes, several writers, packets filled and read in part |
| Instruction parser (`parser.c`) | a buffer, pointers into it, a state | read, append, shift | what was sent is returned, however it is cut | pieces end anywhere, the buffer moves under the pointers |
| Pool (`pool.c`), layers, streams, objects (`client.c`, `user.c`) | integers in use and waiting, an array of slots | allocate, free | no integer is used twice | part of the work is outside of the lock |
| Users of a client (`client.c`, `rwlockimpl.h`) | a doubly linked list, a count, the owner, a lock | add, remove, for each, for one, for the owner | the list is intact, the right users are called, none that was freed | users come and leave while others iterate |
| Connections and sessions (`GuacConnection*.cpp`, `GuacClientProcessHandler*.cpp`) | list, map, child, flags, threads | accept, select, run, pass on, stop, delete | nothing is used after its deletion, no child is left over, everything ends | six kinds of threads, a child that may die, clients that may go |
| Client process and its users (`GuacClientProcess.cpp`, `GuacClientUser.cpp`) | a vector of users, a thread of each | parameters, ADD, REMOVE, STOP | one owner, no user is stuck, the parameters are what was sent | the vector is changed by all threads |
| Broadcast socket (`socket-broadcast.c`) | a lock | begin, write, end of an instruction; an iteration over the users per write | whole instructions, the same for all users, nobody waits for ever | users come and leave within an instruction, rings are full, three locks |
| Generic socket layer (`socket.c`) | the keep-alive thread | write, flush, lock, free | everything is written | partial writes |
| Input of a user (`user-handlers.c`) | input streams, lag | dispatch of an instruction | the handler of what is open | indices come from the client |
| Nest, tee, file and TCP sockets | a descriptor or another socket | the handlers of a socket | as the generic layer | |
| Protocol output (`protocol.c`) | none | one function per instruction | well-formed instructions, not interleaved | several threads |
| Audio (`audio.c`, `raw_encoder.c`) | a buffer | begin, write, flush, end | no sound is lost | limits of the buffer |
| Surfaces (`common/src/surface.c`) | a queue of rectangles, a dirty one | draw, flush, resize | what was drawn is sent | merging, order |
| Display, cursor, list, clipboard (`common/src`) | layers, users, locks | allocate, move, dup | a joining user sees the state | locks |
| RDP session (`rdp.c`, `client.c`, `user.c`, `rdp_disp.c`) | instance, keyboard, display, settings, requested size, a thread, `rdp_lock` | connect, handle, reconnect, end; a new size; users come | ends when asked, has the size asked for, nothing is used after its session | each session frees what handlers of users use |
| RDP input (`input.c`, `keyboard.c`) | state of keysyms, locks, buttons | a key, the mouse | modifiers and locks as needed and as held | several events per key, a new session between any two |
| RDP drawing (`rdp_gdi.c`, `rdp_bitmap.c`, `rdp_glyph.c`) | current surface, bitmaps with data and buffers, bounds | orders of the server | the picture of the server | a bitmap has two pictures; 16 raster operations |
| RDP file system, printer, audio, channels | tables of files, jobs, streams | events of both sides | no stale entry is used | mostly never loaded |

`PROJECT.json` has the same list with the files and what of them is modelled.

How they interact: the service and the process share only the rings (a command
ring per session, two rings per user) and the life of the process. In the
process the threads of the users call into `client.c` (join, leave) and, by the
parser, the handlers of the plugin; the plugin's thread draws on surfaces,
which write to the client's broadcast socket, which iterates over the users and
writes to the ring of each. The thread of the plugin and those of the users meet
in the instance of FreeRDP, the keyboard and the display of the session, under
`rdp_lock`, where they take it. All of it rests on the socket and on the lock of
the users, which is why these were modelled first.

## The modules

| Module | Models | Uses |
|---|---|---|
| `ByteFifo` | what one direction of a socket promises (abstract) | |
| `ShmQueue` | one direction of a shared-memory socket, with `guac_socket_write` and the select and read loop | `ByteFifo` by a refinement mapping |
| `Parser` | the parser over a buffer of bytes | |
| `Pool` | `guac_pool` | |
| `Layers` | layers and buffers of a client | `Pool` |
| `Streams` | streams of a client or a user, objects of a user | `Pool` |
| `ClientPools` | the pools of one client together | `Layers`, `Streams` (INSTANCE) |
| `RWLock` | the reader-writer lock, each atomic access a step | |
| `ClientUsers` | the users of a client and the iterations | `RWLock` |
| `Sessions` | the service | |
| `ClientProcess` | the client process and the service's end of its command ring | |
| `Rect` | the operations on rectangles | |
| `Surface` | how the updates of a surface are merged, queued and flushed | `Rect` |
| `Display` | the display, what is drawn on its surfaces, what its users see, a user that joins | `Surface` |
| `Broadcast` | the broadcast socket with its writers, the users' own writes and rings | |
| `Keyboard` | the keyboard of an RDP session | |
| `RdpSession` | the client thread of the plugin and the handlers of users | `Keyboard` |
| `RdpDrawing` | orders and bitmaps of the server on the surfaces of the display | |
| `ShmQueueProofs`, `ClientProcessProofs`, `BroadcastProofs`, `DisplayProofs`, `RdpSessionProofs`, `RdpDrawingProofs` | theorems and proofs | the module of that name |
| `ClientProofs` | theorems and proofs about a client | `ClientPools`, `ClientUsers` |
| `ConnectionProofs` | theorems and proofs about a connection: its session, and what is read from it | `Sessions`, `Parser` |
| `MC...` | values for TLC | the module of that name |

Definitions that begin with `Mutant` are plausible mistakes in the code. No
specification uses them: each shows, put in the place of the definition after
it, that some property can fail.

Undefined behaviour is modelled as a step that records a fault and ends the
behaviour (`fault` in `Sessions`, `ClientUsers`, `ClientProcess` and
`RdpSession`, "crashed" in `ShmQueue`). Nothing is claimed after it, and what reaches it is listed
[below](#where-the-code-departs-from-what-it-says).

## How state and actions correspond to the code

**ShmQueue.** The variables of the shared region have the names of the code;
`exclusive` and `shared` are the two ways to hold `queue_mutex`. A write of a
thread is `Call`, then `WriteFull` as long as the ring is full, or `WriteBegin`
(lock, number of packets), `Push` per packet and `WriteEnd` (notify, unlock;
what did not fit is written by the next call, as the loop of
`guac_socket_write` does). The reader's `SelectCheck` is the test without the
lock, `SelectWait`, `SelectTimeout` and `SelectWoken` the timed wait,
`ReadBegin`, `ReadMore`, `ReadPacket` and `ReadEnd` a read with its sharable
lock. `Streamlined` and `MultiRead` are the two flags a socket is created with:
both FALSE for the command ring, both TRUE for the rings of a user. Bytes are
numbered, so what a packet buffer holds says which bytes they are. The history
variables (`sent`, `delivered`, `ends`, `begun`) influence no step.

**Parser.** `at` says where `guac_parser_read` is. Every branch of
`guac_parser_append` is an action (`Length...`, `Content...`), and so is every
branch that `guac_parser_read` takes between two calls of it (`Parsed`,
`NeedMore`, `ShiftBuffer`, `Receive` and the failures). Elements are positions
in the buffer, read when the instruction is returned, as the pointers of the
code are. A character is a sequence of one or two bytes. The input is a sequence of
instructions and then bytes that complete no other one (`InputAssumption`); a null
byte is in no content, since the writers of instructions take null-terminated
strings.

**Pool, Layers, Streams.** An operation of the pool is one step since the pool
has a lock. What `guac_client_alloc_stream` does before and after it (the test
for room, the index of the slot) and what `guac_client_free_stream` does after
it are steps of their own. `Kind` selects client streams, user streams or
objects, which differ in their arithmetic. `ClientPools` has the buffers and the
streams of a client, whose operations come in any order.

**RWLock, ClientUsers.** `refCounter` is the atomic counter, `lock` how far a
thread is. The lock of a client is zeroed and never constructed, hence `MinInt`
is 0 in the runs, the value the member `MIN_INT` then has. A user's thread is
`Join`, `AddLock` to `AddUnlock` (each change of a link a step), `RemoveLock`
to `RemoveUnlock`, and `FreeUser`. An iteration is `CallUsers`, `Begin`, `Visit`
and `Advance`, `End`; `asked` tells the three functions apart.

**Sessions.** `pc` of a connection is the place in `HandleNewConnection` to
`ConnectionThread`; `reader` is its read thread. `failures`, `dropped`,
`clearers` and `removers` are the detached threads that were started and have
not done their work. A step is what a thread does up to the next access to
something that others change; the condition of the loops of `IOThread` is two
steps since it reads a flag and then the child. `commands` is the command ring of
a child process, which has two packets, and a write into it waits for room
(`Write`): the four parameters (`SendParam`), ADD, REMOVE and STOP (`SendStop`). The
main thread of the child takes them out (`ChildReads`) until it ends or joins a
user for ever (`hung`). `users` are the connections whose thread in the child goes
on, and `mail` those whose last message waits for the read thread; of the rings of a
user no more is in the model, and a write into the one nobody reads stays at
"writing".

**ClientProcess.** `channel` is the command ring as `ShmQueue` promises it: a
read takes one message (`MessagesKept`). `main` is the place of the main
thread, `user` that of each user's thread. `slot` is the reference that
`RemoveUser` holds into the vector and `place` the index that a thread found
itself at: both are positions, so they refer to something else once other
elements were erased, as they do in the code.

**Rect, Surface, Display.** A surface is a record: `dirty` and `queue` are its
`dirty_rect` and `bitmap_queue`, and of its buffer the model has `clear`, the
pixels that are not opaque. Colours are not in the model; `wrong` has, for the
users and for a user that joins, the pixels of a surface of which they have
another colour than the buffer. Drawing makes pixels wrong, a bitmap that is
sent makes its pixels right, as far as its format can, and a copy or a transfer
makes a pixel of the destination wrong where the source was wrong. What a
drawing really changes is any of the choices of `Differences`. Every function of
a surface holds its lock and is a step. Bitmaps are computed as the code does
(`Bitmaps`: sort, join as long as `ShouldCombine` says, queue again while there is
room). Whether a part of the picture changes often and is not a drawing, for
which the code prefers JPEG or WebP, is a choice per flush (`lossy`). `Dup` is
`guac_common_display_dup` for one surface; the lock of the display keeps
buffers from coming and going until the last of them. `Listed` is the moment at
which `guac_client_add_user` has put the user into the list. Layers other than
the default one have no caller, and `guac_common_surface_copy` is the transfer
with "src".

**Broadcast.** `pc` is where a thread is. An instruction of a writer is
`InstructionBegin`, for every chunk `WriteChunk`, a `Visit` per user and
`EndChunk`, and `InstructionEnd`; an iteration goes through the users that were
there when it began (`todo`). A user's thread writes to rings directly
(`WriteDirectly`): the position of the cursor to the others (`Mouse`, `LockRdp`),
an answer to itself (`Reply`), `disconnect` when it leaves. The chunk is what
fills a packet; a ring counts packets. `log` has what was written to all, `seen`
what of it a user got. The thread of a static channel is the second writer: it
writes to the client's socket without `rdp_lock`. The mutex of the socket is in
memory from `malloc` and never constructed (`socket-broadcast.c:367`); it is
taken to be unlocked.

**Keyboard.** A call of `guac_rdp_keyboard_update_keysym` is unrolled into its
steps (`UpdateKeysym`, `SendEvent`), which are taken one by one (`todo`), since
`rdp_lock` is taken for each event: `Sync`, `Record`, `UpdateLocks`, `Change` of a
modifier, `Target`. `remoteKeys` and `remoteLocks` are what the session then has:
keys that are down by scancode, locks that a lock key toggles and a
synchronize event sets. Clients press and release what they like, also a key that is
down: the keyboard then toggles its flag of a lock (`keyboard.c:423`) and the session
does not, which `repeated` records.

**RdpSession.** `thread` is the place in `guac_rdp_handle_connection`.
`session` numbers the sessions, so that `rdpInst`, `keyboard` and `using` say
which session a pointer belongs to, and `instLive`, `keyboardLive` and `display`
whether that was freed. The end of a session is a step per thing that is freed
(`Disconnect`, `ForgetInstance`, `FreeKeyboard`, `FreeDisplay`), all under
`rdp_lock`; a handler that does not take the lock can come between. `Resize`
reads the instance and scales the size, `SetSize` has the lock, fits and stores the
size and decides: too soon (any time, since no time is in the model), the size that
the session has, or what `settings->resize_method` says: a reconnect, a message to
the server if the display update channel is there (`layout`, which the server takes
in `Resized`), or nothing. A size is a pair of any C integers: `Scaled` truncates as C does,
and a division by 0 or a product that does not fit is undefined, a fault.
`Mouse` is one step, as it is one hold of the lock. `late` is TRUE when the last
request need not be met. `Block` is a write to a client that is gone, which does
not return, with `rdp_lock` or without. The process ends by `exit`
(`GuacClientProcess.cpp:347` and `:414`) before it would free the client, so no
step frees it; and `guac_rdp_user_leave_handler` is registered nowhere, so only users
that join use the display.

**RdpDrawing.** A surface is a row of pixels, a colour one bit; every raster
operation works bit by bit. `data` and `surface` are the two pictures of a
bitmap, `picture` what the server has. Every order is an action; its rectangle
may reach over the edges. `Rop` is the meaning of a code by its number, against
which the translation of `rdp_gdi.c` is checked. `clip` is the clip of the
screen's surface, `bounds` what the server asked for. The server deletes no
bitmap that it draws on, and uses only those that it sent or drew on.

## The runs

Each run has a configuration with the constants and a module `MC...`.

| Run | Shows |
|---|---|
| `shm_command` | The command ring with two writing threads: `RingInv` (the waiting packets are the bytes that were written and not read, within their packets); nobody writes during a read; reads keep the boundaries of messages (`MessagesKept`); the ring implements `ByteFifo` with its liveness |
| `shm_user_light` | The ring of a user, streamlined and read several packets at a time: in order as long as a read asks for all that is outstanding |
| `client_pools` | Buffers that any thread allocates: different indices, no integer lost or in two places. Streams that two threads allocate: unless one took the last slot while the other had found room for it, or a slot that the other had yet to mark closed (`raced`), they are in the array (`WithinMaximum`), never in use twice (`NotTakenTwice`) and indexed (`OpenIsIndexed`) |
| `parser` | Instructions in pieces of any size: exactly what was sent is returned; nothing regular is refused; handed over bytes continue what was returned; every read returns |
| `users` | Three users come and leave in any order, one at a time, and an iteration runs meanwhile: links, count and owner are right, the right users are called |
| `users_freed` | Refutes `NoFreedUser` for one user that leaves during an iteration |
| `sessions` | One session, which a second connection may join: what can be looked up or is listed was not deleted, nothing stays listed, no child is left over, a session alone is taken down in order; and each connection is taken down after its client went, unless its thread comes to wait for a process or a user that is gone, at one of the places that `Waits` names (`EndsOrWaits`) |
| `process` | Two users of a client process: one owner at a time, the parameters arrive in their places |
| `display` | Everything that is drawn on a display with a buffer: every opaque pixel of which the users have another colour waits to be sent (`Shown`), also for a user that joined unless something was sent before it was in the list (`JoinerShown`); the queue has room for the dirty rectangle of a flush, and that is within the picture (`QueueFits`) |
| `broadcast` | Two writers and two users: what is written to all is one whole instruction after another (`LogWhole`); each user gets all of it from when it came, in order (`SameForAll`); and while the clients read, every write ends (`WritesEnd`) |
| `rdp_session` | A user types, moves the mouse and resizes while sessions begin, are renewed and end: what a handler of an event reads under the lock is not freed (`InLockAlive`); modifiers and locks are as needed when a key is sent and as held after the call (`PrerequisitesHeld`, `KeysRestored`; locks unless a lock key was pressed twice); a request that is positive once scaled is within its bounds, and arithmetic is undefined for sizes at the edges only (`RequestFits`), and, with the method "reconnect", reached (`ResizeDone`); the thread of a client that stopped and the handlers end, unless a write to a client that is gone does not (`SessionEnds`) |
| `rdp_drawing` | Every order on a screen and two bitmaps: the screen and whatever is used next of a bitmap are the server's picture (`Faithful`); every buffer is that of one bitmap (`BuffersOwned`) |

## The bounds

- `ShmQueue`: two or three packets of two bytes, messages of one to three
  bytes (less than, exactly and more than a packet), five or six bytes in all.
  The ring wraps around, is full, is emptied and restarts, a message is cut by a
  ring that is nearly full, and a second thread writes in between. `MaxBytes`
  makes the space finite; a longer behaviour repeats these situations, and the
  proofs have no such bound. `MaxResets` is 0 except to reproduce `NoNullPeek`.
- `ClientPools`: three handles and `MinSize` 2, so both ways of
  `guac_pool_next_int` are taken and integers are reused in different orders; the
  states are finite for buffers without a bound. Two threads and two slots of
  streams, so all of them are in use, the next request is refused, and a thread
  gives a slot back while the other one looks for one. A behaviour ends when a
  slot beside the array is used (`InArray` in `Next`).
- `Parser`: `Capacity` 11, elements of at most three characters, three
  elements, numbers in base 2 so that a length has two digits and can be cut.
  Inputs are all sequences of three instructions of three shapes (one element;
  a character of two bytes; an empty element) and inputs with every kind of
  error. The buffer holds little more than one instruction, so it is moved at
  every position.
- `ClientUsers`: three users (first, last, middle), one of them the owner, and
  an iterator that calls as often as it likes. Since the lock keeps nobody out,
  users that come or leave at the same time corrupt the list:
  `Together = FALSE` lets them come and leave one at a time in the run of the
  properties that hold, and TRUE is in that of the one that does not.
  `Meanwhile = TRUE` lets iterations overlap with them in both.
- `Sessions`: two connections and one handler, so the second connection joins the
  session of the first at any point of its life (`Joiners`): sessions share no ring and no child. With two handlers and
  both connections in `Joiners`, so that each has its own session or is in the
  other's, the four invariants hold as well (3.9 million states, `Spec`), and the proofs have
  any number; that is too many for liveness. `RingSize` is that of the code.
- `ClientProcess`: two users. A command ring of two messages. `GoodConfigs`
  has a file log whose folder has a name, and no file log with a folder of the
  length of "NO_LOG".
- `Display`: a default layer of three pixels in a row, a buffer of one, a queue
  of two rectangles and costs with which neighbours are combined and pixels
  further apart are not, so updates are merged, queued, sorted, and flushed
  by a full queue. Drawings ask for more than the picture and are clipped. The
  layer shrinks and grows. A drawing changes all that it covers or one of the
  two outer pixels (`Spots`). `Explored` bounds the run: displays without a
  surface blackened by a resize (see below) and users that missed nothing; clips
  and another size only where there is neither a buffer nor a joining user; no
  buffer once the user has joined. A drawing on a surface does not depend on
  what is left out.

- `Broadcast`: instructions of two chunks and rings of one packet, so a ring is
  full after every chunk and a user comes, leaves or is written to by another
  thread within an instruction. Two writers contend for the lock of the socket,
  two users for `rdp_lock`, and a user tells the other one of its cursor.
  `MaxBegun` 2 lets any two instructions of any two threads meet; a third one
  waits for one of them.
- `RdpSession`: two sessions, so that a handler begins in one and ends in the
  next. The keys are those of `en-us-qwerty` whose mappings differ in kind: a
  modifier, a key that needs one, one that needs none of two, a lock and a key
  that needs it; two are held at a time. The sizes are below the least, above the
  greatest, odd, both out of proportion, negative, scaled to 0 and too large to be
  scaled or fitted; `MinSize`, `MaxSize` and `IntMax` are those of the code, and `INT_MIN`
  counts as too large. A `Plan` says which of it users do in a behaviour, with which
  method and resolution (type; type and resize; resize by each method and use the
  mouse): all of it at once is too much for TLC, and the parts share only the session.
  The server changes its size only when it is told, and the connect of FreeRDP
  is taken to return.
- `RdpDrawing`: two bitmaps, so an order has a source and a target besides the
  screen, and surfaces of two pixels, so it covers all of one, a part, or none.
  Bitmaps come with a pattern or with one colour. No bound on how long.
  A behaviour is not followed beyond an order outside of its bounds
  (`WithinBounds`), after which the pictures differ (see below).

Deadlock is not checked where the system may stop: everything was written and
read, all connections are done, the process exited, the parser failed, a display is
left alone, a bound was reached.

## Fairness

Threads that can take a step take one some time (weak fairness); no order
between threads is assumed and nothing of the clients but what follows.

- `ShmQueue`: the reader, and each writing thread inside of
  `guac_socket_write`. A thread need not call it again. `FifoLive` needs the
  deadline of `timed_wait`: a notification can be missed, and the reader then
  finds the bytes only at its next select.
- `Parser`: the steps of a read. The socket gives the bytes that it has, or is
  closed, or 100 selects find nothing (`Timeout`, which is not fair).
- `Sessions`: the threads of connections that were accepted, their readers and
  the detached threads; the main thread of a child, as far as it runs and is not in a
  join that does not end, reads its commands; the thread of a user ends when its client
  has gone, since its parser times out. A user that goes on reads its ring. Nothing
  is assumed of failures: no child has to end unless it is told to. What waits for
  room in a ring, or for the read thread, is not made to go on: `EndsOrWaits` names the
  waits that do not end because the one waited for has gone.
- `ClientProcess`: none. A user's thread writes to the ring of its client
  and waits for the lock of the users (`Handshake`, `StopUser`, `LeaveClient`); both can
  last for ever when a client has gone (`WritesEndForOthers` below), and with them the
  removal that joins the thread.
- `Broadcast`: a thread goes on with what it began, and the service takes the
  packets out of the ring of every user whose client is there. Nobody has to
  begin an instruction, come or leave. `WritesEnd` claims nothing once a client
  went away (`gone`), see below.
- `RdpSession`: the client thread goes on, and a handler that was called too, unless a
  write to a client that is gone does not return (`Block`). Nobody frees the client. Users
  need not call anything, and call at most once more when the client has stopped,
  since their loop tests `client->state`.

## The proofs

`ShmQueueProofs` has, for every number of packets and bytes, every set of
writers and every choice of counts, with `~Streamlined` and `~MultiRead` where
they are needed (the command ring; a ring with the flags of a user's is not
correct, see below):

| Theorem | States |
|---|---|
| `TypeCorrect` | `Spec => []TypeOK` |
| `RingCorrect` | `Spec => []RingInv` |
| `ReadsAreExclusive` | `Spec => NoWriteDuringRead` |
| `RingImplementsFifo` | `Spec => FifoSafe`: the ring implements the safe part of `ByteFifo` |
| `MessagesStayWhole` | `Spec => MessagesKept`: the boundaries of messages survive the ring |

The order of the bytes is not inductive: it depends on where the markers are
and on what the waiting packets hold. `RingInv` adds that. `LockInv` says that
readers and writers exclude each other and that a write asks for no more
packets than are free; `MarkerInv` that the write marker is
`queue_current_size` packets after the read marker, around the end of the ring;
`PacketInv` that every waiting packet has bytes, in its bounds and in
sequence; `ChainInv` that the packets continue each other, from the byte after
the last one delivered to the last one accepted. The proof has a lemma per
group of steps: those that leave the ring alone (`RingUntouched`), a push
(`PushKeepsInv`) and a read (`ReadKeepsInv`, which also gives the step of
`ByteFifo`). The assumptions are those of the module: at least one packet, of at
least one byte, and positive counts. TLC checks `RingInv` as an invariant of
`shm_command`.

That messages stay whole needs more: what a read takes depends on where the
packet that it finds was cut when it was written, perhaps by a thread that had
room for a part of its message only and that another followed before it went
on. `MessageInv` says it of every waiting packet (`PacketWhole`): all its bytes,
those already read included, are of one message, and it is full, or ends with the
message, or is the last one of a write that took all it had and has yet to end.
The lemmas for a push and for a read follow `PushKeepsInv` and `ReadKeepsInv`,
which also say what becomes of each waiting packet (`Pushed`, `Taken`).
`~MultiRead` is essential: a read of several packets joins messages.

`ClientProofs` has three parts. For buffers, however many there are and
whenever the pool starts to reuse integers: `BuffersAreUnique` (`UniqueIndex`)
and `BuffersAreConserved` (`Conserved`). The inductive invariant is `PoolInv`: an
index in use stands for an integer that was made, and the integers that wait
for reuse are different from each other and from those in use; `CountInv` adds
that none is missing and that the pool counts those in use. Both assume
`Kind = "buffer"`, since for layers it does not hold (see below). For streams,
with any number of slots and any finite set of threads: `SlotsNotTakenTwice`
(`NotTakenTwice`) and `OpenStreamsIndexed` (`OpenIsIndexed`). `StreamInv` says, until a
slot was taken in one of the two windows, that the slots that wait are different ones
and nobody's, and that the slot of a thread that gave it back and has yet to mark it
closed is not in use: what `NotYetClosed` rules out at the time of the taking stays so.
That the slots are in the array (`WithinMaximum`) needs the streams counted over all
threads and is model-checked only.

The third part is the list of users, for any finite set of users and any number of
iterations: `RightOnesAreCalled` (`RightOnesCalled`).
It assumes `~Together`, that users come and leave one at a time, since the lock of
the list keeps nobody out and two that come together corrupt it (`Together`, see below);
iterations overlap with them as they like, which is what it is about. It also
assumes that at most one user has the flag of an owner: with two, the client
forgets the first, which is connected and is not called. The invariant (`Inv`)
gives every user that ever was in the list a place, a number that is higher the later it
came. The links forward go to lower places, for users that were removed as well, whose
memory is still read by an iteration that stands on them; and none of the links skips
a user that is listed. So an iteration, wherever it stands, has called everyone
listed above its place and will come to everyone listed below.

`ConnectionProofs` has, in its first part, all four safety properties of the service, for any number
of connections, sessions and failures: `AlwaysListedLives`, `AlwaysNoneLeft`,
`AlwaysNoOrphan` and `AlwaysAloneInOrder`. None of them is inductive: what a
thread may touch depends on where the thread that created the session is.
`CreatorInv` says that a session has one creator, whose thread ends when the
session is deleted and not before; `DeletionInv` the order of the end of a session
(out of the map, out of the list, deleted) and who may still be listed
meanwhile; `AloneInv` what a thread that serves a session nobody joined finds at
each of its steps, those included at which it waits for room in the command
ring (the child may end there, the handler and the ring stay); `SavedInv` and
`BesideInv` whom the vector of a handler and the detached threads refer to. None of
it needs that a write ends. `WriteTypes` has the types of a write.

The second part of `ConnectionProofs` has the three safety properties of `Parser`, for
any instructions, any sizes of the buffer, of elements and of instructions, and any
pieces: `InstructionsAreKept`, `RefusalsHaveCause` and `HandedOverFollows`. The
assumptions are those of the module (sizes are positive, numbers have a base up to ten,
`InputAssumption`). It goes in three steps:

1. How instructions are written. `FlattenIs` and `PlaceOf` say where the parts of joined
   sequences lie; `NumberIs` that reading the digits of a written number, from the
   first to the last, gives it back (`Partial` is the number after some of them);
   `ElementAt` puts these together: at which position of the input each length, period,
   character and terminator of each element is.
2. The invariant `ParserInv` relates the parser to that text. `Origin` is the position
   in the input of the first byte of the buffer, so moving the buffer changes it and
   the pointers by the same amount. `InvPlace` says that the next byte to parse is the
   d-th digit of a length and that `parsed_length` is `Partial` of it, or the c-th
   character of a content and how many are still to come, or the end of the
   instruction; `InvElements` that every pointer is to the
   content of its element as far as it arrived, and that each content before the
   current one ends with a null byte; `InvStuck` that more is only asked for when the
   instruction is not all there. That is why an instruction that fits is never refused
   for a full buffer: it begins where the buffer begins, or is moved there.
3. A lemma per action. `ContentIs` is what ties the null bytes to the result: the
   content that is read at a pointer ends at the first of them, and contents have none.

`ClientProcessProofs` has `AlwaysOneOwner` (`Spec => []OneOwner`) for any number
of users, and `AlwaysParamsInPlace`. A thread erases what is at the place that it
remembers, which may be another user by then. The invariant is about the first
place: whoever found itself there is there until it erases itself (`PlaceInv`),
and an owner that exists is there, or about to be put into a vector that stays
empty until then (`OwnerInv`). `AddInv` says that a user is added once. For the
parameters, `DueInv` says that those that are not read yet are the next messages
on the channel, or to be written to it. `AlwaysParamsInPlace` assumes of the
configurations what the property needs, as found with TLC: a folder with a
name, and one as long as "NO_LOG" where there is no file log (see below for both).
Its lemma `ParamInvariance` needs the first only and shows that the other three
parameters are always taken for what they are.

`BroadcastProofs` has `AlwaysLogWhole` and `AlwaysSameForAll` for any number of
writers and users, instructions of any number of chunks and rings of any size.
`LogInv` says that the thread with the lock of the socket is the one whose
instruction the log ends in, and how far it is; `TodoInv` that the users it has to
call are different ones, came before the chunk, and are called once;
`SinceInv` that nothing was written to a user before it came.

`RdpDrawingProofs` has `AlwaysFaithful` and `AlwaysBuffersOwned` for surfaces of
any size, any finite set of bitmaps and any pictures. `LookInv` says of every
surface, those included that the server cannot use yet, that it looks as the server
has it, or would if it was cached now; without the latter a bitmap without data
that is drawn on for the first time would be unknown. `RopIsTransferred` shows for each code
that the transfer function it is translated to makes what its table says. There is a
lemma per kind of order, which compares pixel by pixel what the server draws and
what is drawn (`ServedKeeps`), and one that counts the buffers (`PreparedCounts`).

`DisplayProofs` has the three invariants of `Display`, for surfaces of any size, queues
of any length, any costs, any requests and clips: `QueueHasRoom` (`QueueFits`),
`UsersAreShown` (`Shown`) and `JoinersAreShown` (`JoinerShown`). The last two assume
`NoXor`, that no transfer inverts, since with one they do not hold (see below). The
proof goes from the geometry up:

- Rectangles: `ExtendCovers` (the rectangle around two has the pixels of both, so
  merged updates lose none), `ConstrainIsCommon` (a constrained rectangle has
  exactly the common pixels) and `GridCovers` (growing a rectangle to the grid of an
  encoder keeps its pixels and stays in the picture). They are statements about
  each axis, put together by two lemmas on products.
- Flushes: `FlushCovers` says that every pixel within the picture that waits, in the
  queue or in the dirty rectangle, is in one of the bitmaps that are sent. The queue
  is sorted (`SortedIs`: some order exists, and it loses nothing), entries are
  joined (`GatherKeeps`: what is joined is in the rectangle around), a joined rectangle
  goes back into the queue if there is room, and the loop passes by it later
  (`PassKeeps`: before the i-th pass everything is sent or with an entry from i on
  that is not done). `FlushCorrects` says what a user has wrong afterwards, whatever
  formats the bitmaps have: pixels that did not wait, or transparent ones.
- Steps: `Inv` says of every surface that the rectangles which wait lie within the picture
  and leave room (`SurfaceOK`), and of the users and of the one that joins, as far as
  it was told everything (`Counts`), that what they have wrong is within the picture
  and, if it is opaque, waits (`ViewOK`). One lemma per action; the drawings share `PutOffIsOK`,
  which is the case distinction of `guac_common_surface_flush_deferred`, and `SeeStep`.
  The transfer is the longest: source and destination may be the same surface, both
  are flushed before the result is computed, and a pixel of the result is wrong
  where one of its sources was.

`RdpSessionProofs` has five results for every number of sessions. `LockedIsAlive`
is `Spec => []InLockAlive`. What a handler finds depends on how far the client
thread is, so the inductive invariant `ThreadInv` says at each of its steps what
is made, freed and locked: in particular that the instance is freed under the lock
and forgotten before that is released, and that a thread that is done has left all
of it alive or none.

`SizesFit` is `Spec => []RequestFits`. `Fit` scales the second dimension when it
moves the first one to a bound; two lemmas on division (`ScaledUp`, `ScaledDown`)
give `FitBounds`: a dimension within the bounds is scaled towards the inside of
the bounds or capped, so the second `Fit` does not undo the first. For a size of two positive dimensions (`Proper`) that gives the first half of `RequestFits`.
The second half says where the arithmetic of C is undefined: for a size with a dimension that
is not positive or exceeds `IntMax \div MaxSize` (`AtEdge`) once it is converted, or for one
whose conversion is undefined. `CanFitInside` shows the step that is not obvious: the first fit
never makes the second one undefined. `AnySizeFits` says so of every size, which is refuted
(below). The assumptions are those of the module: any sizes, even bounds in the right order, and
the square of the greater one an `int`.
`ResizesAreDone` is `Spec => []ResizeDone`, with all the types, for the resize method
"reconnect": with the other two the code promises no such thing. `SizeComes` says
for every step of the client thread where the session, or the next one, has the
last size from: its own size, or the settings. A loop that ends while the client
runs ends for a new size, so the settings have it then.

`KeysAreRestored` and `KeysArePrepared` are `KeysRestored` and `PrerequisitesHeld`
for one user that types, under any keymap of the kind that `generate.pl` makes of
`base.keymap` and its children (`KeymapAssumption`): modifiers and lock keys are
mapped, ask for nothing themselves, have scancodes of their own and are different
ones; no keysym needs the same modifier or lock both on and off. A call is unrolled
into `3 + n` events before that of the keysym and `n` after it, where `n` is the
number of modifiers that the mapping names; `CallSteps` and `Place` say which event comes at
which place. The invariant `InCall` says what the session has after `i` of them:
`Matches(P, R, K, L)`, that its keys are those of the keyboard with the
modifiers `P` pressed and `R` released for the time being, the event of `K` still due,
and the locks `L` still to be toggled by it (the locks only as long as no lock key was
pressed twice, `~repeated`). The modifiers of `P` and `R` are read
off the place (`Marks`). That works although the code has no record of what it
pressed: it looks at `keysym_state` before and after the keysym, and since nobody
else types the answer is the same (`ChangeKeepsMatch`). `KeyboardLife` has
the rest: whose keyboard there is at each step of the client thread, that no call
has the one that is being made, and that a keyboard that was used before the
session is connected has dropped something. With more users it does not hold, see
[below](#where-the-code-departs-from-what-it-says).

Every inductive invariant was also checked by TLC, with the configuration of the
run of its module.

Only model-checked: all liveness properties (they need fairness; `EndsOrWaits` and
`SessionEnds` among them), and `InOrder` of the
streamlined ring, which holds only for readers that take everything at once. The provers have no induction rule that can be instantiated
with a formula. What a recursive function computes was proved in its place by the smallest
number for which it would fail; that is how the proofs about queues of
rectangles, series of bitmaps, joined sequences and written numbers are done.

## Where the code departs from what it says

Those with a run name it; the others are definitions, most of them
at the end of their module under "What one would expect, and the code does not
keep". Each can be reproduced by naming it as INVARIANT or PROPERTY in the
configuration given, or in that of its section.

### The ring

- **`PacketInBounds`** with the constants of `ShmQueueUserLight.cfg` and
  `ReadCounts = {2}`. A streamlined write computes the
  room in a packet from the bytes that are unread (`S:3076`) and puts them after
  those that were read, so a packet that was read in part is filled past its
  end. The comment at `S:2858` says the marker moves on "If there is not enough
  space on the current written packet".
- **`EmptyMeansDrained`** with the same constants. Filling a packet further counts it again, but it is popped
  once, and popped while the write marker is still on it; the count and the
  bytes then disagree. `S:2931` says "We read as much as we can according to
  the buffer size".
- **`TimeoutMeansNoData`** in `ShmQueueCommand.cfg`. `select_handler` tests the
  ring before it locks (`S:3177`), so the notification can come before the wait,
  which then lasts until its deadline although there are bytes.
  `socket-fntypes.h:65` says "zero if the timeout elapsed and no data is
  available". That the bytes come all the same at the next select is
  `FifoLive`.
- **`NoNullPeek`** in `ShmQueueCommand.cfg` under `ResetSpec` with
  `MaxResets = 1`. `reset_handler`
  empties the ring without its mutex (`S:3119`), between a reader's test and its
  `peek`. `S:2922` says "reading and writing at the same time is not allowed for
  now".

### Pools and the users of a client

- **`UniqueIndex`** in `ClientPools.cfg` with `Kind = "layer"`.
  `guac_client_free_layer`, which nothing in the repository calls, gives back the index, which is one more than the integer (`client.c:96`), so
  an integer can be in use twice. `pool.h:121` promises an integer "not yet
  returned" or one that "has since been freed".
- **`NoneBeyondMaximum`** in `ClientPools.cfg`. The test at
  `client.c:109`, "Refuse to allocate beyond maximum", is outside of the lock, and
  the client thread and that of a static channel (`svc_service.c:94`) both allocate.
- **`StreamsIndexed`**, there as well. A stream is
  marked closed (`client.c:133`) after its slot was given back, when the slot may be
  another thread's stream already.
- **`ListIntact`** in `ClientUsersFreed.cfg` with `Users = {u1, u2}` and
  `Threads = {u1, u2, i1}`: users that come together. Both put
  themselves before the same first user, and one of them is lost from the list.
- **`NoFreedUser`** (run `users_freed`). The lock is zeroed in place of
  constructed (`client.c:153`), and a zeroed lock looks free while a writer has
  it: an iteration goes on with a user that leaves and is freed. `client.h:161`
  says of the lock that it "is acquired when the users list is being
  manipulated, or when the users list is being iterated".
- **`Exclusive`** of `RWLock` in `ClientUsersFreed.cfg` with
  `Users = {u1, u2}`: the cause of it.
- **`WriteReturns`** in `ClientUsersFreed.cfg` under `FairSpec`. `UnLockWrite` stores 0 over the count of
  readers that came meanwhile (`rwlockimpl.h:54`), so the count goes wrong and a
  later reader can wait with nobody left to wake it.

### The service

- **`UserStops`** in `Sessions.cfg`, also with one connection. The write loop of a connection whose client
  went ends "Thus we stop the user completely" (`GuacClientProcessHandler.cpp:115`), and
  joins the read thread (`:127`), which ends by a write that fails. When the thread of the
  user in the child is over, for instance since its handshake failed, nothing comes that
  could be written, and the connection and its child stay for good.
- The parameters and commands are written by `guac_socket_write`, which tries for ever
  (`socket.c:110`), into a ring of two packets. A child that dies after it was seen
  running (`GuacClientProcessHandler.cpp:267`), or whose main thread is in a join that
  does not end, leaves the thread that writes there; `Waits` has these places, and
  `EndsOrWaits` without it does not hold.
- **`NoClearerLeft`** in `Sessions.cfg`. The detached thread of
  `StopProcess` (`GuacClientProcessHandler.cpp:352`) clears a vector of the
  handler; nobody waits for it before `GuacConnection.cpp:142` deletes the
  handler, which the line above calls "the last reference to the process".
- **`NoJoinerLeft`**. So can a connection that joined the
  session; and **`NoOrphan`** does not hold without its exemption of shared
  sessions: a connection that calls `StopProcess` second
  (`GuacClientProcessHandler.cpp:328`) does not wait for the child that the
  first one is stopping, and deletes the handler.
- **`NoNullChild`**. `CleanupUserIO` asks `m_ClientChildProcess->running()`
  (`GuacClientProcessHandler.cpp:139`) when another connection may have set it
  to null, although the comment there considers that "the main GuacConnection
  will call StopProcess".
- **`OneOwner`**. Two connections can both find the vector empty
  (`GuacClientProcessHandler.cpp:310`): "The owner is the first actual
  connection of this process".
- **`JoinedIsAlive`**. `GuacConnection.cpp:37` says "Process exists and is
  already alive"; it is in the map before it runs and while it is taken down.
- **`DropsOnlyAssociated`**. The end of a session drops every listed connection
  that has no handler yet (`GuacConnectionHandler.cpp:77`); the header says
  "removes all the associated connections" (`GuacConnectionHandler.h:50`).
- **`NoUnsetRead`**. The same line reads `m_ClientProcessHandler`, which the
  constructor at `GuacConnection.cpp:8` leaves unset.
- **`NoConnectionOutlived`**. The thread of `FinishOnFailure`
  (`GuacConnection.cpp:68`) has a raw pointer to a connection that a dropping
  thread may have deleted as its "last reference"
  (`GuacConnectionHandler.cpp:94`).
- **`AnnouncedIsKnown`**. The id that `ready` announces (`GuacClientUser.cpp:197`)
  is one that the client process made up, not the one the service looks
  sessions up by. Joining works with the service's id only.

### The client process

- **`NoUnwantedLog`** with `Configs <- DefaultFolder`. "NO_LOG" is written in
  the size of the folder's name (`GuacClientProcessHandler.cpp:205`), so with
  the folder "./" the process gets "NO" and logs to a folder of that name. The
  comment at line 196 says "no log will happen on the child process".
- **`ParamsInPlace`** with `Configs <- NoFolder`. A folder with an empty name is
  not a message, and every parameter is taken for the one before it; the list at
  line 185 says otherwise.
- **`DoneNotListed`**. The thread is started before the user is put into the
  vector (`GuacClientProcess.cpp:282`), so it can be over by then and stays
  listed; line 260 says "Remove the user from the vector".
- **`AbortedStops`** in `ClientProcess.cfg`. `IOThread` sets `m_bIsRunning`
  (`GuacClientUser.cpp:17`) over an abort that came before it; line 292 of
  `GuacClientProcess.cpp` says "Stop the user, will be removed by the user thread".
- **`JoinsAborted`**, **`AbortsExisting`**. The reference that
  `RemoveUser` has (`GuacClientProcess.cpp:293`) can be to a user that was freed or,
  after an erase, to another one, whose thread it then joins.
- A removal need not end: the thread that it joins may wait for room in a ring or for
  the lock of the users, see `WritesEndForOthers`.

### The parser

An instruction of exactly `GUAC_INSTRUCTION_MAX_ELEMENTS` elements is taken or
refused depending on where its pieces end (`parser.c:65` is reached again only
when its last element is cut). `RefusedForCause` therefore speaks of fewer
elements. `parser.h:159` lets a caller try again after a timeout, which would
parse the same bytes a second time (`parser.c:240`); no caller does.

### The display

- `Shown` speaks of opaque pixels. A pixel that became transparent stays what it
  was at the users when it is sent as WebP or by a copy, which are composed over
  what is there (`surface.c:1571`); only the PNG of a rectangle that is not opaque
  is preceded by its removal.
- `guac_common_surface_resize` copies the old picture as if it were opaque
  (`surface.c:1346`), so its transparent pixels become black in the buffer and
  stay transparent at the users. `blackened` has these surfaces, and those to
  which they were copied.
- `Shown` does not hold with "xor" among the functions of `Moves`.
  `guac_common_surface_transfer` changes the picture of another surface first,
  flushes what waits for it, with the result, and then sends the instruction
  (`surface.c:1657` to 1681): the users apply the function to the result again.
  The functions of the run give the same when they are applied again.
- Without `~missed`, `JoinerShown` does not hold: a user is sent the display
  (`rdp/src/user.c:93`) before `guac_client_add_user` puts it into the list
  (`client.c:316`), and what is sent in between never reaches it. TLC finds: a
  drawing, the dup, a rectangle that is sent at once, the user is listed.
- `guac_common_surface_blend_component` (`surface.c:915`) multiplies the
  destination by `0xFF - alpha` and does not divide by 0xFF, where its comment
  asks for the "over" operator: nearly every blended component is 0xFF. Users and
  buffer agree on it, since drawings are sent from the buffer.

### The broadcast socket

- **`InstructionsWhole`** (`Broadcast.cfg`). The comment at
  `socket-broadcast.c:237` takes the locks of all users' sockets "to ensure that
  parallel writes are only interleaved at instruction boundaries". Those locks
  are empty functions for a shared-memory socket (`S:3102`), and what is written
  to one user directly does not take the lock of the broadcast socket: a user
  gets a part of one instruction within another. It also gets the rest of an
  instruction without its beginning, when it comes in the middle of one.
- **`WritesEndForOthers`**. A client that went away leaves a full ring, which
  `guac_socket_write` tries for ever (`socket.c`), with the lock of the
  users, of the socket and possibly `rdp_lock`, so that every other user waits.
  It does not end: the removal of the user, which would take it off the list,
  waits for the iteration (where the lock does not keep it out, the iteration
  goes on with a user that is freed, `NoFreedUser`).

### The RDP session and input

- **`NoFault`** (`RdpSession.cfg`). `guac_rdp_user_key_handler` uses the keyboard,
  the size handler the instance, which it brings to where it has the lock
  (`rdp_disp.c:158`), and users that join the display, all
  read without `rdp_lock`, while the session that has them may end, or has yet to
  make them. `rdp.h:165` says the lock is for "each part of the RDP client
  instance which may be dynamically freed and reallocated during reconnection".
- **`PrerequisitesHeld`** and **`KeysRestored`** with a second user,
  `Users = {u1, u2}`. The keyboard has no lock of its own, and
  `rdp_lock` is released between the events of one keysym: two users
  that type at a time change the modifiers under each other.
- **`SynchronizedIsSent`**. `synchronized` is set when the event was skipped
  because there is no session yet, and the server never gets the locks.
  `keyboard.h:46` says "whether the states of remote lock keys have been
  synchronized".
- The locks of `PrerequisitesHeld` and `KeysRestored` once a lock key was pressed twice
  without a release (drop `~repeated`): `keyboard.c:423` toggles `lock_flags` at every press,
  and the session, where the key is down, does not. `keyboard.c:420` takes any event for a
  change of the lock.
- **`AnySizeFits`** in `RdpSession.cfg` with `Plans <- Halved`. Sizes come from the client as they are; `input.c:158`
  scales them, which may leave 0, and `rdp_disp.c:96` divides by the dimension that is too
  small. A negative one is fitted to a negative size, and large ones overflow. The
  comment at `rdp_disp.c:77` says "Fits a given dimension within the allowed bounds for
  Display Update messages".
- With no resize method, which is the default (`rdp_settings.c:738`), a size that is
  asked for is stored and nothing follows (`rdp_disp.c:164` and `:175`). `ResizeDone`
  speaks of "reconnect".
- **`DeferredSent`**. A size asked for too soon after another is meant to be asked
  for by the loop of the client thread, where the call is commented out
  (`rdp.c:763`). The user has to resize again.
- A connection that fails, or that the server closes, ends the thread with
  instance, keyboard and display allocated (`ConnectFails`, `ServerCloses`).

### RDP drawing

- **`BoundsKept`** (`RdpDrawing.cfg`). `rdp_gdi.h:118` says "those
  updates are clipped by a bounding rectangle", but the clip is set on the
  default surface only: an order on a bitmap is drawn outside of its bounds.
- `guac_rdp_gdi_scrblt` copies whatever the raster operation of the order is;
  `patblt` and operations that `rdp_gdi.c` does not know are approximated by the
  code and left out here. Operations that invert also invert what stands for
  opacity, so a pixel can become transparent.

## What is not modelled

- The other implementations of the shared-memory socket, which the preprocessor
  leaves out, and `GuacClientProcessSocketedHandler`, which nothing creates.
- What undefined behaviour does: a behaviour ends with the fault. The join of a
  `boost::thread` that is deleted meanwhile is taken to end.
- The search of `RemoveUser` over the vector is one step; in the code it can
  meet an erase as well.
- The keep-alive thread and `guac_socket_nest`, which nothing starts or opens;
  flushing the broadcast socket.
- The end of the whole service (`CloseConnections`). The death of a ring's reader
  while a writer has no room, but for the command ring (`Sessions`) and a client that
  goes (`Broadcast`).
- The picture of the cursor, which has no lock: `guac_common_cursor_dup` reads
  its surface while the plugin's thread replaces it. Position and opacity of layers
  (`guac_common_surface_move`, `_stack`, `_set_parent`, `_set_opacity`), which
  nothing calls; how often a part of a surface changes.
- Code that cannot run in this build: the channels for sound, audio input,
  clipboard and redirected devices are loaded by calls that are commented out
  (`rdp.c:239`, `rdp.c:255`), and the redirected drive is switched off
  (`rdp.c:975`); with them go `rdp_fs.c`, the printer, `guacdr`, `guacsnd`,
  `audio_input`, input streams and objects that feed them. Of the display update channel
  only the message to the server is modelled.
- Keysyms without a mapping, which are sent as characters and leave no state, and
  the wheel, a press without a release.
- Data: colours, sound, encodings, texts, settings. Calls of cairo, libpng,
  libjpeg, libwebp, FreeRDP and the network. `src/dependencies` is other people's
  code.
- The components that `PROJECT.json` lists as not modelled.

## The plan

In this order, by how much depends on a part and how hard it is to test.

1. `ShmQueue`, `Layers`, `Streams`, `ClientUsers`, `Sessions`, `ClientProcess`,
   `Parser`, `Display`, `Broadcast`, `Keyboard`, `RdpSession`, `RdpDrawing`: done,
   with the proofs of the ring, the pools, the users of a client, the service, the
   parser, the client process, the broadcast socket, the display, the session and the
   drawing.
2. `CloseConnections` in `Sessions`.
3. The picture of the cursor next to users that come and leave.
4. Static virtual channels: what a user's pipe sends and what the server sends.

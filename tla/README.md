# armature-websocket in TLA+

Specifications of the concurrent core of `armature-websocket` (a WebSocket
server and client for tokio), their model-checking configurations for TLC, and
proofs for TLAPS. Source references are to `src/src/`.

## The system

| Component | State | Operations | Talks to |
|---|---|---|---|
| **Connection handle** (`connection.rs:33-168`) | `state` behind an `RwLock`, a bounded mpsc sender, the `evict` Notify; all shared by every clone | `send`, `close`, `evict`, `set_state` | the writer (queue), the read loop (Notify) |
| **Connection writer** (`connection.rs:170-214`) | the queue's receiver, the sink | `run` | the peer; the queue |
| **Connection task** (`server.rs:419-587`) | `missed_heartbeats`, `last_read`, the writer's JoinHandle | registration, read loop (`select!` over heartbeat, eviction, idle deadline, frames), teardown | handler callbacks, handle, writer, RoomManager |
| **RoomManager / Room** (`room.rs`) | three DashMaps: `rooms` (to `Arc<Room>`), `connection_rooms`, `connections`; a member map in each room | register, unregister, create, join, leave, delete, three broadcasts, queries | connection handles |
| **Server** (`server.rs:257-416`) | the semaphore of connection slots | accept loop, handshake with timeout | origin policy, authorizer, connection tasks |
| **Client** (`client.rs`) | `closed` flag, unbounded outgoing and bounded incoming queue | connect, send, recv, close; reader and writer tasks | the server |
| **Auth** (`auth.rs`) | none | `OriginPolicy::check`, authorizer | handshake |
| **Message** (`message.rs`) | none | conversions from and to tungstenite | writer, reader |
| **Configuration** (`server.rs:40-254`) | the builder's fields | setters, `build`, `new`, `validate` | the server and its connection tasks |
| **Errors, handler trait, crate root** | none | callbacks, re-exports | all |

What makes it hard:

- clones of one handle are used by any number of tasks, and `send`, `close` and
  `evict` are several accesses to three separately synchronised pieces of state;
- the queue is bounded, so the request to close may find it full; the writer may
  die or hang in a write while the read loop goes on;
- the read loop learns of a close request only through its `select!` branches;
- the heartbeat must find out silent peers and must not close live ones;
- every RoomManager operation is several accesses to several DashMaps, and
  `Arc<Room>`s outlive their entry in the map;
- a broadcast walks a member map while others change it, holding guards of two
  or three maps while it takes the locks of the connections;
- a callback may panic, or take longer than every timer of the loop that waits
  for it;
- the client has no timeout: its reader relies on the server to end a session.

What makes each component correct:

- *handle*: a close request is never lost; the queue is bounded; a message
  accepted after the close is an exception that cannot repeat;
- *writer*: nothing after the Close frame; it ends after the teardown;
- *connection task*: it ends when the connection is closed, evicted, dead or
  silent, and the heartbeat's verdict is justified;
- *RoomManager*: a membership lasts until it is ended; nothing remains of a
  connection that is unregistered, nor of a room that is empty;
- *broadcast*: copies to members only, and to all that stay; no standstill;
- *server*: a slot is held exactly as long as its task; nobody is served
  without the principal of its own request; a stalled handshake ends;
- *client*: at most one Close frame; inbound messages are neither lost nor
  unbounded; `is_closed` becomes true when the connection ends; a close or drop
  ends both tasks;
- *configuration*: what `validate` lets pass is within the limits of what is
  made from it, and the warnings are true.

## Modules

### `Connection`

The handle, as a set `Callers` of tasks executes calls on it. `call[c]` is the
program counter of task `c`: between two calls it is the result of the last one.

| Code | Action |
|---|---|
| `send`: `is_open()` | `SendBegin` |
| `send`: `try_send(message)`, full, closed | `SendTry` |
| `evict`: the state | `EvictMark` |
| `close`: the state | `CloseMark` |
| `close`: `try_send(Message::close())` | `CloseTry` |
| `notify_one()` in both | `Notify` |

The `RwLock` is held only for one read or write, so each is one action. The
`Notify` has at most one waiter (the read loop), and a notification given to a
waiter whose `select!` takes another branch becomes a permit again: `permit` is
exact. Messages are abstracted to what the writer tells apart: a Close frame, a
text whose payload is not UTF-8 (dropped at `connection.rs:194`), anything else.

### `ServerConnection` (extends `Connection`)

One connection from `register_connection` to the end of `handle_connection`,
with its writer and with `Senders`, the other holders of a clone. `task` is the
program counter of `handle_connection`; every `await` is a location, so that
everything may happen in between. A clone outlives the connection, so senders
send and close for ever. While the task is inside `send` or `close` it is one of
the `Callers`.

Time is abstract: `Tick`, `Idle` and `CloseTimeout` may happen whenever the code
waits for them. The peer may send any frame, end the stream or fail at any time,
until `PeerSilent`. Writes may succeed, fail or never return.

`pings`, `wire` and `late` are history variables, read by properties only.

### `RoomManager` and `Membership`

`RoomManager` executes the operations of `room.rs` access by access. A guard
held across an access to another map (`rooms.get(..)` around `room.leave(..)`)
makes one action of the two, and so does `remove_if`; nothing else is atomic.
Room objects have an identity (`Objs`), since a thread can hold an `Arc` of a
room that is no longer in the map, and are reused when nothing refers to them.
The members of a room being deleted are scanned one by one
(`DeleteScan`), as `members()` walks the shards of a map others may change.
`pc` and `arg` are program counter and operands of each thread. Connection ids
are UUIDs, so a connection is registered once.

Each connection has its own task, as in `handle_connection`: `Register`,
joins and leaves from callbacks, `UnregisterTake` .. `UnregisterDone`. `Admins`
are other holders of the `Arc<RoomManager>` (`server.rs:307`), which may use the
operations in `AdminOps` on any connection at any time.

`Membership` is the abstract specification, when each connection's own task makes
its calls: the pairs <<connection, room>> a broadcast would visit, and the call
each task is in (`doing`). A pair is added or taken away only in a step of a call
of that very connection; the clean-up at the end of a leave (`CleanUp`) can take
away nothing, but an empty room's clean-up makes joins under way ineffective
(`JoinLost`). `RoomManager` maps to it its `connections`, the members of the rooms
*in the map* (`Visited`) and the location of each task (`Doing`), where a join
whose object is no longer its room's is orphaned.

### `Broadcast` (extends `RoomManager`)

The three broadcasts among the operations of `RoomManager`, all of which appear
in its `Manager` step. `BcastBegin` is `rooms.get`, `BcastVisit` comes to one
connection, which is no recipient, takes a copy or refuses one, and `BcastEnd`
returns the count. The guard of the room's entry lives to the end of the
broadcast (`room.rs:186`), so `Manager` takes no step that would write the entry.
The order of the visit is any order, as that of shards. `steady` is history.

### `RoomLocks`

The same operations, and `send` and `evict`, as sequences of locks taken and
dropped (`Script`). Each DashMap is one lock, the worst case, in which all keys
share a shard; a waiting writer may hold up new readers.

### `Client`, `Stream`, `Session`

| Code | Action of `Client` |
|---|---|
| `connect_with_config` | `Connect`, `ConnectFails` |
| `send`: `closed.load`, then `tx.send` | `SendBegin`, `SendQueue` |
| `close`: `compare_exchange`, then the Close frame | `CloseFlag`, `CloseQueue` |
| `recv`, `try_recv` | `Recv`, `RecvEnd` |
| `drop` and the drop of the fields | `DropBegin`, `DropEnd` |
| writer task: `rx.recv`, `write.send`, `write.close`, `closed.store` | `WriterRecv`, `WriterDrained`, `WriterWrote`, `WriterFails`, `WriterSinkClosed`, `WriterStore` |
| reader task: `read.next`, `tx.send`, `closed.store`, return | `ReadFrame`, `ReadClose`, `ReadEnd`, `ReaderQueue`, `ReaderRefused`, `ReaderStore`, `ReaderDrop` |

In `Client` the server may send, close, end the stream or fail at any time.
`Stream` is the abstract specification of what `recv` returns. `Session` joins
the client to the server's task by two channels, which may break with all that
is in transit; the server is what `ServerConnection` shows of it: it reads until
a Close or a verdict of its own, then closes or is aborted. A write of the client
waits while the way to the server is full (`CanWrite`), for ever if need be, and
fails only when the connection has ended, there being no limit on what is sent;
so does the Close of `write.close()`, whose error is ignored. A frame may be too
large or malformed for the reader, which then ends by itself.

### `Server`, `OriginPolicy`

`task[p]` is where TCP connection `p` stands: the accept loop (`Arrive`,
`Accept`), the handshake (`Callback`, `CallbackPanics`, `HandshakeOver`,
`Upgraded`) and the life of its connection task as far as slots, registrations
and writers go (`OnConnect` .. `OnDisconnect`, `HandlerPanics`). `slot` is the
variable through which the upgrade callback hands over the principal.
`Panics` names the callbacks that may panic. `OriginPolicy` has `check` over
lists of Origin headers; an origin is a site and the way it is spelt.

### `ServerBuilder`

The builder's calls in any order, `WebSocketServer::new` with any configuration,
`validate` and the warnings (`FromParts`). `SemaphoreOk`, `WriterOk` and the like
are what constructors called later assert of the configuration.

### `HeartbeatTiming`

The read loop against discrete time: `Heartbeat`, `IdleTimeout`, `Read` with its
callback, the frames and pongs of the peer, `Pass`. The loop takes no time, so
time passes only in callbacks and while no branch is ready. Missed ticks are
delivered in a burst, tokio's default. `set` is one of `Settings` for a whole
behaviour. Sends that fail, evictions and closes are in `ServerConnection`.

### The `MC` modules

Sets of model values, settings and symmetries for the `.cfg` files.

### The `Proofs` modules

`ServerConnectionProofs`, `RoomManagerProofs`, `BroadcastProofs` (extends
`RoomManagerProofs`), `RoomLocksProofs`, `ClientProofs` (extends `Session`),
`ServerProofs`, `HeartbeatTimingProofs` and `ServerBuilderProofs`: see below.

## Runs

| Run | Checks | Bounds |
|---|---|---|
| `connection` | `TypeOK` (with the queue bound), `CloseRequestNotLost`, `LateOnce`, `NothingAfterClose`, `HeartbeatVerdict`, `EvictionTornDown`, `ClosingTornDown`, `SilentPeerDetected`, `TeardownStopsWriter` | 1 sender, capacity 1, verdict after 2 pings |
| `rooms_promise` | `MemberIndexed`, `Membership` (refinement) | 2 connections, 2 rooms |
| `rooms_admin` | `TypeOK`, `IndexWithinConnections`, `NoEmptyRoomLeak`, `OnlyLeaversLeave` | 2 connections, 1 room, 1 admin with every operation |
| `rooms_orphan` | violation: `IndexedReachable` | 2 connections, 1 room |
| `broadcast` | `AllMembersOffered`, `OnlyMembersGet` | 2 connections, 1 room, 1 broadcast |
| `locks` | `NoStandstill` | any 4 calls |
| `client` | `TypeOK` (with the inbound bound), `OneClose`, `LateOnce`, `EndImpliesClosed`, `InboundStream` (refinement) | 2 callers, inbound queue of 1, 3 inbound messages |
| `session` | `CloseEndsSession`, `ServerCloseShows`, `CloseEndsWriter`, `DropFreesReader` | 1 caller, 1 frame in transit each way |
| `server` | `TypeOK`, `SlotsExact`, `Admission`, `OriginsEnforced`, `HandshakeReturnsSlot`, `AcceptPrompt` | 3 peers, 2 slots, every callback may panic |
| `server_overrun` | violation: `ConnectionsBounded` | 3 peers, 2 slots, `on_message` may panic |
| `builder` | `Startable`, `WarningsTrue` | each size below, at and above its bounds |
| `timing` | `TypeOK`, `ResponsivePeerKept`, `DetectedInTime`, `IdleJustified`, `NoEarlyVerdict` | 6 settings, 2 frames unread |

Why the bounds are enough.

- *connection*. The code compares the queue's length only with its capacity.
  With one place and the message in the writer's hand a frame can stand before
  and behind a Close, and two Closes behind each other; sender and connection
  task can each stand in a different call. The heartbeat counter is compared
  only with its bound, and with two it is raised, reset and exceeded. The safety
  properties are proved for every number of senders and every capacity.
- *rooms*. A race needs one connection on each side of a room's life: one holds
  the `Arc` while the other deserts the room and makes it anew. The second room
  gives `unregister_connection` a loop to be interrupted in. `Objs` has an object
  for each room and each thread, so `create_room` is never blocked
  (`ObjsAssumption`).
- *broadcast*. One recipient on each side of the visit. Broadcasts only read, so
  a second one adds nothing to what the first meets. Rooms deleted by an admin
  stay out of this run for its size; `Broadcast` allows them.
- *locks*. A cycle of waiting tasks goes through different locks, of which there
  are five; no call takes a lock while it holds one of `state` or `connections`,
  except `state` itself, so four calls close any cycle among the rest.
- *client, session*. Two callers are in different calls at the same time. An
  inbound queue of one is full after one message, and three messages make one
  queued, one in the reader's hand and one behind. `MaxOut` bounds when a send
  begins, `MaxFrames` what the server sends, `MaxTransit` what is on its way.
- *server*. Two slots and three peers: at capacity one arrives. A peer has one
  connection at a time; which peer is which matters to nothing.
- *builder*. Values are compared only with bounds; sizes are scaled with their
  order kept (`WriteBufferSize`, `MaxPermits`, `MaxInstant`).
- *timing*. A pong one unit before the verdict, one unit before the idle
  deadline, the proportions of the defaults (timeout twice the interval), a
  callback one unit shorter than the timeout, a pong after the verdict, and a
  callback longer than the deadline. `MaxTicks` is one more than a verdict takes;
  time stands still beyond. The properties are proved for all settings.

Deadlock is not checked where the system really may stop: all connections
unregistered (`rooms_promise`, `rooms_orphan`, `broadcast`), all calls made
(`locks`), client dropped or never connected (`client`, `session`), server built
or refused (`builder`), verdict reached (`timing`), every peer left with a
registration or a writer after panics (`server`).

### What the properties say

- `CloseRequestNotLost`: as long as the connection is served and has left
  `Open`, something that ends the read loop is on the way: a permit, a call
  about to give one or to queue the Close frame, the frame in the queue or in
  the writer's hand, or a writer that has ended.
- `LateOnce` (of both ends): a message can be queued past the close, but by each
  task only once.
- `NothingAfterClose`: no frame follows a Close frame on the wire.
- `HeartbeatVerdict`: the tick that closes comes after exactly `MaxMissed`
  queued pings without a frame in between.
- `EvictionTornDown`, `ClosingTornDown`, `SilentPeerDetected`,
  `TeardownStopsWriter`: the connection task and its writer end.
- `MemberIndexed`: what a broadcast visits, `unregister_connection` will find.
- `Membership`: a connection joins only while registered, a membership ends only
  at the first step of its own leave or in its own unregistration, a clean-up ends
  none and loses a join only if it finds the room empty, and an unregistered
  connection is a member of nothing.
- `OnlyLeaversLeave`: even with admins, a membership ends only by a
  `leave_room` or `delete_room` of that room or by the connection's own
  unregistration, never by the clean-up of empty rooms.
- `IndexWithinConnections`, `NoEmptyRoomLeak`: nothing is left behind in the
  maps. `create_room` called by the application makes an empty room on purpose,
  and is not one of the admin's operations.
- `OnlyMembersGet`: a copy goes only to a connection that is registered and in
  the room of that id at this moment. The guard held by `broadcast_to_room` is
  what keeps a room from being removed and made anew under the visit.
- `AllMembersOffered`: whoever is a recipient from start to end is offered a
  copy, and the count is that of the copies taken.
- `NoStandstill`: the calls never all wait for each other.
- `OneClose`: one Close frame of the client, nothing behind it.
- `InboundStream`: `recv` yields what was read, in order, and `None` only after
  all of it; `EndImpliesClosed`: by then `is_closed()` is true.
- `CloseEndsSession`, `CloseEndsWriter`, `DropFreesReader`: a close or drop ends
  the client's tasks; the reader only because the server answers, and the writer
  only because the server reads or the connection ends.
- `ServerCloseShows`: an end becomes visible in `is_closed()`, provided the
  application receives.
- `SlotsExact`: free slots and tasks always add up, however tasks end.
- `Admission`, `OriginsEnforced`: who is served, and as whom.
- `HandshakeReturnsSlot`, `AcceptPrompt`: no peer keeps a slot by stalling in the
  handshake, and the accept loop never waits for one.
- `Startable`, `WarningsTrue`: what the builder lets pass is within the limits of
  the semaphore and the write buffer. It does not follow that connection tasks can
  run (see `BuiltServes` below).
- `ResponsivePeerKept`, `NoEarlyVerdict`: with prompt callbacks the heartbeat
  closes only silent peers, or one whose frame comes at the very instant of the
  verdict and loses the `select!` (`quiet = 0`); `IdleJustified`: the idle
  deadline does as long as each callback is shorter than it; `DetectedInTime`:
  neither timer starves the other. A silent peer may have left `MaxUnread` frames
  to be read, each with its callback, and a callback longer than both timers
  outlasts them: `Limit` counts both.

`MemberIndexed` and `Membership` hold while each connection's joins and leaves
are made by its own task and nobody deletes rooms; with an admin that joins,
leaves or deletes they do not.

### Disagreements between code and text

Shown by a run:

- **A joined connection may be in no room** (`rooms_orphan`). Between
  `create_room` and `room.join` any `leave_room` or `unregister_connection`
  that touches the room removes it, empty as it still is. The join succeeds on an
  orphaned object. `remove_if` closes the race it is commented with
  (`room.rs:110`, `room.rs:178`), not this one.
- **More connections than `max_connections`** (`server_overrun`). A panic in a
  callback frees the slot, but the connection stays registered, and its writer,
  detached, keeps the socket open. `server.rs:49` calls it the maximum number of
  concurrent connections.

Seen by adding the statement to a run, as indicated:

- **`Closed` is not terminal** (`ClosedIsTerminal` in `ServerConnection.cfg`).
  `close` and `evict` overwrite the state, so a surviving clone moves a closed
  connection to `Closing`; `server.rs:575` calls `Closed` the terminal state.
- **`Closed` does not mean that the writer has terminated**
  (`ClosedMeansWriterDone` in `ServerConnection.cfg`). After `abort()` nobody
  awaits the writer; `server.rs:571` says it has terminated.
- **An unregistered connection may remain a member for ever** (`GoneNowhere` in
  `RoomManager_admin.cfg`): when a join by another task overlaps
  `unregister_connection` (`AdminOps = {"join"}`), or when `delete_room` overlaps
  the connection's joining the room anew (`AdminOps = {"delete"}`, deadlock not
  checked); `room.rs:103` promises its removal from all rooms. A `leave_room` by
  another task that overlaps a join has the same effect.
- **A callback of `for_each_member` may not touch every other map** (`Calls =
  {"visit", "leave"}` in `RoomLocks.cfg`). One that creates a room and a
  `leave_room` wait for each other for ever; `room.rs:68` says it "may freely
  touch other maps".
- **`is_closed()` may stay false after the server closed** (`ServerCloseShows`
  without `Receiving`). The Close passes through the bounded inbound queue before
  the flag is set; `client.rs:255` says it reflects reality.
- **`close()` may close nothing** (`ClosedEndsSession` in `Session.cfg`). When the
  reader has failed on a frame it has set the flag, so `close()` queues no Close
  and the session goes on until the client is dropped; `client.rs:325` says
  "Close the connection".
- **`.authorizer(AllowAnonymous)` does not warn** (`AnonymousWarned` in
  `ServerBuilder.cfg`); `auth.rs:160` says that the server does.
- **`build` accepts what makes every connection task panic** (`BuiltServes` in
  `ServerBuilder.cfg`): a `heartbeat_interval` of zero, an
  `outbound_queue_capacity` above `Semaphore::MAX_PERMITS`, a
  `connection_timeout` no instant can hold; `server.rs:242` says it fails if the
  configuration is invalid.
- **A peer that answers at once may be closed** (`ResponsivePeerKept` without
  `set.callback = 0`, and a callback of four intervals): the missed ticks arrive
  together; `server.rs:364` speaks of tolerance for scheduling jitter.
- **The idle deadline may win over a frame that waits** (`IdleJustified` for a
  callback as long as `connection_timeout`); `server.rs:474` speaks of genuine
  read inactivity.

## Fairness

`ServerConnection.FairSpec` assumes what the runtime and the code give:

- weak fairness of the connection task's own steps (`TaskProgress`): tokio
  schedules a task that can run, calls on the handle never wait, and the
  callbacks are assumed to return;
- weak fairness of each sender inside a call, of `CloseTimeout`, and of an
  aborted writer's cancellation;
- strong fairness of `Evicted`: `select!` polls its branches in random order,
  so a branch that is ready at infinitely many polls is taken.

`ClosingTornDown` and `SilentPeerDetected` are stated under `HeartbeatTicks`, the
strong fairness of `Tick`, the interval being unconditional. Nothing is assumed
of the peer, of the network (so not of the writer's writes), or of the idle
deadline. `EvictionTornDown` does without the heartbeat, because
`heartbeat_interval` may be arbitrarily long.

`Session.SSpec` assumes that calls and drops run to their end and that the runtime
schedules the client's two tasks: a write that can be made is made, what has
arrived is read. A write to a server that does not read need never end, since
`client.rs:237` and `client.rs:246` await without a timeout; `CloseEndsWriter` is
stated under `WaysClear`, that the way to the server is free again and again or
the connection ends, and does not hold without. `CloseEndsSession` and `ServerCloseShows` add
`Receiving`, strong fairness of `recv` (it is disabled while another call runs,
which needs the client exclusively), and the first adds `ServerWorks`: a server
that goes on reading and ends what it began to close, as `close_timeout` makes
it. `Server.FairSpec` assumes that the accept loop runs and that
`handshake_timeout` elapses, nothing of peers and callbacks.

## Proofs

`ServerConnectionProofs` proves, for any set of senders, any
`outbound_queue_capacity` above zero (`CapacityAssumption`, enforced by
`validate`, `server.rs:92`) and any positive bound on missed heartbeats
(`MaxMissedAssumption`):

| Theorem | Property |
|---|---|
| `TypeCorrect` | `TypeOK` |
| `WireCorrect` | `NothingAfterClose` |
| `LateCorrect` | `LateOnce` |
| `CloseRequestCorrect` | `CloseRequestNotLost` |
| `VerdictCorrect` | `HeartbeatVerdict` |

`TypeOK` is not inductive: that `missed` stays in its range depends on where the
task is. `Base` adds what the task, the writer and the heartbeat know of each
other: no writer before `on_connect` returns and no abort while serving
(`TaskInv`), a message in the writer's hand only while it writes and a Close
frame on the wire only once it has left its loop (`WriterInv`), and `missed`
equal to the pings queued, except while one is being queued (`HeartbeatInv`).
`Base` is inductive. `LateOnce` is inductive given the types, and
`CloseRequestNotLost` given `Base`: `CallKeepsWakeup` follows the wakeup through
the callers, `WriterKeepsWakeup` through the writer, and `ServingStep` says
that the teardown is not left. `VerdictCorrect` reads the verdict off `Base`.

`RoomManagerProofs` proves, for any sets of connections, rooms and objects:

| Theorem | Property | Admins |
|---|---|---|
| `TypeCorrect` | `TypeOK` | any, with any operations |
| `IndexCorrect` | `IndexWithinConnections` | any, with any operations |
| `EmptyRoomsGo` | `NoEmptyRoomLeak` | any, with any operations |
| `LeaversCorrect` | `OnlyLeaversLeave` | any, with any operations |
| `MemberCorrect` | `MemberIndexed` | none |
| `PromiseKept` | `Membership` (refinement) | none |

`Admins = {}` is a hypothesis of the last two and not a convenience: with an
admin that joins or deletes both fail (see the disagreements). Again
`TypeOK` is not inductive by itself: `Base` adds the operands each operation has
by its location (`ArgInv`) and what the maps know of a connection by the
location of its own task (`LifeInv`), which gives `IndexWithinConnections`.
`MemberIndexed` speaks of tasks between two operations only; `MemberInv` says,
at every location, why the connection's own task will still find that it is in
the room: the index has it, the join is about to record it, or it is in the list
of the unregistration. That a leave ends one membership and no other needs
`ObjInv`, that no object is the room of two ids, which rests on objects not being
reused while a task holds them. With each task working on its own, indexed
connection (`OwnInv`), `Own` is inductive, and one lemma per action says what
the step does to the memberships (`Silent`, `Joins`, `Leaves`). A second lemma per
action maps it to the step of `Membership` for its call, or to a stutter
(`PromiseStep`). The one that matters is `CleanUpPromise`: a clean-up that changes
anybody else's call has removed a room without members, and the calls it changes
are joins that hold the room's object.

`NoEmptyRoomLeak` speaks of moments at which every operation has returned;
`Tended` says at every moment that an empty room has a thread that is about to
put a member into it or to look whether it is empty (`Tends`). It is inductive
with `Unshared`, the part of `ObjInv` that needs no tasks of their own, and the
same case split gives `OnlyLeaversLeave`: only `LeaveMember`, `UnregisterLeave` and
`DeleteTake` take a mapped member away (`Accounted`).

`BroadcastProofs` proves, for any number of broadcasts among any operations of
any admins:

| Theorem | Property |
|---|---|
| `OfferedCorrect` | `AllMembersOffered` |
| `RecipientsCorrect` | `OnlyMembersGet` |

The guard of the room's entry is what the proofs rest on: `HeldInv` says that the
object a broadcast visits is that of its room all the while. Then a steady
recipient is still a recipient when the visit comes to it (`SteadyInv`), and
nobody is come to twice (`CountInv`). `Base` of `RoomManagerProofs` is kept by a
`Manager` step, as one of its own, and gives the types.

`RoomLocksProofs` proves `NoStandstill` (`StandstillCorrect`) for any set of
tasks. Its hypothesis, `Calls \subseteq DOMAIN Script \ {"visit"}`, leaves out the
application's callback of `for_each_member`, with which the property fails (see the
disagreements). The locks have an order (`Rank`: rooms, members, connections,
state; index is held alone). `Proper` says of a sequence that it takes a lock only
while what it holds comes before it, and that it drops what it takes; it is
composed as the calls are, by `ConcatProper` and `InProper`, down to
`ScriptProper`. `OrderInv` says the same of what each task has left to do and
holds. Of the locks somebody waits for, nobody then holds the last, so whoever
waits for it to write, or else to read, is not stuck (`OrderSuffices`).

`ClientProofs` proves, for any set of callers, any `inbound_queue_capacity` above
zero (`InboundAssumption`, enforced by the client's builder) and any `MaxOut` and
`MaxFrames`, so without the bounds TLC needs:

| Theorem | Property |
|---|---|
| `TypeCorrect` | `TypeOK` |
| `CloseCorrect` | `OneClose` |
| `EndCorrect` | `EndImpliesClosed` |
| `LateCorrect` | `LateOnce` |
| `StreamCorrect` | `InboundStream` (refinement) |
| `SessionImplements` | `SSpec => Spec` |

`OneClose` needs to know who is about to queue the Close frame: the one winner of
the `compare_exchange`, which found the flag clear (`CloseInv`), and that the
writer leaves its loop with a Close (`WireInv`). `EndImpliesClosed` needs that the
reader sets the flag before it gives up the queue (`ReaderInv`). The refinement
rests on `InboundInv`: what has been read is what was received, then what is
queued, then what the reader has in its hand. `SessionImplements` carries all of
it over to a client whose socket is joined to the server's task
(`SessionCorrect`).

`ServerProofs` proves, for any set of peers, any `max_connections`, any policy and
any callbacks that panic:

| Theorem | Property |
|---|---|
| `TypeCorrect` | `TypeOK` |
| `SlotsCorrect` | `SlotsExact` |
| `TasksBounded` | no more tasks than slots |
| `AdmissionCorrect` | `Admission` |
| `OriginsCorrect` | `OriginsEnforced` |

`TypeOK` is not inductive here either: a permit given back could exceed
`max_connections` if no task had taken it, so it is proved together with
`SlotsExact`. The peers need not be finitely many: that the tasks are is part of
`SlotsInv`. `PrincipalInv` follows the principal from the handshake's own slot to
the connection, `OriginsInv` the verdict on the request.
`OriginsAssumption` says what a policy is and that requests without an Origin
header are among those looked at.

`HeartbeatTimingProofs` proves, for all intervals, timeouts, round trips and
callbacks, any bound on missed heartbeats and any number of unread frames:

| Theorem | Property |
|---|---|
| `TypeCorrect` | `TypeOK` |
| `VerdictCorrect` | `NoEarlyVerdict` |
| `IdleCorrect` | `IdleJustified` |
| `DetectionCorrect` | `DetectedInTime` |
| `ResponsiveCorrect` | `ResponsivePeerKept` |

None of the properties is inductive: a tick changes a counter, and time a timer.
The invariants relate timers and counters so that each step moves both sides
alike: the ticks since the last frame have taken their intervals (`PromptInv`);
what is left of the deadline and what has passed of it add up (`IdleInv`); the
backlog shrinks by a callback with each read, then ticks and deadline run down
(`SilentInv`); what a live peer owes runs down ahead of the verdicts
(`AliveInv`). The products of intervals are kept from the prover by `Product`.

`ServerBuilderProofs` proves `Startable` (`StartCorrect`) and `WarningsTrue`
(`WarningsCorrect`) for any `WriteBufferSize`, `MaxPermits` and `MaxInstant`, from
`BuilderInv`: the flag is that of the authorizer chosen last, and what is built has
passed `validate`.

Only model-checked are the liveness properties, out of the prover's reach:
`EvictionTornDown`, `ClosingTornDown`, `SilentPeerDetected`, `TeardownStopsWriter`,
the four of `Session`, `HandshakeReturnsSlot` and `AcceptPrompt`. Every invariant
and action property of a passing run, and both refinements, are proved.

## Not modelled

- `create_room` called by the application and the `Room` objects it may hold:
  they bypass the RoomManager's index on purpose. The queries, which change
  nothing.
- Payloads, JSON and the conversions of `message.rs` beyond what the writers tell
  apart (a Close, a text that is not UTF-8, anything else): payloads pass through
  unread.
- The setters of the client's builder, plain assignments without validation
  except `inbound_queue_capacity` (`InboundAssumption`).
- A peer that vanishes without the TCP connection ending: the client has no
  timer of its own, so there is nothing it could do; the server's two timers are
  in `HeartbeatTiming`.
- The logging handler, error types, crate root, CI and hooks: no behaviour.
- The WebSocket protocol inside tungstenite, TLS and TCP: their outcomes are the
  peer's and the network's choices.

## Plan

1. `Connection`, `ServerConnection`, `RoomManager`, `Membership` and their
   proofs: done.
2. `Broadcast`, `RoomLocks`, `Client`, `Stream`, `Session`, `OriginPolicy`,
   `Server`, `ServerBuilder`, `HeartbeatTiming`: done.
3. Proofs of every invariant, action property and refinement of the passing
   runs, for all constants: done.
4. What may follow: the frames of `Session` in transit (nothing behind a Close in
   either direction, and one Close at most), `max_connections` as a bound on
   registrations when no callback panics, and lemmas about `OriginPolicy`.

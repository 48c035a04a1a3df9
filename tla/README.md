# LiveShare Lite: TLA+ models and proofs

LiveShare Lite lets several VS Code windows edit one text. Every window holds
a replicated text (a CRDT, `crates/crdt-core`); edits become operations that
travel over a relay server or over peer-to-peer data channels. This directory
holds models of those parts, the TLC runs that check them and proofs about them.

Contents: [inventory](#inventory), [modules](#modules), [runs](#runs),
[findings](#findings), [proofs](#proofs), [limits](#limits), [plan](#plan).

## Inventory

| Part | State | Operations | Interaction | What makes it correct |
|---|---|---|---|---|
| CRDT core (`text_crdt.rs`, `id.rs`, `operation.rs`, `snapshot.rs`) | counter, elements with tombstones, children index, seen ids, two pending buffers | `insert`, `delete`, `apply_operation` (with `drain_pending`), `snapshot`, `from_snapshot` | called by the session manager through WebAssembly | same operations seen, same state; nothing seen is lost; ids never reused; replicas agree on the order of characters |
| Operation log (`operation_log.rs`) | list of operations, set of ids | `append` | one per relay room | no id twice, order of arrival |
| Relay server (`server.rs`, `room.rs`) | rooms: peers (client to sender) and log; `joined_room` per connection | join, operation, close | one task per connection, one lock around the rooms, an outbound queue per connection | a joined connection gets the log once and without gaps; a replaced connection neither writes nor removes its successor |
| Relay transport (`relayTransport.ts`) | socket, `disposed` | `connect`, `close`, `sendOperation`, callbacks | between session manager and server | what is reported as sent arrives |
| Session manager (`sessionManager.ts`) | session, transport, CRDT, `syncReady`, `seedSent`, offline queue, reconnect timer, render queue, shadow text, snapshot bookkeeping | connect, leave, transport callbacks, document changes, timer | owns the CRDT and the transport; callbacks run between its awaits | no edit lost, connected clients agree, no edit before the log, one session at a time |
| Document adapter (`documentAdapter.ts`) | none | changes to operations, apply changes, replace text | session manager and VS Code | document, shadow text and CRDT agree when nothing is going on |
| Signaling server | rooms, peers | join, signal, close | like the relay, per connection | signals reach the current connection of their target |
| P2P mesh transport (`p2pMeshTransport.ts`) | mesh peers with channel, queue and timer; snapshot chunks | signaling callbacks, channel callbacks, send queue | session managers of all peers | every operation reaches every peer; a joiner gets a snapshot and what followed it |
| Local server (`localRustServer.ts`) | child process, its timers and events | `start`, `stop`; `startLocalRustServer`, `forceShutdown`, `dispose` of the session manager | a child process that is slow, silent, stubborn or dead | no process left behind that the extension cannot stop |
| Version vector, WebAssembly binding, commands, status bar | see `PROJECT.json` | | | not modelled, with the reason there |

What is hard here: delivery in any order with duplicates; a replica that is
built anew under the same id; connections of one client that overlap; messages
lost with a connection; callbacks that outlive the session they were made for;
awaits between a decision and its effect; a room that vanishes when it is empty;
an editor that is ahead of what the extension knows of it; a send queue with
retries, callbacks and a timer; a child process whose end is learnt of late.
`PROJECT.json` lists each of these at its line under `hazards`.

## Modules

```
TextCrdt        ids, operations, pure functions of the text
Replication     EXTENDS TextCrdt: replicas, network, restart     -- refines OpSet
OpSet           what a replicated text promises
MCReplication   small instances
ReplicationProofs  theorems about Replication and its text

Connections     WebSockets and what both servers do with them
RelayServer     EXTENDS Connections: rooms and handlers of the relay
RelayClients    EXTENDS RelayServer: clients that send anything
SessionCrdt     the ids and waiting operations of the CRDT of one client
RelaySession    EXTENDS RelayServer, SessionCrdt: the clients of the extension, relay mode
SignalingServer   EXTENDS Connections: rooms and handlers of the signaling server
SignalingClients  EXTENDS SignalingServer: clients that send anything
P2PSession      EXTENDS SessionCrdt: the clients of the extension, peer-to-peer mode
MCRelayClients, MCRelaySession, MCSignalingClients   small instances
RelayClientsProofs, RelaySessionProofs, SignalingClientsProofs   theorems
SessionLogProofs  EXTENDS RelaySessionProofs: theorems about rooms with a Steady client

PeerQueue       the messages to one peer: channel, queue, timer  -- refines PeerFifo
PeerFifo        what the messages to one peer are promised
SnapshotChunks  EXTENDS PeerQueue: snapshots in chunks, sender and receiver
PeerQueueProofs theorems about PeerQueue and SnapshotChunks
MCPeerTransfer  a small instance
DocumentSync    document, shadow text, CRDT and render queue of one client
DocumentSyncProofs  theorems about DocumentSync
LocalServer     the servers that the extension starts as child processes
LocalServerProofs  theorems about LocalServer
```

### TextCrdt and Replication

One variable per field of `struct TextCrdt`, as a function of the replica:
`counter`, `elements` (the inserts applied), `deleted` (ids with the deleted
flag), `children`, `seen`, `pendingInserts`, `pendingDeletes`. Actions:

| Action | Code |
|---|---|
| `Insert`, `Delete` | `insert`, `delete`; one operation per character, anchored to the left neighbour, the rest of a text chained |
| `ApplyDuplicate`, `ApplyQueued`, `ApplyNow` | the outcomes of `apply_operation`; `ApplyNow` includes `apply_*_inner`, the whole `drain_pending` and the counter |
| `Restart` | `connect` builds a new TextCrdt under the same replica id |
| `CaughtUp` | the end of `handleTransportJoined`, which sets `syncReady` whatever the log held |
| `FromSnapshot` | `from_snapshot`, with `rebuild_children` and `max_counter_for_replica` |

`issued` is the set of all operations ever returned; the network may deliver any
of them to any replica at any time and any number of times. `ready` says whose
user may edit. `FullReplay` is an assumption on the environment of a replica, not
a guard of the code: the replay or the snapshot brought all that the replica
wrote, and none of it waits. `handleTransportJoined` and `handleSnapshot` check
neither; `RelaySession` and `P2PSession`, which have logs, queues and snapshots,
ask when it is so. A character is its id; values play no part in any decision.
Replica ids are numbers, ordered as the code orders strings.

`drain_pending` is a loop; `Drained` is its result, the least set of pending
inserts closed under "the parent is there". `DrainLoop` is the loop, round by
round, and `DrainIsTheLoop` compares the two in every reachable state. `Walk` is
the stack of `visible_elements`, turn by turn.

`OpSet` knows nothing of counters, buffers and indexes: a replica knows a set of
operations, and its content is a function of that set. `ImplementsOpSet` maps
`known` to the operations a replica has seen and `content` to its elements and
tombstones.

### RelayServer

`rooms` is the shared table; a room has `peers` (client to connection, the
sender in the code) and `log`. A handler holds the lock for the whole of one
message, so one message is one action: `HandleJoin`, `RejectOperation`,
`IgnoreOperation`, `AcceptOperation`, `HandleClose`. Handlers of different
connections interleave.

The connections are in `Connections`, which the signaling server shares. `inbox`
is what is on its way to a handler; `stream` is what was sent to a connection and
not yet read. A connection that breaks (`Disconnect`)
delivers some first part of what was under way, then the handler sees the close,
at any later time.

`RelayClients` adds clients that send any operation for any room at any time,
also before they join, but join once per connection, as both transports do. The
history variable `newest` has, for each room and client, the last connection to
join. `Carried` is what a stream says of the log, in its order.

### RelaySession

The session managers of several clients, in relay mode, over `RelayTransport`.
An edit is one operation, put after a character of the text or at its beginning. A
CRDT is the operations it has seen and those it has applied (`SessionCrdt`), and a
text is those applied (`OpSet`): one that comes before the operation it names is
seen and waits, and the next id follows the greatest own one *applied*, as
`next_operation_id` has it. A local edit is applied at once and drains nothing.

| Action | Code |
|---|---|
| `StartSession` | `startSession`, `joinSession`: `connect` with its `leaveSession`, and `openTransport` |
| `LeaveSession` | `leaveSession` |
| `Edit` | `handleLocalDocumentChange` that ends in `sendOperation`; an edit that is skipped changes nothing here |
| `SocketOpens`, `SocketCloses` | the socket events of `RelayTransport`; the close leads to `handleTransportClose` |
| `Reconnect` | the timer of `scheduleReconnect` |
| `HandleTransportOperation`, `HandleNothing` | `handleTransportOperation`; errors, presence, messages without a session |
| `ReplayLog`, `RenderDone` | `handleTransportJoined` before and after its `await` |
| `EmptyLog` | `handleTransportJoined` for an empty log, with the seed; no await |
| `ServerRestarts` | the relay process stops and is started again: every connection ends and the rooms, which are in memory only, are empty (`server.rs:57`) |

The constants `Steady`, `EarlyEdits`, `LosesMessages`, `SlowRender`, `SlowServer`,
`LateDelivery` and `Restarts` say what the environment may do. They restrict the environment
only: no handler reads them. `EarlyEdits` lets the user type while an open
socket waits for its `joined`, which nothing in the code prevents. With all of them open nearly every promise of the
documents fails; each closed one is a named assumption under which a promise
holds, and [findings](#findings) tells what fails when it is opened.

### SignalingServer and SignalingClients

The same shape as the relay, with the signaling messages: `HandleJoin`,
`RejectSignal`, `IgnoreSignal`, `ForwardSignal`, `TargetNotConnected`,
`HandleClose`. `SignalingClients` adds clients that send any signal at any time.
`HandleSignalingMessage` is the function of the same name in
`p2pMeshTransport.ts`, so that `ViewAfter` is what a transport makes of the first
messages it was sent and `View` what it makes of all; `MeshFollowsRoom` compares
that with who is there. The time stamp of a peer,
`connectedAt`, is modelled by its connection.

### P2PSession

The session managers of several clients in peer-to-peer mode, each with its mesh
transport. The server is what `SignalingClients` shows of it: registered clients
hear of joins and leaves in the order in which the server handles them. The
handshake of a data channel is one step, `ChannelOpens`, possible while the
sessions that made the two ends are current.

| Action | Code |
|---|---|
| `StartSession`, `LeaveSession` | `connect`; `leaveSession` with `close` of the transport |
| `Edit` | `handleLocalDocumentChange` that ends in `sendOperation` |
| `ServerJoin`, `ServerClose` | join and close at the signaling server |
| `SignalingBreaks` | the socket to it breaks; `handleTransportClose` does nothing in this mode |
| `OnJoinedFirst`, `OnJoined`, `OnPeerJoined`, `OnPeerLeft` | `handleSignalingMessage`, each with `handleTransportJoined` or `handlePresence` and the snapshot request they lead to |
| `ChannelOpens`, `ChannelCloses` | `onOpen` with the queue and `onPeerChannelOpen`; `onClosed` |
| `KeepOperation`, `HandleTransportOperation` | `handleTransportOperation` before and after the snapshot |
| `HandleSnapshotRequest` | the function of that name |
| `HandleSnapshot`, `SnapshotRendered` | `handleSnapshot` before and after its first `await` |
| `ReplayNext` | its loop: one operation that waited, handed to `handleTransportOperation` and awaited; anything may happen before the next |

`SlowServer`, `AbruptLeave`, `Unreliable` and `Steady` say what the environment may do, as in
`RelaySession`. Left out: the `hello` message, the size limit of messages,
backpressure and chunks (all in `PeerQueue` and `SnapshotChunks`), the join of a
client that leaves before it was handled (`SignalingClients` has it), and
messages of a transport that was closed.

### PeerQueue, PeerFifo and SnapshotChunks

One `MeshPeer` of `p2pMeshTransport.ts` with its data channel. Messages are
numbered in the order of the calls of `sendDataMessage`. A JavaScript call runs
to its end, but the channel goes on meanwhile, so a call is a list of tasks,
`task`, and only a call with none left lets the next callback begin.

| Action | Code |
|---|---|
| `QueueMessage`, `QueueMessageAndFlush`, `SendAtOnce` | the three ways through `sendDataMessage` |
| `BeginFlush`, `FlushOne`, `EndFlush` | `flushPeerQueue`, round by round, with `schedulePeerQueueFlush` |
| `TrySend` | `trySendDataMessage`: `sent`, `failed` for a message that is too large, `retry` |
| `OnOpen` | `markOpen`: the `hello` and a flush |
| `OnClosed`, `OnBufferedAmountLow`, `TimerFires`, `CloseMeshPeer` | the callbacks, the timer, `closeMeshPeer` |
| `ChannelOpens`, `ChannelCloses`, `Read` | external: the channel of node-datachannel |
| `SendSnapshot`, `SendOperation`, `SendHello` | `sendSnapshot` with its chunks, the other messages |
| `HandleDataMessage` | `handleDataMessage` with `handleSnapshotChunk` and `cleanupSnapshotChunks` |

`sendMessage` of the channel returns false both for a message it refused and for
one it buffered, so `retry` may leave a message on the wire that is sent once
more. `PeerFifo` is what is left to promise: the order is kept, only a message
that is too large is left out, and the last one may be repeated. `ImplementsFifo`
is that refinement; `SnapshotChunks` then asks whether snapshots are put together
rightly over such a channel. Operations that come twice are dropped by the CRDT
(`ApplyDuplicate` of `Replication`).

### DocumentSync

One client. The editor runs in another process: `editor` is the text the user
sees, `document` what the extension knows of it, `toHost` the messages between.
A text is a sequence of characters, each a number of its own, those of other
clients negative. The CRDT is its visible text; an insert lands at its index or
further right behind characters of others (`replication_insert_at`).

| Action | Code |
|---|---|
| `Type`, `EditorApplies`, `EditorReplies` | external: the editor; a workspace edit is refused if the text has changed since it was made |
| `HandleLocalDocumentChange` | the function of that name, with every early return, `applyTextChanges` and `changesToOperations` |
| `Render`, `RenderReturns` | `renderCrdtToDocument` in the render queue, before and after its await, and the end of the join that waits for it |
| `Connect`, `LeaveSession` | `connect`, `leaveSession` |
| `JoinedEmpty`, `JoinedText` | `handleTransportJoined` for an empty log, with the seed, and for a log or a snapshot |
| `RemoteOperation` | `handleTransportOperation` that changes the text |

`stale` is a history variable: a change was ignored during a render, or an edit
refused, and nothing has been rendered since. `EmptiedRoom` and `FastJoin` say
what the environment may do.

### LocalServer

The start commands of one extension host. A start makes one `LocalRustServer`
and one process; the three share a name, an element of `Server`. `call` says
where `startLocalRustServer` waits; `child`, `stopping` and `timers` are the
field and the timers of `LocalRustServer`; `events` is what node has not yet
told about the process.

| Action | Code |
|---|---|
| `StartCommand`, `GivePort` | `startLocalRustServer` up to the input box; `start` with its `spawn`, which may fail |
| `StartupTimeout`, `ReadLine`, `HandleExit`, `HandleClose` | the callbacks of `start` and `stop`: no line in time, the listening line, `error` or `exit`, `close` |
| `Escalate`, `StopTimeout` | the SIGKILL after 1.5 s, the end of the wait after 2 s |
| `ForceShutdown`, `Dispose` | the functions of those names, with `stop` |
| `Listens`, `Ends` | external: the process |

`Overlap` says whether the user may give a start command while a start is under
way; a shutdown and the end of the extension may come at any time. `abandoned` is
a history variable, the starts that were under way at that end.

## Runs

All bounds are constants of the configurations.

| Run | Shows | Instance |
|---|---|---|
| `replication_order` | state is a function of what was seen; one order of characters; nothing left pending; the loop of `drain_pending` does what `Drained` says | 3 replicas, 4 operations, edits of 1 character |
| `replication_restart` | inductive invariant with the types, exact index, what an edit does to the visible text, refinement of `OpSet`, and that all replicas end with the same text | 2 replicas, 4 operations, 1 restart, edits of up to 2 characters |
| `relay_safety` | replay without gap and before anything else, presence, the newest connection is registered | 3 connections, 2 clients, 1 room, 2 operations; connections and clients are symmetric |
| `session_lossless` | no edit lost, agreement, unique ids among what is in use, no edit before the log; with fair scheduling, offline edits arrive and the clients agree in the end | 2 clients (one `Steady`), 4 connections, 2 edits (1 of the `Steady` client), 2 sessions, 1 break |
| `session_reuse` | ends with a counterexample: ids are reused with `EarlyEdits` | as above, 4 edits of one client |
| `session_anything` | a reader has seen the log and logs stay apart, with no assumption on the environment, which may also restart the server | 2 clients, 2 rooms, 3 connections, 1 edit; clients and rooms are symmetric |
| `signaling` | transports know who is there and by which session, signals come from the sessions they know of, none vanishes | 3 connections, 3 clients, 1 room, 2 signals; connections and clients are symmetric |
| `p2p` | connected peers agree, unique ids in use, every joiner gets its snapshot | 3 clients (one `Steady`, one `Unreliable`), 4 sessions, 2 edits, seeds or breaks of the signaling connection |
| `peer_transfer` | the queue never stalls and implements `PeerFifo`; snapshots arrive whole and in order or not at all | snapshots of 3 and 2 chunks, 8 messages, 2 on the wire, the second message too large, transfers may expire |
| `document` | document, shadow text and CRDT agree when nothing is under way, the guard is released, no own render is taken for an edit and an edit in calm is, text is shown in the end | 2 edits of the user (one cursor or two), 2 operations or texts of others, 2 sessions |
| `local_server` | no process is left behind, late events leave the kept server alone, a stop means it, starts and stops end | 2 start commands, one after the other |

Why the bounds are enough to be interesting. Four operations allow a chain of
three inserts with a delete, all delivered backwards, or two concurrent
inserts under one parent while a third replica has seen one of them. One
restart is enough for a reused id. Three connections allow one client to
replace itself twice, or once with another client watching; two operations
allow a duplicate and a gap. In `RelaySession` one connection is for the client
that stays and three for the other, which may leave and return, and break off and
reconnect in either session; two edits are one before and one after, or one of
each client, and a chain of one that names the other. To reuse an id without lost
messages takes two edits in the first session and two in the next one, over three
connections: `session_reuse` has them. What the two passing runs do not reach is
proved ([proofs](#proofs)), where all bounds are open. In
`P2PSession` three clients are the fewest with a forwarder, or with a provider
that is not synchronised itself; four sessions let one client return, and two
events are two edits of one client in two sessions, or a break and an edit.
In `PeerQueue` eight messages are two snapshots, a `hello` and two operations
around them, and a wire of two is full in the middle of a snapshot; the message
that is too large is an operation, before or behind the `hello`. In `DocumentSync` two edits
allow one before and one during a render, two sessions a render that outlives
its own, and two texts of others a render that is out of date when it ends. In
`LocalServer` two starts are a server and its successor; one child is never told
of another.

`CHECK_DEADLOCK FALSE` is set in all runs but those of `Replication`: clients may be
done, connections, edits and messages used up, and an extension host is disposed. In the replication runs a redelivered operation
is always possible, so deadlock is checked there.

Fairness. `EventualConvergence` (`replication_restart`): what a replica has not seen is delivered in the
end (a relay replays its log and broadcasts; peers queue and resend). Nothing is
assumed of users. `EventualAgreement` (`session_lossless`): tokio runs a handler with a message, an open
socket delivers, a server accepts, timers fire and renders end; nothing is
assumed of users and nothing of breaks, and the property speaks of clients that
still have a connection to use, as their number is a bound of the model. `EverySessionSyncs` (`p2p`): some step of
the server, of a channel or of a callback is taken while there is one, which is
less than fairness to each of them; it includes that the handshake of two
current sessions succeeds, as no timeout in the code handles one that does not.
`SnapshotsArrive` (`peer_transfer`): a call that has begun runs on, the timer
fires, `open` is told and messages are delivered; and, strongly, a channel that
is asked again and again takes the message in the end, as its buffer drains while
the peer reads. A channel that closes and a transfer that expires are excused.
`TextIsShown` (`document`): the editor answers and the extension host handles
what it is told; nothing is assumed of the user, who is bounded. `StartsAndStopsEnd`
(`local_server`): node fires timers and tells events until the extension is
disposed, and no process outlives a SIGKILL; nothing is assumed of what the
process does by itself, and nothing of node after `dispose`, as `deactivate` is
synchronous and the stop is not awaited (`extension.ts:12`, `sessionManager.ts:283`):
the host may end before the timer of the escalation fires.

## Findings

Two runs end with a counterexample; `PROJECT.json` quotes the text that says
otherwise.

- `replication_insert_at`. The counter of a replica follows only its own
  operations, so a replica that has received elements with greater counters
  inserts behind them, not at the index given. `InsertStaysTogether` states what
  holds instead.
- `session_reuse`. An operation that comes without the one it names is marked seen
  and waits, and does not raise the counter (`text_crdt.rs:159-166`). A client
  types op1 while it reconnects, which is queued, and op2 behind it when the socket
  is open but `joined` has not come, which is sent at once (`sessionManager.ts:609`).
  It leaves, and op1 goes with the queue; it returns, and is given a log with op2
  alone. Op2 waits, and the next two edits take the ids of op1 and op2. In the same
  instance `NothingIsLost` fails: the log drops the second as a duplicate.
  `EarlyEdits = FALSE` excludes this, and so does nothing in the code.

More consequences of the code are assumed away in the passing runs and have no
run of their own; each shows when the named constant is changed in the instance
of the run.

- `LosesMessages = TRUE` in `session_lossless`: `NothingIsLost` and
  `SettledClientsAgree` fail. An operation given to a socket that is already
  broken counts as sent (`relayTransport.ts:108`) and is never sent again, where
  `architecture.md:37` has it queued and flushed. With the 4 edits of
  `session_reuse`, also without `EarlyEdits`, `LiveIdsAreUnique` fails: op1 is lost
  with its connection, op2, which names it, is not.
- `LateDelivery = TRUE` in `session_lossless`: `EditsWaitForTheLog` fails. A closed
  transport still hands messages to the manager (`relayTransport.ts:39`), and a
  `joined` of the last session opens the next one for edits before its log has come
  (`sessionManager.ts:393`). With 2 rooms and 3 sessions, without breaks, such an
  edit takes an id that the log has already: `LiveIdsAreUnique` fails. The session
  also shows what such a message brings of the other room; what it then writes,
  it writes in its own, so `RoomsStayApart` speaks of logs, where it holds whatever
  the environment does. The others assume that a WebSocket that is being closed
  delivers nothing more to the extension.
- `Restarts = TRUE` in `session_lossless`: `NothingIsLost`, `SettledClientsAgree` and
  `LiveIdsAreUnique` fail. The log is empty after a restart, and a client that
  reconnects never sends again what the old log had; a client that starts a new
  session counts from 0 while others still hold its earlier operations, and drop
  the new ones as duplicates.
- `SlowRender = TRUE` in `session_lossless`: `EditsWaitForTheLog` and
  `LiveIdsAreUnique` fail. `handleTransportJoined` sets `syncReady` after an await
  (`sessionManager.ts:393`) without a look at which session it is, so a render of the
  earlier session that ends late opens the next one for edits before its log has
  come.
- `SlowServer = TRUE` in `session_lossless`: `NothingIsLost` and
  `SettledClientsAgree` fail. If two joins of one client are handled in the other
  order, the connection in use is the one that is rejected.
- `FullReplay = FALSE` in `replication_restart`: `NextIdIsFresh`, a part of
  `Consistent`, and `StrongConvergence` fail: a replica that edits before it has
  applied all it wrote gives an id to two operations.
- A room without a `Steady` client loses its log with its last connection
  (`server.rs:190`), also when that connection only broke. Who comes next does not
  get what was written, and a client that starts anew counts from 0 again while
  others still hold its earlier operations. `NothingIsLost`, `SettledClientsAgree`
  and `LiveIdsAreUnique` therefore speak only of rooms where a `Steady` client is
  (`LastingRooms`); said of every room, each of them fails.
- `SlowServer = TRUE` in `p2p`: `EverySessionSyncs` fails. A client that returns
  before the end of its old connection was handled meets the MeshPeers of its
  earlier session (`ensureMeshPeer` keeps them), whose channels are dead, and
  waits for a snapshot for ever. The safety properties still hold.
- `Steady = {}` in `p2p`: `EverySessionSyncs` fails. When the only synchronised
  client leaves, those that wait for a snapshot wait for one another, or alone.
- `AbruptLeave = TRUE` in `p2p`: `ConnectedPeersAgree` fails. An operation that
  reached only a peer that leaves, or loses its signaling connection, before it
  has passed it on is never sent again. `LiveIdsAreUnique` fails too: an operation of
  a client that leaves may have reached one peer only, which has not yet passed it
  on when the client returns, asks another one for the snapshot and counts from 0.
  TLC follows this behaviour step by step; a full search of that instance is out of
  reach.
- With two `Unreliable` clients and 4 events `LiveIdsAreUnique` fails in `p2p`. Two
  clients that have lost the signaling server keep the channel between them, while
  everyone else drops theirs to them (`handleTransportClose` does nothing in this
  mode, `sessionManager.ts:487`). What one of them writes then stays between the two;
  when it leaves and returns, nobody it meets knows those operations and it counts
  from 0, while the other one still holds them. TLC follows this behaviour step by
  step; a full search of that instance is out of reach. The run therefore assumes
  that one client at most loses the signaling server, where there is no such pair.
  That the property then holds for any number of events is not proved, and searched
  for two events only, enough for a client to write, return and write again.
- A snapshot that takes longer than a minute (`SlowTransfer`) is thrown away and
  not asked for again; `SnapshotsArrive` excuses it by name.
- `EmptiedRoom = TRUE` in `document`: `DocumentFollowsCrdt` fails. A session whose
  first log was not empty never sets `seedSent` (`sessionManager.ts:387`); when
  it reconnects to an emptied room it puts the seed before the text it has,
  and does not render it.
- `FastJoin = TRUE` in `document`: `NoEcho`, in `OnlyEditsAreTaken`, fails. The render of a session that
  was left counts down the depth of the next one (`sessionManager.ts:577`), whose
  own render is then taken for an edit, against `architecture.md:33`.
- A change that is ignored during a render (`sessionManager.ts:499`), or an edit
  that the editor refuses (`sessionManager.ts:572`), leaves the document unlike
  the CRDT until something else renders; `DocumentFollowsCrdt` excuses it by
  `stale`, against `architecture.md:31`.
- `Overlap = TRUE` in `local_server`: `NoServerIsForgotten` fails. Two start
  commands pass the check (`sessionManager.ts:77`) before either has set
  `localServer`, the second server replaces the first, and no command stops the
  first again.
- When the extension ends during a start, the process being started is not
  stopped; and a child that ignores SIGTERM outlives an extension host that ends at
  once. `NoServerIsForgotten` and `StartsAndStopsEnd` excuse them, the first by
  `abandoned` and the second by `disposed`.
- A child that dies by itself leaves `localServer` set, so the next start command
  says that a server is running; and when a start times out, its caller's stop
  returns at once while the child may run 1.5 s longer.

And nothing closes the connection that a newer one of its client replaced: its
handler keeps a sender of its own (`server.rs:101`), against the comment at
`room.rs:35-37`; in `RelayServer` such a connection can stay open for ever.

## Proofs

All theorems are for every value of the constants, under the assumptions named;
the runs check the same definitions on small instances. No theorem bounds the
number of replicas, clients, connections, rooms, servers or messages.

Several definitions are recursive functions over sequences or rounds (`Walk`,
`DrainLoop`, `Carried`, `ViewAfter`, `LearnAll`). The proofs show first that such
a function exists, by the least counterexample (`LeastNumber`), and then what its
next value is; statements about all its values follow by the least
counterexample again.

### Replication

`ReplicationProofs.tla`, for every set of replica numbers and all bounds:

| Theorem | Property |
|---|---|
| `TypeCorrect` | `TypeOK`, a part of `Consistent` |
| `AlwaysConsistent` | `Consistent` |
| `ReplicasConverge` | `StrongConvergence` |
| `NothingSeenIsLost` | `SeenIsAppliedOrWaiting`, which follows from `Consistent` |
| `FullDeliveryLeavesNothing` | `AllSeenNothingWaits` |
| `Refinement` | `ImplementsOpSet` |

Assumptions: `ReplicaAssumption` (replica ids are natural numbers),
`BoundsAssumption` (the bounds are natural numbers) and, as a hypothesis of every
theorem, `FullReplay`: a replica that was built anew has applied all it wrote when
its user edits again. That is a condition on transport and server, which the code
does not check; `session_reuse` shows it fail. With `MaxRestarts = 0` it says
nothing.

Argument. `StrongConvergence` is not inductive: nothing in it says how the
buffers relate to the elements. The inductive invariant `IndInv` is `Consistent`
with what the counters need. Its core is `FollowsSeen`: the elements of a
replica are the inserts it has seen that are rooted, that is, `Drained({}, ...)`
of what it has seen, and the buffers are the rest. Convergence is then immediate.
Preserving `FollowsSeen` under `ApplyNow` is the heart of the proof: draining
after one more insert gives the least closed set over one more operation, which
follows from the least-set characterisation of `Drained` by two lemmas, one for
each inclusion. `IssuedIsRooted` (every issued insert has a chain of issued
anchors) gives `AllSeenNothingWaits`, as a replica that has seen everything
drains everything. That an id names one operation, without which none of this
holds, needs `CounterCovers`: the counter covers the replica's own operations that
it has applied, and by `FullReplay` a replica that becomes ready has them all. The refinement uses the invariant to see that every step changes
the content as the set of known operations demands.

TLC checks `Consistent` as an invariant (`replication_restart`) on the same
definitions that the proofs use.

### The text of the replicas

Also in `ReplicationProofs.tla`, over its first lemmas, which are about any set of
inserts, and with the same assumptions:

| Theorem | Property |
|---|---|
| `TextsAgreeOnOrder` | `OrderAgreement` |
| `IndexStaysExact` | `IndexIsExact` |
| `DrainIsItsLoop` | `DrainIsTheLoop` |

Argument. What a replica has applied is a tree: every insert is anchored to the
root or to another one, and one cannot go round in circles since the applied
inserts are drained from nothing (`TreesOfReplicas`). On such a tree `Before`
says which of two characters is first by their ids and anchors alone. It is
asymmetric, and it is the same in two replicas that hold both characters, as each
holds all anchors of both. The walk over an exact index outputs the characters in
the order `Before`: its invariant says what was output, what is on the stack and
what hangs below the stack, each part before the next, and that this is the whole
tree, so an empty stack means that all was output. Two texts are then two parts
of one order. An index is exact if every list of siblings is the sorted
list of the children: `SortSiblings` puts each id at the place that its number of
predecessors gives, and sorting after each insert or once at the end is the same,
which is also why `rebuild_children` agrees. The loop of `drain_pending` grows by
at least one insert each round until it stops, hence stops within `|P|` rounds, and
it stops at the least closed set.

### The relay

`RelayClientsProofs.tla`, for clients that send anything, assuming
`ConnAssumption` (what stands for "not joined" is no connection):

| Theorem | Property |
|---|---|
| `LogReplay` | `LogIsReplayedGapless` |
| `PresenceTold` | `PresenceIsCurrent` |
| `NewestStays` | `NewestIsRegistered` |

Argument. The three properties hold each other up, and `IndInv` adds what they
lean on: a connection joins once (`JoinsOnce`), the newest connection of a client
has joined as this client (`NewestHasJoined`), and one that has not joined was sent
errors only (`SilentBeforeJoin`), so that its stream begins with `joined`. A
handler then adds to the log of a room and to what the streams of that room
carry, in the same step and for the same connections.

### The signaling server

`SignalingClientsProofs.tla`, for clients that signal anything, assuming
`ConnAssumption`:

| Theorem | Property |
|---|---|
| `MeshFollows` | `MeshFollowsRoom` |
| `SignalsFromKnownSessions` | `SignalsAreOfTheKnownSession` |
| `SignalsNeverVanish` | `NoSignalVanishes` |

Argument. `MeshFollowsRoom` speaks of who is present by the history of joins;
`ViewsFollow`, which is inductive, of who is in the table: every stream of a room,
read to its end, makes the view of that table. `NewestIsRegistered` says that the
two are the same. A signal only goes from a registered connection to a
registered one, and there the view says who the sender is, so it changes no view
(`SessionsKnown`, which is about every beginning of a stream). `SignalsAnswered`
counts: each signal of a connection is in its inbox, in its stream as an error, or
in exactly one stream; the invariant needs that a client does not signal itself and
that all signals in an inbox are its own (`InboxInv`).

### The sessions

`RelaySessionProofs.tla` and, for the last three, `SessionLogProofs.tla`, for any
clients, rooms, connections and `Steady` clients, under `NamesAssumption` (no room and no connection are none) and
`EnvironmentAssumption` (the types of the other constants):

| Theorem | Property | Besides, of the environment |
|---|---|---|
| `SessionTypes` | `TypeOK` | nothing |
| `LogIsSeen` | `ReadersHaveSeenTheLog` | nothing |
| `RoomsApart` | `RoomsStayApart` | nothing |
| `LiveIdsStayUnique` | `LiveIdsAreUnique` | `~EarlyEdits`, `~LosesMessages`, `~SlowRender`, `~SlowServer`, `~LateDelivery`, `~Restarts` |
| `NothingGetsLost` | `NothingIsLost` | the same |
| `SettledAgree` | `SettledClientsAgree` | the same |

The assumptions of the environment are hypotheses of the theorems, and no more
than those of the runs: the first three theorems hold with everything open and no
`Steady` client at all; the last three speak of the rooms where some `Steady`
client is. [Findings](#findings) tells what fails without each hypothesis.
`EditsWaitForTheLog` is model-checked: what it needs, `LogCameFirst`, is a lemma
of the last three.

Argument. `IndInv` relates the log to a client that is behind: what a registered
client has not seen of it is in the unread part of its stream
(`LogIsSeenOrUnread`). It holds when the client is registered, as `joined` carries
the log, and goes on since a new operation goes to all who are registered and what
is read is learnt. It needs that a connection that is not open yet is in no room
(`NewConns`), or a client that changes its connection would be registered at
once. `RoomsApart` adds `RoomsInv`, which follows an operation from where it is
made: in a queue or an inbox it is of the room it is sent to, and a handler puts it
into the log of the room that its connection has joined, which is the one it was
sent to. This holds of late messages too, as what a session reads is never sent
again.

Three invariants more serve the last three theorems. `LinkInv`: an open connection
is the transport of the session it was opened for, and a timer runs only when that
connection is gone; so a `joined` that is read belongs to the session that there is,
and `LogCameFirst`, whoever waits for a render was given its log, is inductive.
`NewestInv`: a join under way was sent by the transport of its client, for the
session there is, or there is no session, and an open connection has sent no close.
`ElementsInv`: what was applied was seen.

TLC checked each of these invariants before its proof, on instances of
`RelaySession` with the constants that its theorem leaves free set to `TRUE`.

The three theorems of `SessionLogProofs` share one invariant, `AllInv`, above
all of these. None of the three properties is inductive, nor are any two of them:
an id is new only if nothing waits, nothing waits only if nothing is lost, and
nothing is lost only if no id is taken twice, each one step later.

- `CastInv` is about who is there. A `Steady` client keeps its first connection and
  has joined before anyone else starts, so the room of a lasting session keeps
  its log (`SteadyInv`); a connection has one owner and is in the room of its
  session only (`MembersInv`); an operation under way is its sender's own
  (`AuthorsInv`).
- `PlaceInv` is about the server: once a session has come to its room, no connection
  of an earlier session of that client is registered there. What an earlier
  session still had under way is then rejected, which is what keeps its ids
  out of the log.
- `HeldInv` and `IdsInv` are about the log: what a session of a lasting room holds,
  or is about to read, is in the log, but for operations of its own; and a session
  that was given the log has seen all its own operations that the log has.
- `WaitInv` is about order. Wherever an operation is (in a log, behind it in the
  inbox of a session, behind that in its queue, in what a session is about to read)
  what it names is further on, or before it in the same place (`LogsClosed`,
  `BoxInv`, `Flowing`, `Heard`). So what a session sees it can apply (`NoneWaits`), and
  a counter that follows what was applied has passed all that the log has of its
  client. This is where `EarlyEdits` must be excluded: an edit that overtakes the
  queue names something behind it.
- `QueueSent` is the other half of that: when a `joined` was read and its render has
  ended, the queue is empty, so an edit on an open connection overtakes nothing.
- `KeptInv` is about what is under way: the server rejects or ignores an operation
  only for a session that is over, since the first message on a connection is
  its join (`FlowInv`) and the newest connection is the registered one; so an
  operation leaves the inbox for the log, and a queue for the inbox, and never
  for nothing. This is where lost messages must be excluded.

Two settled sessions agree by these and `ReadersHaveSeenTheLog`: what they hold is in
the log, as nothing of theirs is queued or under way; what the log has they
have read, by ids, which are unique; and what they have seen they have applied.

### PeerQueue and SnapshotChunks

`PeerQueueProofs.tla`, for any messages that are too large and all bounds
(`MessageAssumption`: numbers are natural numbers), and for any number of snapshots
of two chunks or more (`SnapshotAssumption`):

| Theorem | Property |
|---|---|
| `QueueTypeCorrect` | `QueueTypeOK`, by proof only |
| `QueueKeepsOrder` | `QueueIsInOrder`, by proof; the run checks what follows from it, `ImplementsFifo` |
| `QueueKeepsGoing` | `QueueNeverStalls` |
| `QueueImplementsFifo` | `ImplementsFifo` |
| `TransferIsQueue` | a run of `SnapshotChunks` is a run of `PeerQueue`, so all of the above hold for it |
| `SnapshotsComeWhole` | `SnapshotsAreWhole`, also when transfers expire |

Argument. `IInv` is the three invariants together with `OpenedIsKnown`: only a
channel that has opened is known as open, so one that becomes open while
messages wait is not yet `CanSend`, and the flush of `OnOpen` comes first.
`QueueIsInOrder` says that the queue is the last stretch of what was accepted;
each task then takes its first message or adds the next. The refinement is the
identity on `accepted`, `last` and `wire`; a step that puts a message on the
wire is allowed by `PeerFifo` because everything between `last` and the head of
the queue was too large.

`SnapshotsAreWhole` needs three invariants more, which TLC checked on the instance of
the run. `NumbersInv` and `TaskInv`: what is on the wire was accepted, in order, and
every message that was accepted has its content. `ContentInv`: of two chunks, the
one with the smaller number is of an earlier snapshot or an earlier chunk of the
same one. `ReceiveInv`: a buffer holds chunks of its own snapshot that were read,
as many as it counts and fewer than all; and of a snapshot that was handed over,
the last chunk at most. So a buffer that counts to its total has all chunks, among
them the last; what was handed over before was read to its end, hence is older;
and a repeated last chunk cannot fill a buffer again, as a snapshot in chunks has
two or more (`p2pMeshTransport.ts` sends a shorter one whole).

### DocumentSync

`DocumentSyncProofs.tla`, for any number of edits, operations of others and sessions
(`DocumentAssumption`):

| Theorem | Property | Besides, of the environment |
|---|---|---|
| `OnlyEdits` | `OnlyEditsAreTaken` | `~FastJoin` |
| `DocumentFollows` | `DocumentFollowsCrdt` | `~FastJoin`, `~EmptiedRoom` |

The hypotheses are those of the run, and [findings](#findings) tells what fails
without them. A user's event has one change or two, as `UserChanges` has it.

Argument. The first half is about texts. The editor makes all changes of an event
for the text before it; the extension makes one after the other, the rightmost
first. `TypedFits` says that both come to the same text, and `RenderFits` that a
render replaces the whole of one. It needs what `FlattenSeq` and `FoldLeft` make of
their arguments, which are recursive definitions: for `FlattenSeq` by the least
counterexample as above, for a fold over the two changes of an event by its two
steps.

The second half is the inductive invariant, in five parts, with a sixth for
`DocumentFollows`. `SessionInv` and `OneEdit`: the guard is set exactly while the
session that is on waits for its own edit, and there is no other edit under way.
This is where `~FastJoin` comes in. `MessageInv`: at most one change of an own edit
is on its way, in front of the answer, and an edit that the editor could still take
has no change on its way. `ChainInv`: each change on its way fits into the text of
the one before it, the first into the document, and the last is what the user sees.
`OnlyEdits` follows: an own change arrives only while its edit is under way, so while
the guard is set, and a change in calm fits into the shadow text. `SyncInv` is
about renders: the last one in the queue waits for the text that the CRDT still has;
if the editor took it, the document has that text already or gets it with the next
change, as a change that was typed in between would have made the edit stale; so
when it ends, document, shadow and CRDT are the same. A join with an empty log seeds
the CRDT with what the document has, which `EmptiedRoom` would spoil.

TLC checked all six parts on the instance of the run before the proof.

### LocalServer

`LocalServerProofs.tla`, for any number of start commands (`ServerAssumption`):

| Theorem | Property |
|---|---|
| `ServerTypeCorrect` | `TypeOK` |
| `KeptServerStaysUntouched` | `KeptServerIsUntouched` |
| `StopsMeanIt` | `StopMeansIt` |
| `NoServerGetsLost` | `NoServerIsForgotten`, assuming `~Overlap` |

Argument. The properties are about processes, but what the extension does hangs
on what it has been told, so `IInv` relates the two: only a process that has
ended is told as ended (`DeadIsTold`), a server being started has its child
(`ChildIsThere`), a child was sent no signal (`ChildIsUntouched`), a stop under way has its
escalation before its end (`EscalationIsDue`), an escalation belongs to a stop
that sent a signal (`EscalationIsMeant`), and a server whose command has no port yet has
nothing (`Fresh`). `NoServerIsForgotten` needs in addition that a start is under
way only while nothing is kept (`StartsAlone`), which is where `~Overlap` comes in.
A start goes on after a shutdown and after the end of the extension; a process that
is started late is one of those that were under way then (`LateStarts`).

## Limits

Model-checked only:

- liveness (`EventualConvergence`, `EventualAgreement`, `EverySessionSyncs`,
  `SnapshotsArrive`, `TextIsShown`, `StartsAndStopsEnd`), which is out of the
  prover's reach;
- of the replicas, `EditsStayInPlace`, an action property about positions in two
  texts, and `InsertAtPosition`, which fails;
- of the sessions in relay mode, `EditsWaitForTheLog`, with the proof of what it
  rests on;
- the peer-to-peer sessions (`ConnectedPeersAgree`, `LiveIdsAreUnique`): what a client
  holds that another does not may be under way over any chain of forwarders, so
  an inductive invariant has to speak of paths through a mesh that changes.

Left out of the models: character values, JSON and WebAssembly conversion,
logging, notifications, the status bar, prompts, `connectedAt`; 64-bit overflow
of the counter (one per character typed). `MaxCounterFor` leaves out the counter
of a snapshot of the same replica: a snapshot comes from another one.
`PeerQueue` has one end of a channel and one `open`; the negotiation of a
connection is one step of `P2PSession`. In `DocumentSync` a place in the document is
the same place in the CRDT, which is so for the characters of the Basic Multilingual
Plane: VS Code counts UTF-16 code units and `insert` counts `char`s
(`text_crdt.rs:104`). Behind any other character places differ, so an edit lands
elsewhere or is out of range; `src/README.md:362` lists it as a limit of the program,
where `crdt-design.md:3` has one element per code unit. `LocalServer` leaves out which executable
is run.

Not modelled:

- the version vector: nothing in the program uses it;
- the WebAssembly binding and the TypeScript shim: conversions without decisions;
- commands, activation and status bar: they call what is modelled;
- two clients that join an empty room at the same moment and both seed it
  (`sessionManager.ts:388`): by design of the seed nothing tells the two texts
  apart, so there is no promise to check.

## Plan

1. Done: `TextCrdt`, `Replication`, `OpSet`, their runs and proofs; `RelayServer`,
   `RelayClients`, `RelaySession` and their runs, with a restart of the server.
2. Done: `SignalingServer` and `SignalingClients`.
3. Done: `P2PSession`.
4. Done: `PeerQueue`, which refines `PeerFifo`, with proofs, and `SnapshotChunks`.
5. Done: `DocumentSync`.
6. Done: `LocalServer`, with proofs.
7. Done: proofs of the order of the text, of both servers, and of the safety
   properties of the sessions in relay mode.
8. Done: a proof of the reassembly of snapshots.
9. Done: proofs of the guard, the shadow text and the render queue of one client.
10. Left, proofs: `LiveIdsAreUnique` and `ConnectedPeersAgree` of `P2PSession`.

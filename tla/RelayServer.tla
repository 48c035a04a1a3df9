---------------------------- MODULE RelayServer ----------------------------
(***************************************************************************)
(* crates/relay-server: rooms with a log of operations, and the handler of *)
(* a connection.  RelayClients.tla composes it with arbitrary clients,     *)
(* RelaySession.tla with the clients of the extension.                     *)
(***************************************************************************)
EXTENDS Connections

CONSTANTS Room,
          Client

VARIABLE rooms        \* the rooms there are: peers and log of each

serverVars == <<rooms, connVars>>

-----------------------------------------------------------------------------
(* Messages (crates/protocol).                                             *)

JoinMsg(room, client)          == [type |-> "join", room |-> room, client |-> client]
OperationMsg(room, client, op) == [type |-> "operation", room |-> room, client |-> client, op |-> op]

Joined_NoLog(room, client, peers, log) ==   \* mutant: the log is not replayed
  [type |-> "joined", room |-> room, client |-> client, peers |-> peers, opLog |-> <<>>]

Joined(room, client, peers, log) ==
  [type |-> "joined", room |-> room, client |-> client, peers |-> peers, opLog |-> log]
Presence(room, peers) == [type |-> "presence", room |-> room, peers |-> peers]
Error                 == [type |-> "error"]

-----------------------------------------------------------------------------
(* Room (room.rs).                                                         *)

NoPeers  == [client \in {} |-> {}]
NewRoom  == [peers |-> NoPeers, log |-> <<>>]
RoomOf(room) == IF room \in DOMAIN rooms THEN rooms[room] ELSE NewRoom
PeerList(peers)  == DOMAIN peers
PeerConns(peers) == Range(peers)

\* add_peer replaces the sender of a client that is already there.
AddPeer(peers, client, c) == [x \in DOMAIN peers \cup {client} |-> IF x = client THEN c ELSE peers[x]]

IsActiveSender_Any(peers, client, c) == client \in DOMAIN peers   \* mutant: no comparison

IsActiveSender(peers, client, c) == client \in DOMAIN peers /\ peers[client] = c

RemovePeer_Any(peers, client, c) == Restrict(peers, DOMAIN peers \ {client})   \* mutant

\* remove_peer leaves a newer connection of the same client alone.
RemovePeer(peers, client, c) ==
  IF IsActiveSender(peers, client, c) THEN Restrict(peers, DOMAIN peers \ {client}) ELSE peers

\* OperationLog::append ignores an id it has.
AppendOperation(log, op) ==
  IF \E i \in DOMAIN log : log[i].id = op.id THEN log ELSE Append(log, op)

Recipients_Always(changed, peers) == PeerConns(peers)   \* mutant: is_new, removed ignored

\* Operations and departures are broadcast when they changed the room.
Recipients(changed, peers) == IF changed THEN PeerConns(peers) ELSE {}

SetRoom(room, value) == [x \in DOMAIN rooms \cup {room} |-> IF x = room THEN value ELSE rooms[x]]

-----------------------------------------------------------------------------
(* The handler of connection c reads its next message.                     *)

JoinReplies_OnlyJoiner(x, c, peers, answer, notice) ==      \* mutant
  IF x = c THEN <<answer, notice>> ELSE <<>>

\* What connection x is sent when c joins: c its answer, and after it everyone
\* in the room, c too, the new list of peers.
JoinReplies(x, c, peers, answer, notice) ==
  (IF x = c THEN <<answer>> ELSE <<>>) \o (IF x \in PeerConns(peers) THEN <<notice>> ELSE <<>>)

HandleJoin(c) ==
  LET room   == Head(inbox[c]).room
      client == Head(inbox[c]).client
      peers  == AddPeer(RoomOf(room).peers, client, c)
      answer == Joined(room, client, PeerList(peers), RoomOf(room).log)
      notice == Presence(room, PeerList(peers))
  IN  /\ Reads(c, "join")
      /\ rooms'  = SetRoom(room, [RoomOf(room) EXCEPT !.peers = peers])
      /\ joined' = [joined EXCEPT ![c] = <<room, client>>]
      /\ stream' = [x \in Conn |-> stream[x] \o JoinReplies(x, c, peers, answer, notice)]
      /\ UNCHANGED <<status, finished>>

\* Not from the room joined, or from a connection that a newer one replaced.
RejectOperation(c) ==
  LET room   == Head(inbox[c]).room
      client == Head(inbox[c]).client
  IN  /\ Reads(c, "operation")
      /\ \/ joined[c] # <<room, client>>
         \/ room \in DOMAIN rooms /\ ~IsActiveSender(rooms[room].peers, client, c)
      /\ stream' = SendTo({c}, Error)
      /\ UNCHANGED <<rooms, joined, status, finished>>

\* The room is gone: nothing is said.
IgnoreOperation(c) ==
  /\ Reads(c, "operation")
  /\ joined[c] = <<Head(inbox[c]).room, Head(inbox[c]).client>>
  /\ Head(inbox[c]).room \notin DOMAIN rooms
  /\ UNCHANGED <<rooms, joined, stream, status, finished>>

AcceptOperation(c) ==
  LET room   == Head(inbox[c]).room
      client == Head(inbox[c]).client
      op     == Head(inbox[c]).op
      log    == AppendOperation(rooms[room].log, op)
  IN  /\ Reads(c, "operation")
      /\ joined[c] = <<room, client>>
      /\ room \in DOMAIN rooms
      /\ IsActiveSender(rooms[room].peers, client, c)
      /\ rooms'  = SetRoom(room, [rooms[room] EXCEPT !.log = log])
      /\ stream' = SendTo(Recipients(log # rooms[room].log, rooms[room].peers),
                          OperationMsg(room, client, op))
      /\ UNCHANGED <<joined, status, finished>>

RoomsAfterClose(room, peers) ==
  IF peers = NoPeers
  THEN Restrict(rooms, DOMAIN rooms \ {room})
  ELSE SetRoom(room, [rooms[room] EXCEPT !.peers = peers])

\* The end of handle_connection: the peer leaves, and an empty room goes.
HandleClose(c) ==
  /\ Reads(c, "close")
  /\ finished' = finished \cup {c}
  /\ IF joined[c] = NotJoined \/ joined[c][1] \notin DOMAIN rooms
     THEN UNCHANGED <<rooms, stream>>
     ELSE LET room   == joined[c][1]
              before == rooms[room].peers
              after  == RemovePeer(before, joined[c][2], c)
          IN  /\ stream' = SendTo(Recipients(after # before, after), Presence(room, PeerList(after)))
              /\ rooms' = RoomsAfterClose(room, after)
  /\ UNCHANGED <<joined, status>>

Handle(c) == HandleJoin(c) \/ RejectOperation(c) \/ IgnoreOperation(c) \/ AcceptOperation(c) \/ HandleClose(c)

ServerInit == rooms = [room \in {} |-> NewRoom] /\ ConnInit
=============================================================================

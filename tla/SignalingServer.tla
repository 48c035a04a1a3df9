--------------------------- MODULE SignalingServer ---------------------------
(***************************************************************************)
(* crates/signaling-server: rooms of peers, and the handler of a           *)
(* connection, which passes signals from one peer to another and tells the *)
(* peers who is there.  The connectedAt of a peer is modelled by its       *)
(* connection, so that a list of peers says which session of each it means.*)
(***************************************************************************)
EXTENDS Connections

CONSTANTS Room,
          Client

VARIABLE rooms        \* the rooms there are: the connection of each peer

serverVars == <<rooms, connVars>>

-----------------------------------------------------------------------------
(* Messages (crates/protocol, module signaling).                           *)

JoinMsg(room, client) == [type |-> "join", room |-> room, client |-> client]
SignalMsg(room, client, target, signal) ==
  [type |-> "signal", room |-> room, client |-> client, target |-> target, signal |-> signal]

Joined(peers)             == [type |-> "joined", peers |-> peers]
PeerJoined(client, peers) == [type |-> "peerJoined", client |-> client, peers |-> peers]
PeerLeft(client, peers)   == [type |-> "peerLeft", client |-> client, peers |-> peers]
Error                     == [type |-> "error"]

-----------------------------------------------------------------------------
(* SignalingRoom (room.rs).                                                *)

NoPeers == [client \in {} |-> {}]
PeersOf(room) == IF room \in DOMAIN rooms THEN rooms[room] ELSE NoPeers
SetRoom(room, peers) == [x \in DOMAIN rooms \cup {room} |-> IF x = room THEN peers ELSE rooms[x]]

\* add_peer replaces the sender of a client that is already there.
AddPeer(peers, client, c) == [x \in DOMAIN peers \cup {client} |-> IF x = client THEN c ELSE peers[x]]

IsActiveSender_Any(peers, client, c) == client \in DOMAIN peers   \* mutant: no comparison

IsActiveSender(peers, client, c) == client \in DOMAIN peers /\ peers[client] = c

RemovePeer_Any(peers, client, c) == Restrict(peers, DOMAIN peers \ {client})   \* mutant

\* remove_peer leaves a newer connection of the same client alone.
RemovePeer(peers, client, c) ==
  IF IsActiveSender(peers, client, c) THEN Restrict(peers, DOMAIN peers \ {client}) ELSE peers

\* The connections broadcast_except sends to.
BroadcastExcept(peers, client) == {peers[x] : x \in DOMAIN peers \ {client}}

-----------------------------------------------------------------------------
(* The handler of connection c reads its next message.                     *)

Refuse_Silent(c) == stream   \* mutant: the sender hears nothing

Refuse(c) == SendTo({c}, Error)

HandleJoin(c) ==
  LET room   == Head(inbox[c]).room
      client == Head(inbox[c]).client
      peers  == AddPeer(PeersOf(room), client, c)
      others == BroadcastExcept(peers, client)
  IN  /\ Reads(c, "join")
      /\ rooms'  = SetRoom(room, peers)
      /\ joined' = [joined EXCEPT ![c] = <<room, client>>]
      /\ stream' = [x \in Conn |->
                      CASE x = c      -> Append(stream[x], Joined(peers))
                        [] x \in others -> Append(stream[x], PeerJoined(client, peers))
                        [] OTHER      -> stream[x]]
      /\ UNCHANGED <<status, finished>>

\* Not from the room joined, or from a connection that a newer one replaced.
RejectSignal(c) ==
  LET room   == Head(inbox[c]).room
      client == Head(inbox[c]).client
  IN  /\ Reads(c, "signal")
      /\ \/ joined[c] # <<room, client>>
         \/ room \in DOMAIN rooms /\ ~IsActiveSender(rooms[room], client, c)
      /\ stream' = Refuse(c)
      /\ UNCHANGED <<rooms, joined, status, finished>>

\* The room is gone: nothing is said.
IgnoreSignal(c) ==
  /\ Reads(c, "signal")
  /\ joined[c] = <<Head(inbox[c]).room, Head(inbox[c]).client>>
  /\ Head(inbox[c]).room \notin DOMAIN rooms
  /\ UNCHANGED <<rooms, joined, stream, status, finished>>

MaySignal(c) ==
  LET room == Head(inbox[c]).room
  IN  /\ Reads(c, "signal")
      /\ joined[c] = <<room, Head(inbox[c]).client>>
      /\ room \in DOMAIN rooms
      /\ IsActiveSender(rooms[room], Head(inbox[c]).client, c)

ForwardSignal(c) ==
  LET peers == PeersOf(Head(inbox[c]).room)
  IN  /\ MaySignal(c)
      /\ Head(inbox[c]).target \in DOMAIN peers
      /\ stream' = SendTo({peers[Head(inbox[c]).target]}, Head(inbox[c]))
      /\ UNCHANGED <<rooms, joined, status, finished>>

\* send_to fails: the target is not there, or its connection is broken and the
\* task that writes to it has ended already.
TargetNotConnected(c) ==
  LET peers  == PeersOf(Head(inbox[c]).room)
      target == Head(inbox[c]).target
  IN  /\ MaySignal(c)
      /\ target \in DOMAIN peers => status[peers[target]] = "gone"
      /\ stream' = Refuse(c)
      /\ UNCHANGED <<rooms, joined, status, finished>>

RoomsAfterClose(room, peers) ==
  IF peers = NoPeers THEN Restrict(rooms, DOMAIN rooms \ {room}) ELSE SetRoom(room, peers)

\* The end of handle_connection: the peer leaves, and an empty room goes.
HandleClose(c) ==
  /\ Reads(c, "close")
  /\ finished' = finished \cup {c}
  /\ IF joined[c] = NotJoined \/ joined[c][1] \notin DOMAIN rooms
     THEN UNCHANGED <<rooms, stream>>
     ELSE LET room   == joined[c][1]
              client == joined[c][2]
              after  == RemovePeer(rooms[room], client, c)
          IN  /\ stream' = IF after = rooms[room] THEN stream
                           ELSE SendTo(BroadcastExcept(after, client), PeerLeft(client, after))
              /\ rooms' = RoomsAfterClose(room, after)
  /\ UNCHANGED <<joined, status>>

Handle(c) == \/ HandleJoin(c)
             \/ RejectSignal(c) \/ IgnoreSignal(c) \/ ForwardSignal(c) \/ TargetNotConnected(c)
             \/ HandleClose(c)

ServerInit == rooms = [room \in {} |-> NoPeers] /\ ConnInit
=============================================================================

-------------------------- MODULE SignalingClients --------------------------
(***************************************************************************)
(* The signaling server with clients that join once per connection and     *)
(* send any signals, also before they join and after they were replaced.   *)
(* RoomPeers and MeshPeers are what P2PMeshTransport makes of the stream   *)
(* of its connection (handleSignalingMessage).                             *)
(***************************************************************************)
EXTENDS SignalingServer

CONSTANT MaxSignals   \* bound: signals the clients send

ASSUME ConnAssumption == NotJoined \notin Conn   \* what stands for no connection is none

VARIABLES signals,    \* signals each connection has sent so far
          asked,      \* connections that have sent their join
          newest      \* history: the latest connection to join as a client of a room

vars == <<serverVars, signals, asked, newest>>

Init == /\ ServerInit
        /\ signals = [c \in Conn |-> 0]
        /\ asked = {}
        /\ newest = [place \in Room \X Client |-> NotJoined]

SendJoin(c, room, client) ==
  /\ c \notin asked
  /\ asked' = asked \cup {c}
  /\ Send(c, JoinMsg(room, client))
  /\ UNCHANGED <<rooms, signals, newest>>

\* A transport signals its mesh peers, which are other clients.
SendSignal(c, room, client, target) ==
  /\ FoldFunction(+, 0, signals) < MaxSignals
  /\ target # client
  /\ signals' = [signals EXCEPT ![c] = @ + 1]
  /\ Send(c, SignalMsg(room, client, target, c))
  /\ UNCHANGED <<rooms, asked, newest>>

Handler(c) == /\ Handle(c)
              /\ newest' = IF joined' = joined THEN newest ELSE [newest EXCEPT ![joined'[c]] = c]
              /\ UNCHANGED <<signals, asked>>

Network(c) == /\ \/ Open(c, "unused", <<>>)
                 \/ \E kept \in 0..Len(inbox[c]) : Disconnect(c, kept) /\ UNCHANGED stream
              /\ UNCHANGED <<rooms, signals, asked, newest>>

Next ==
  \E c \in Conn :
    \/ Handler(c)
    \/ Network(c)
    \/ \E room \in Room, client \in Client : SendJoin(c, room, client)
    \/ \E room \in Room, client, target \in Client : SendSignal(c, room, client, target)

Spec == Init /\ [][Next]_vars

-----------------------------------------------------------------------------
(* What the transport of client makes of its stream.                       *)

NoView == [peers |-> NoPeers, mesh |-> {}]

\* handleSignalingMessage of the transport of client.
HandleSignalingMessage(client, view, m) ==
  CASE m.type = "joined"     -> [peers |-> m.peers, mesh |-> view.mesh \cup (DOMAIN m.peers \ {client})]
    [] m.type = "peerJoined" -> [peers |-> m.peers, mesh |-> view.mesh \cup {m.client}]
    [] m.type = "peerLeft"   -> [peers |-> m.peers, mesh |-> view.mesh \ {m.client}]
    [] m.type = "signal"     -> [view EXCEPT !.mesh = @ \cup {m.client}]
    [] OTHER                 -> view

\* The view after the first n messages of a stream, and after all of them.
ViewAfter(client, s, n) ==
  LET view[k \in 0..n] == IF k = 0 THEN NoView ELSE HandleSignalingMessage(client, view[k - 1], s[k])
  IN  view[n]

View(client, s) == ViewAfter(client, s, Len(s))

\* Who is in a room, by what joined and ended: each client with the latest
\* connection to join as this client, as long as the handler of that one runs.
IsPresent(room, client) == newest[<<room, client>>] \notin finished \cup {NotJoined}
Present(room) == [client \in {x \in Client : IsPresent(room, x)} |-> newest[<<room, client>>]]

-----------------------------------------------------------------------------
\* The transport of every present connection, when it has read its stream,
\* knows who is present and by which session, and keeps a mesh peer for each of
\* the others: no peer is announced as gone when only an old connection of it
\* ends, and none that is gone comes back with a late signal.
MeshFollowsRoom ==
  \A room \in Room : \A client \in DOMAIN Present(room) :
    LET view == View(client, stream[Present(room)[client]])
    IN  /\ view.peers = Present(room)
        /\ view.mesh = DOMAIN Present(room) \ {client}

IsSignal(m) == m.type = "signal"

\* A transport gets signals only from the session of a peer that it was last
\* told of: what a replaced connection still sends is rejected (the comment at
\* server.rs:157), and what it sent before comes before its replacement.
SignalsAreOfTheKnownSession ==
  \A c \in Conn : \A i \in DOMAIN stream[c] :
    IsSignal(stream[c][i]) =>
      LET m == stream[c][i]
          peers == ViewAfter(joined[c][2], stream[c], i - 1).peers
      IN  m.client \in DOMAIN peers /\ peers[m.client] = m.signal

\* The signals of c that the server has not read, those that it refused, and
\* those that it passed on, each with its place in an inbox or a stream.
Waiting(c)  == {i \in DOMAIN inbox[c] : IsSignal(inbox[c][i])}
Refused(c)  == {i \in DOMAIN stream[c] : stream[c][i].type = "error"}
PassedOn(c) == UNION {{d} \X {i \in DOMAIN stream[d] : IsSignal(stream[d][i]) /\ stream[d][i].signal = c} : d \in Conn}

\* What a present connection asked the server to pass on is still with the
\* server, was passed on once, or was refused with an error: no signal of a
\* handshake disappears without a word.
NoSignalVanishes ==
  \A room \in Room : \A c \in Range(Present(room)) :
    status[c] = "open" =>
      signals[c] = Cardinality(Waiting(c)) + Cardinality(Refused(c)) + Cardinality(PassedOn(c))
=============================================================================

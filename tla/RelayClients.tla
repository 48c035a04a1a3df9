---------------------------- MODULE RelayClients ----------------------------
(***************************************************************************)
(* The relay server with arbitrary clients: what it promises to anyone who *)
(* speaks its protocol and joins once per connection.  Nothing is read     *)
(* here, so a stream is all that was ever sent to a connection; reading is *)
(* the subject of RelaySession.                                            *)
(***************************************************************************)
EXTENDS RelayServer

CONSTANTS Op,         \* operations, records with at least the field id
          MaxSends    \* bound: operations the clients send

ASSUME ConnAssumption == NotJoined \notin Conn   \* what stands for no connection is none

VARIABLES sends,      \* operations sent so far
          asked,      \* connections that have sent their join
          newest      \* history: the latest connection to join as a client of a room

clientVars == <<sends, asked>>
vars == <<serverVars, clientVars, newest>>

Init == /\ ServerInit
        /\ sends = 0
        /\ asked = {}
        /\ newest = [place \in Room \X Client |-> NotJoined]

SendJoin(c, room, client) ==
  /\ c \notin asked
  /\ asked' = asked \cup {c}
  /\ Send(c, JoinMsg(room, client))
  /\ UNCHANGED <<rooms, sends, newest>>

SendOperation(c, room, client, op) ==
  /\ sends < MaxSends
  /\ sends' = sends + 1
  /\ Send(c, OperationMsg(room, client, op))
  /\ UNCHANGED <<rooms, asked, newest>>

Handler(c) == /\ Handle(c)
              /\ newest' = IF joined' = joined THEN newest ELSE [newest EXCEPT ![joined'[c]] = c]
              /\ UNCHANGED clientVars

Network(c) == /\ \/ Open(c, "unused", <<>>)
                 \/ \E kept \in 0..Len(inbox[c]) : Disconnect(c, kept) /\ UNCHANGED stream
              /\ UNCHANGED <<rooms, clientVars, newest>>

Next ==
  \E c \in Conn :
    \/ Handler(c)
    \/ Network(c)
    \/ \E room \in Room, client \in Client : SendJoin(c, room, client)
    \/ \E room \in Room, client \in Client, op \in Op : SendOperation(c, room, client, op)

Spec == Init /\ [][Next]_vars

-----------------------------------------------------------------------------
\* The operations a message carries: those of the log in a joined message, and
\* one that is broadcast.
CarriedBy(m) == CASE m.type = "joined"    -> m.opLog
                  [] m.type = "operation" -> <<m.op>>
                  [] OTHER                -> <<>>

\* The operations a stream carries, in order.
Carried(s) ==
  LET first[n \in 0..Len(s)] == IF n = 0 THEN <<>> ELSE first[n - 1] \o CarriedBy(s[n])
  IN  first[Len(s)]

Registered(room, client, c) ==
  room \in DOMAIN rooms /\ IsActiveSender(rooms[room].peers, client, c)

\* A stream begins with its joined message, but for errors.
BeginsWithJoined(s) ==
  \E i \in DOMAIN s : s[i].type = "joined" /\ \A j \in 1..(i - 1) : s[j].type = "error"

\* A registered connection is sent the whole log of its room, each operation
\* once and in the order of the log: no gap and no repetition between the log
\* in the answer to the join and the broadcasts that follow it.  It hears of
\* nothing else before that answer (server.rs:221).
LogIsReplayedGapless ==
  \A room \in DOMAIN rooms : \A c \in PeerConns(rooms[room].peers) :
    /\ Carried(stream[c]) = rooms[room].log
    /\ BeginsWithJoined(stream[c])

TellsPeers(m) == m.type \in {"joined", "presence"}

\* The last list of peers in a stream.
LastToldPeers(s, peers) ==
  \E i \in DOMAIN s : /\ TellsPeers(s[i])
                      /\ s[i].peers = peers
                      /\ \A j \in (i + 1)..Len(s) : ~TellsPeers(s[j])

\* The last list of peers on its way to a registered connection is the current
\* one, whoever joined, left or was replaced.
PresenceIsCurrent ==
  \A room \in DOMAIN rooms : \A c \in PeerConns(rooms[room].peers) :
    LastToldPeers(stream[c], PeerList(rooms[room].peers))

\* Registered is the newest connection of a client as long as its handler runs,
\* and nothing else: the close of a connection that was replaced does not throw
\* out its successor, and no finished handler stays in a room.
NewestIsRegistered ==
  \A room \in Room, client \in Client, c \in Conn :
    Registered(room, client, c) <=> newest[<<room, client>>] = c /\ c \notin finished
=============================================================================

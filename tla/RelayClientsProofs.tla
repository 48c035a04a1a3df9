------------------------- MODULE RelayClientsProofs -------------------------
(***************************************************************************)
(* Proofs about RelayClients, for any rooms, clients, connections and      *)
(* operations.                                                             *)
(***************************************************************************)
EXTENDS RelayClients, Integers, TLAPS, WellFoundedInduction, SequenceTheorems

-----------------------------------------------------------------------------
(* The inductive invariant.                                                *)

ClientMessage == [type : {"join"}, room : Room, client : Client]
                 \cup [type : {"operation"}, room : Room, client : Client, op : Op]
                 \cup {CloseMsg}

ServerMessage == [type : {"joined"}, room : Room, client : Client, peers : SUBSET Client, opLog : Seq(Op)]
                 \cup [type : {"presence"}, room : Room, peers : SUBSET Client]
                 \cup [type : {"operation"}, room : Room, client : Client, op : Op]
                 \cup {Error}

Peers == UNION {[D -> Conn] : D \in SUBSET Client}

TypesOK ==
  /\ inbox \in [Conn -> Seq(ClientMessage)]
  /\ stream \in [Conn -> Seq(ServerMessage)]
  /\ joined \in [Conn -> (Room \X Client) \cup {NotJoined}]
  /\ newest \in [Room \X Client -> Conn \cup {NotJoined}]
  /\ finished \subseteq Conn
  /\ DOMAIN rooms \subseteq Room
  /\ \A room \in DOMAIN rooms : rooms[room] \in [peers : Peers, log : Seq(Op)]

IsJoin(m) == m.type = "join"

\* A connection joins once: its join is not sent, or in its inbox, or handled.
JoinsOnce ==
  \A c \in Conn :
    /\ joined[c] # NotJoined => c \in asked
    /\ \A i \in DOMAIN inbox[c] :
         IsJoin(inbox[c][i]) => /\ c \in asked /\ joined[c] = NotJoined
                                /\ \A j \in DOMAIN inbox[c] : IsJoin(inbox[c][j]) => i = j

NewestHasJoined ==
  \A room \in Room, client \in Client :
    newest[<<room, client>>] # NotJoined => joined[newest[<<room, client>>]] = <<room, client>>

\* A connection that has not joined is sent nothing but errors.
OnlyErrors(s) == \A i \in DOMAIN s : s[i].type = "error"
SilentBeforeJoin ==
  \A c \in Conn : joined[c] = NotJoined => OnlyErrors(stream[c]) /\ Carried(stream[c]) = <<>>

IndInv == /\ TypesOK /\ JoinsOnce /\ NewestHasJoined /\ SilentBeforeJoin
          /\ NewestIsRegistered /\ LogIsReplayedGapless /\ PresenceIsCurrent

-----------------------------------------------------------------------------
(* The operations that a stream carries.                                   *)

LEMMA LeastNumber ==
  ASSUME NEW T \in SUBSET Nat, T # {}
  PROVE  \E x \in T : \A y \in T : x <= y
<1>1. PICK x \in T : \A y \in T : <<y, x>> \notin OpToRel(<, Nat)
  BY NatLessThanWellFounded, WFMin
<1>2. \A y \in T : ~(y < x)
  BY <1>1 DEF OpToRel
<1> QED
  BY <1>2

\* What the recursive definition of Carried says of its function.
CarriesUpTo(f, s, n) ==
  f = [k \in 0..n |-> IF k = 0 THEN <<>> ELSE f[k - 1] \o CarriedBy(s[k])]

LEMMA CarriedExists ==
  ASSUME NEW s, NEW n \in Nat
  PROVE  \E f : CarriesUpTo(f, s, n)
<1> DEFINE bad == {k \in Nat : ~\E f : CarriesUpTo(f, s, k)}
<1> SUFFICES ASSUME bad # {} PROVE FALSE
  OBVIOUS
<1>1. PICK k \in bad : \A j \in bad : k <= j
  <2> HIDE DEF bad
  <2>1. bad \in SUBSET Nat
    BY DEF bad
  <2> QED
    BY <2>1, LeastNumber
<1>2. CASE k = 0
  <2>1. CarriesUpTo([j \in 0..0 |-> <<>>], s, 0)
    BY DEF CarriesUpTo
  <2> QED
    BY <2>1, <1>1, <1>2
<1>3. CASE k # 0
  <2>1. k \in Nat /\ k - 1 \in Nat /\ k - 1 \notin bad
    BY <1>1, <1>3
  <2>2. PICK f : CarriesUpTo(f, s, k - 1)
    BY <2>1
  <2> DEFINE g == [j \in 0..k |-> IF j <= k - 1 THEN f[j] ELSE f[k - 1] \o CarriedBy(s[k])]
  <2>3. ASSUME NEW j \in 0..k
        PROVE  g[j] = IF j = 0 THEN <<>> ELSE g[j - 1] \o CarriedBy(s[j])
    <3>1. CASE j = k
      BY <2>1, <1>3, <3>1
    <3>2. CASE j # k
      <4>1. f[j] = IF j = 0 THEN <<>> ELSE f[j - 1] \o CarriedBy(s[j])
        BY <2>1, <2>2, <3>2 DEF CarriesUpTo
      <4> QED
        BY <2>1, <3>2, <4>1
    <3> QED
      BY <3>1, <3>2
  <2>4. CarriesUpTo(g, s, k)
    BY <2>3 DEF CarriesUpTo
  <2> QED
    BY <2>4, <1>1
<1> QED
  BY <1>2, <1>3

LEMMA CarriedIsItsFunction ==
  ASSUME NEW s, Len(s) \in Nat
  PROVE  \E f : CarriesUpTo(f, s, Len(s)) /\ Carried(s) = f[Len(s)]
<1> DEFINE f == CHOOSE f : CarriesUpTo(f, s, Len(s))
<1>1. CarriesUpTo(f, s, Len(s))
  BY CarriedExists
<1>2. Carried(s) = f[Len(s)]
  BY DEF Carried, CarriesUpTo
<1> QED
  BY <1>1, <1>2

LEMMA CarriedOfNothing == Carried(<<>>) = <<>>
<1>1. PICK f : CarriesUpTo(f, <<>>, 0) /\ Carried(<<>>) = f[0]
  BY CarriedIsItsFunction
<1> QED
  BY <1>1 DEF CarriesUpTo

\* A message adds what it carries to what the stream carried before it.
LEMMA CarriedAppend ==
  ASSUME NEW T, NEW s \in Seq(T), NEW m \in T
  PROVE  Carried(Append(s, m)) = Carried(s) \o CarriedBy(m)
<1> DEFINE t == Append(s, m)
<1>1. /\ Len(s) \in Nat /\ Len(t) = Len(s) + 1 /\ Len(t) \in Nat
      /\ t[Len(t)] = m
      /\ \A i \in 1..Len(s) : s[i] = t[i]
  BY AppendProperties
<1> HIDE DEF t
<1>2. PICK f : CarriesUpTo(f, s, Len(s)) /\ Carried(s) = f[Len(s)]
  BY <1>1, CarriedIsItsFunction
<1>3. PICK g : CarriesUpTo(g, t, Len(t)) /\ Carried(t) = g[Len(t)]
  BY <1>1, CarriedIsItsFunction
<1>4. f[Len(s)] = g[Len(s)]
  <2> DEFINE bad == {k \in 0..Len(s) : f[k] # g[k]}
  <2> SUFFICES ASSUME bad # {} PROVE FALSE
    BY <1>1
  <2>1. PICK k \in bad : \A j \in bad : k <= j
    <3> HIDE DEF bad
    <3>1. bad \in SUBSET Nat
      BY <1>1 DEF bad
    <3> QED
      BY <3>1, LeastNumber
  <2>2. \A j \in 0..Len(s) : f[j] = IF j = 0 THEN <<>> ELSE f[j - 1] \o CarriedBy(s[j])
    BY <1>2 DEF CarriesUpTo
  <2>3. \A j \in 0..Len(t) : g[j] = IF j = 0 THEN <<>> ELSE g[j - 1] \o CarriedBy(t[j])
    BY <1>3 DEF CarriesUpTo
  <2>4. k \in 0..Len(s) /\ k \in 0..Len(t) /\ f[k] # g[k]
    BY <1>1, <2>1
  <2>5. k # 0 /\ k - 1 \in 0..Len(s) /\ s[k] = t[k]
    BY <1>1, <2>2, <2>3, <2>4
  <2>6. f[k - 1] = g[k - 1]
    BY <1>1, <2>1, <2>5
  <2> QED
    BY <2>2, <2>3, <2>4, <2>5, <2>6
<1>5. g[Len(t)] = g[Len(t) - 1] \o CarriedBy(t[Len(t)])
  <2>1. \A k \in 0..Len(t) : g[k] = IF k = 0 THEN <<>> ELSE g[k - 1] \o CarriedBy(t[k])
    BY <1>3 DEF CarriesUpTo
  <2>2. Len(t) \in 0..Len(t) /\ Len(t) # 0
    BY <1>1
  <2> QED
    BY <2>1, <2>2
<1> QED
  BY <1>1, <1>2, <1>3, <1>4, <1>5 DEF t

-----------------------------------------------------------------------------
(* A message at the end of a stream, and one taken from an inbox.          *)

LEMMA MessageAtTheEnd ==
  ASSUME NEW s \in Seq(ServerMessage), NEW m \in ServerMessage
  PROVE  /\ Append(s, m) \in Seq(ServerMessage)
         /\ BeginsWithJoined(s) => BeginsWithJoined(Append(s, m))
         /\ OnlyErrors(s) /\ m.type = "joined" => BeginsWithJoined(Append(s, m))
         /\ OnlyErrors(s) /\ m.type = "error" => OnlyErrors(Append(s, m))
         /\ \A peers : LastToldPeers(s, peers) /\ ~TellsPeers(m) => LastToldPeers(Append(s, m), peers)
         /\ TellsPeers(m) => LastToldPeers(Append(s, m), m.peers)
<1> DEFINE t == Append(s, m)
<1>1. /\ t \in Seq(ServerMessage)
      /\ Len(s) \in Nat /\ Len(t) = Len(s) + 1
      /\ DOMAIN s = 1..Len(s) /\ DOMAIN t = 1..Len(t)
      /\ t[Len(t)] = m
      /\ \A i \in 1..Len(s) : t[i] = s[i]
  BY AppendProperties, LenProperties
<1> HIDE DEF t
<1>2. BeginsWithJoined(s) => BeginsWithJoined(t)
  <2> SUFFICES ASSUME BeginsWithJoined(s) PROVE BeginsWithJoined(t)
    OBVIOUS
  <2>1. PICK i \in DOMAIN s : s[i].type = "joined" /\ \A j \in 1..(i - 1) : s[j].type = "error"
    BY DEF BeginsWithJoined
  <2>2. i \in DOMAIN t /\ t[i].type = "joined" /\ \A j \in 1..(i - 1) : t[j].type = "error"
    BY <1>1, <2>1
  <2> QED
    BY <2>2 DEF BeginsWithJoined
<1>3. OnlyErrors(s) /\ m.type = "joined" => BeginsWithJoined(t)
  <2> SUFFICES ASSUME OnlyErrors(s), m.type = "joined" PROVE BeginsWithJoined(t)
    OBVIOUS
  <2>1. /\ Len(t) \in DOMAIN t /\ t[Len(t)].type = "joined"
        /\ \A j \in 1..(Len(t) - 1) : t[j].type = "error"
    BY <1>1 DEF OnlyErrors
  <2> QED
    BY <2>1 DEF BeginsWithJoined
<1>4. OnlyErrors(s) /\ m.type = "error" => OnlyErrors(t)
  BY <1>1 DEF OnlyErrors
<1>5. ASSUME NEW peers, LastToldPeers(s, peers), ~TellsPeers(m)
      PROVE  LastToldPeers(t, peers)
  <2>1. PICK i \in DOMAIN s : /\ TellsPeers(s[i]) /\ s[i].peers = peers
                              /\ \A j \in (i + 1)..Len(s) : ~TellsPeers(s[j])
    BY <1>5 DEF LastToldPeers
  <2>2. i \in DOMAIN t /\ t[i] = s[i]
    BY <1>1
  <2>3. \A j \in (i + 1)..Len(t) : ~TellsPeers(t[j])
    BY <1>1, <1>5, <2>1
  <2> QED
    BY <2>1, <2>2, <2>3 DEF LastToldPeers
<1>6. TellsPeers(m) => LastToldPeers(t, m.peers)
  <2>1. Len(t) \in DOMAIN t /\ t[Len(t)] = m /\ \A j \in (Len(t) + 1)..Len(t) : FALSE
    BY <1>1
  <2> QED
    BY <2>1 DEF LastToldPeers
<1> QED
  BY <1>1, <1>2, <1>3, <1>4, <1>5, <1>6 DEF t

LEMMA ReadsTakesTheHead ==
  ASSUME TypesOK, JoinsOnce, NEW c \in Conn, NEW type, Reads(c, type)
  PROVE  /\ inbox' \in [Conn -> Seq(ClientMessage)]
         /\ c \notin finished /\ Head(inbox[c]) \in ClientMessage /\ Head(inbox[c]).type = type
         /\ type = "join" => c \in asked /\ joined[c] = NotJoined
         /\ type = "join" => \A i \in DOMAIN inbox'[c] : ~IsJoin(inbox'[c][i])
         /\ \A d \in Conn : \A i \in DOMAIN inbox'[d] :
              IsJoin(inbox'[d][i]) => /\ d \in asked /\ joined[d] = NotJoined
                                      /\ \A j \in DOMAIN inbox'[d] : IsJoin(inbox'[d][j]) => i = j
<1>1. /\ inbox[c] \in Seq(ClientMessage) /\ inbox[c] # <<>>
      /\ Head(inbox[c]).type = type /\ c \notin finished
      /\ inbox' = [inbox EXCEPT ![c] = Tail(inbox[c])]
  BY DEF TypesOK, Reads
<1>2. /\ Head(inbox[c]) \in ClientMessage /\ Tail(inbox[c]) \in Seq(ClientMessage)
      /\ Len(inbox[c]) \in Nat \ {0}
      /\ Len(Tail(inbox[c])) = Len(inbox[c]) - 1
      /\ \A i \in 1..Len(Tail(inbox[c])) : Tail(inbox[c])[i] = inbox[c][i + 1]
      /\ Head(inbox[c]) = inbox[c][1]
  BY <1>1, HeadTailProperties, EmptySeq
<1>3. inbox' \in [Conn -> Seq(ClientMessage)]
  BY <1>1, <1>2 DEF TypesOK
<1>4. \A d \in Conn : \A i \in DOMAIN inbox[d] :
        IsJoin(inbox[d][i]) => /\ d \in asked /\ joined[d] = NotJoined
                               /\ \A j \in DOMAIN inbox[d] : IsJoin(inbox[d][j]) => i = j
  BY DEF JoinsOnce
<1>5. DOMAIN inbox[c] = 1..Len(inbox[c]) /\ DOMAIN inbox'[c] = 1..(Len(inbox[c]) - 1)
      /\ \A i \in DOMAIN inbox'[c] : inbox'[c][i] = inbox[c][i + 1]
  <2>1. inbox'[c] = Tail(inbox[c])
    BY <1>1 DEF TypesOK
  <2>2. DOMAIN Tail(inbox[c]) = 1..Len(Tail(inbox[c])) /\ DOMAIN inbox[c] = 1..Len(inbox[c])
    BY <1>1, <1>2, LenProperties
  <2> QED
    BY <1>2, <2>1, <2>2
<1>6. type = "join" => c \in asked /\ joined[c] = NotJoined /\ IsJoin(inbox[c][1]) /\ 1 \in DOMAIN inbox[c]
  BY <1>1, <1>2, <1>4, <1>5 DEF IsJoin
<1>7. type = "join" => \A i \in DOMAIN inbox'[c] : ~IsJoin(inbox'[c][i])
  <2> SUFFICES ASSUME type = "join", NEW i \in DOMAIN inbox'[c], IsJoin(inbox'[c][i]) PROVE FALSE
    OBVIOUS
  <2>1. i \in 1..(Len(inbox[c]) - 1) /\ i + 1 \in DOMAIN inbox[c] /\ IsJoin(inbox[c][i + 1])
    BY <1>2, <1>5
  <2>2. i + 1 = 1
    BY <1>4, <1>6, <2>1
  <2> QED
    BY <2>1, <2>2
<1>8. ASSUME NEW d \in Conn, NEW i \in DOMAIN inbox'[d], IsJoin(inbox'[d][i])
      PROVE  /\ d \in asked /\ joined[d] = NotJoined
             /\ \A j \in DOMAIN inbox'[d] : IsJoin(inbox'[d][j]) => i = j
  <2>1. CASE d = c
    <3>1. i \in 1..(Len(inbox[c]) - 1) /\ i + 1 \in DOMAIN inbox[c] /\ IsJoin(inbox[c][i + 1])
      BY <1>2, <1>5, <1>8, <2>1
    <3>2. ASSUME NEW j \in DOMAIN inbox'[d], IsJoin(inbox'[d][j]) PROVE i = j
      <4>1. j \in 1..(Len(inbox[c]) - 1) /\ j + 1 \in DOMAIN inbox[c] /\ IsJoin(inbox[c][j + 1])
        BY <1>2, <1>5, <3>2, <2>1
      <4>2. i + 1 = j + 1
        BY <1>4, <3>1, <4>1
      <4> QED
        BY <3>1, <4>1, <4>2
    <3> QED
      BY <1>4, <2>1, <3>1, <3>2
  <2>2. CASE d # c
    <3>1. inbox'[d] = inbox[d]
      BY <1>1, <2>2 DEF TypesOK
    <3> QED
      BY <1>4, <1>8, <3>1
  <2> QED
    BY <2>1, <2>2
<1> QED
  BY <1>1, <1>2, <1>3, <1>6, <1>7, <1>8

-----------------------------------------------------------------------------
(* A registered connection.                                                *)

\* What the streams promise to connection c of a room.
Follows(room, c) == /\ Carried(stream[c]) = rooms[room].log
                    /\ BeginsWithJoined(stream[c])
                    /\ LastToldPeers(stream[c], DOMAIN rooms[room].peers)

AllFollow == \A room \in DOMAIN rooms : \A x \in DOMAIN rooms[room].peers :
               Follows(room, rooms[room].peers[x])

LEMMA PromisesAreFollowing == LogIsReplayedGapless /\ PresenceIsCurrent <=> AllFollow
BY DEF LogIsReplayedGapless, PresenceIsCurrent, AllFollow, Follows, PeerConns, PeerList, Range

LEMMA PromisesAreFollowingNext == AllFollow' => LogIsReplayedGapless' /\ PresenceIsCurrent'
BY DEF LogIsReplayedGapless, PresenceIsCurrent, AllFollow, Follows, PeerConns, PeerList, Range

LEMMA PeersAreFunctions ==
  ASSUME TypesOK, NEW room \in DOMAIN rooms
  PROVE  /\ room \in Room
         /\ rooms[room] = [peers |-> rooms[room].peers, log |-> rooms[room].log]
         /\ rooms[room].log \in Seq(Op)
         /\ DOMAIN rooms[room].peers \subseteq Client
         /\ rooms[room].peers \in [DOMAIN rooms[room].peers -> Conn]
<1>1. room \in Room /\ rooms[room] \in [peers : Peers, log : Seq(Op)]
  BY DEF TypesOK
<1>2. PICK D \in SUBSET Client : rooms[room].peers \in [D -> Conn]
  BY <1>1 DEF Peers
<1> QED
  BY <1>1, <1>2

LEMMA RegisteredIsNewest ==
  ASSUME IndInv, NEW room \in DOMAIN rooms, NEW x \in DOMAIN rooms[room].peers,
         NEW c, c = rooms[room].peers[x]
  PROVE  /\ room \in Room /\ x \in Client /\ c \in Conn \ finished
         /\ newest[<<room, x>>] = c /\ joined[c] = <<room, x>>
         /\ Follows(room, c)
<1>1. room \in Room /\ x \in Client /\ c \in Conn
  BY PeersAreFunctions DEF IndInv
<1>2. Registered(room, x, c)
  BY DEF Registered, IsActiveSender
<1>3. newest[<<room, x>>] = c /\ c \notin finished
  BY <1>1, <1>2 DEF IndInv, NewestIsRegistered
<1>4. joined[c] = <<room, x>>
  BY <1>1, <1>3, ConnAssumption DEF IndInv, NewestHasJoined
<1>5. Follows(room, c)
  BY PromisesAreFollowing DEF IndInv, AllFollow
<1> QED
  BY <1>1, <1>3, <1>4, <1>5

LEMMA PairIsNotNothing == \A x, y : <<x, y>> # NotJoined
<1>1. \A x, y : Len(<<x, y>>) = 2 /\ Len(<<>>) = 0
  OBVIOUS
<1> QED
  BY <1>1 DEF NotJoined

\* The parts of the invariant that say nothing of the inboxes.
ServerInv == NewestHasJoined /\ SilentBeforeJoin /\ NewestIsRegistered /\ AllFollow

LEMMA ErrorTypes ==
  /\ Error \in ServerMessage /\ Error.type = "error"
  /\ CarriedBy(Error) = <<>> /\ ~TellsPeers(Error)
BY DEF Error, ServerMessage, CarriedBy, TellsPeers

\* An error changes nothing for anyone.
LEMMA ErrorIsHarmless ==
  ASSUME IndInv, NEW c \in Conn, stream' = SendTo({c}, Error),
         UNCHANGED <<rooms, joined, newest, finished>>
  PROVE  stream' \in [Conn -> Seq(ServerMessage)] /\ ServerInv'
<1>1. ASSUME NEW d \in Conn
      PROVE  /\ stream'[d] \in Seq(ServerMessage)
             /\ OnlyErrors(stream[d]) => OnlyErrors(stream'[d])
             /\ BeginsWithJoined(stream[d]) => BeginsWithJoined(stream'[d])
             /\ \A peers : LastToldPeers(stream[d], peers) => LastToldPeers(stream'[d], peers)
             /\ \A l \in Seq(Op) : Carried(stream[d]) = l => Carried(stream'[d]) = l
  <2>1. stream[d] \in Seq(ServerMessage)
    BY DEF IndInv, TypesOK
  <2>2. stream'[d] = stream[d] \/ stream'[d] = Append(stream[d], Error)
    BY DEF SendTo
  <2>3. \A l \in Seq(Op) : l \o <<>> = l
    BY ConcatEmptySeq
  <2>4. Carried(Append(stream[d], Error)) = Carried(stream[d]) \o <<>>
    BY <2>1, CarriedAppend, ErrorTypes
  <2> QED
    BY <2>1, <2>2, <2>3, <2>4, MessageAtTheEnd, ErrorTypes
<1>2. stream' \in [Conn -> Seq(ServerMessage)]
  BY <1>1 DEF SendTo
<1>3. <<>> \in Seq(Op)
  OBVIOUS
<1>4. SilentBeforeJoin'
  BY <1>1, <1>3 DEF IndInv, SilentBeforeJoin
<1>5. NewestHasJoined' /\ NewestIsRegistered'
  BY DEF IndInv, NewestHasJoined, NewestIsRegistered, Registered
<1>6. ASSUME NEW room \in DOMAIN rooms, NEW x \in DOMAIN rooms[room].peers
      PROVE  Follows(room, rooms[room].peers[x])'
  <2>1. Follows(room, rooms[room].peers[x]) /\ rooms[room].peers[x] \in Conn
    BY RegisteredIsNewest
  <2>2. rooms[room].log \in Seq(Op)
    BY PeersAreFunctions DEF IndInv
  <2> QED
    BY <1>1, <2>1, <2>2 DEF Follows
<1> QED
  BY <1>2, <1>4, <1>5, <1>6 DEF ServerInv, AllFollow

-----------------------------------------------------------------------------
(* The operation that a registered connection sends.                       *)

\* A connection is in the room that it joined, and in no other.
LEMMA InOneRoom ==
  ASSUME IndInv, NEW room \in DOMAIN rooms, NEW d \in PeerConns(rooms[room].peers)
  PROVE  /\ d \in Conn /\ joined[d] # NotJoined
         /\ \A other \in DOMAIN rooms : d \in PeerConns(rooms[other].peers) => other = room
<1>1. PICK x \in DOMAIN rooms[room].peers : d = rooms[room].peers[x]
  BY DEF PeerConns, Range
<1>2. joined[d] = <<room, x>> /\ d \in Conn
  BY <1>1, RegisteredIsNewest
<1>3. ASSUME NEW other \in DOMAIN rooms, d \in PeerConns(rooms[other].peers)
      PROVE  other = room
  <2>1. PICK y \in DOMAIN rooms[other].peers : d = rooms[other].peers[y]
    BY <1>3 DEF PeerConns, Range
  <2>2. joined[d] = <<other, y>>
    BY <2>1, RegisteredIsNewest
  <2> QED
    BY <1>2, <2>2
<1> QED
  BY <1>2, <1>3, PairIsNotNothing

LEMMA OperationStep ==
  ASSUME IndInv, NEW c \in Conn, AcceptOperation(c), newest' = newest
  PROVE  /\ stream' \in [Conn -> Seq(ServerMessage)]
         /\ DOMAIN rooms' \subseteq Room
         /\ \A room \in DOMAIN rooms' : rooms'[room] \in [peers : Peers, log : Seq(Op)]
         /\ ServerInv'
<1> DEFINE room == Head(inbox[c]).room
           client == Head(inbox[c]).client
           op == Head(inbox[c]).op
           old == rooms[room].log
           log == AppendOperation(old, op)
           peers == rooms[room].peers
           msg == OperationMsg(room, client, op)
<1>1. /\ room \in DOMAIN rooms
      /\ rooms' = SetRoom(room, [rooms[room] EXCEPT !.log = log])
      /\ stream' = SendTo(Recipients(log # old, peers), msg)
      /\ joined' = joined /\ finished' = finished
      /\ Reads(c, "operation")
  BY DEF AcceptOperation
<1>2. Head(inbox[c]) \in ClientMessage /\ Head(inbox[c]).type = "operation"
  BY <1>1, ReadsTakesTheHead DEF IndInv
<1>3. room \in Room /\ client \in Client /\ op \in Op
  BY <1>2 DEF ClientMessage, CloseMsg
<1>4. msg \in ServerMessage /\ ~TellsPeers(msg) /\ CarriedBy(msg) = <<op>>
  BY <1>3 DEF OperationMsg, ServerMessage, TellsPeers, CarriedBy
<1>5. /\ rooms[room] = [peers |-> peers, log |-> old] /\ old \in Seq(Op)
      /\ rooms[room] \in [peers : Peers, log : Seq(Op)]
  BY <1>1, PeersAreFunctions DEF IndInv, TypesOK
<1> HIDE DEF room, client, op, old, peers, msg
<1>6. log = old \/ (log = Append(old, op) /\ log # old)
  <2>1. Append(old, op) # old
    BY <1>3, <1>5, AppendProperties
  <2> QED
    BY <2>1 DEF AppendOperation
<1>7. log \in Seq(Op)
  BY <1>3, <1>5, <1>6
<1> HIDE DEF log
<1>8. /\ DOMAIN rooms' = DOMAIN rooms
      /\ rooms'[room] = [peers |-> peers, log |-> log]
      /\ \A other \in DOMAIN rooms : other # room => rooms'[other] = rooms[other]
  <2>1. [rooms[room] EXCEPT !.log = log] = [peers |-> peers, log |-> log]
    BY <1>5
  <2>2. rooms' = [other \in DOMAIN rooms \cup {room} |->
                    IF other = room THEN [peers |-> peers, log |-> log] ELSE rooms[other]]
    BY <1>1, <2>1 DEF SetRoom
  <2> QED
    BY <1>1, <2>2
<1>9. DOMAIN rooms' \subseteq Room
      /\ \A other \in DOMAIN rooms' : rooms'[other] \in [peers : Peers, log : Seq(Op)]
  <2>1. DOMAIN rooms \subseteq Room /\ \A other \in DOMAIN rooms : rooms[other] \in [peers : Peers, log : Seq(Op)]
    BY DEF IndInv, TypesOK
  <2>2. peers \in Peers
    BY <1>5
  <2> QED
    BY <1>7, <1>8, <2>1, <2>2
<1>10. ASSUME NEW d \in Conn
       PROVE  /\ stream[d] \in Seq(ServerMessage)
              /\ stream'[d] = IF log # old /\ d \in PeerConns(peers) THEN Append(stream[d], msg) ELSE stream[d]
  BY <1>1 DEF SendTo, Recipients, IndInv, TypesOK
<1>11. stream' \in [Conn -> Seq(ServerMessage)]
  <2>1. \A d \in Conn : stream'[d] \in Seq(ServerMessage)
    BY <1>4, <1>10, MessageAtTheEnd
  <2>2. stream' = [d \in Conn |-> stream'[d]]
    BY <1>1 DEF SendTo
  <2> QED
    BY <2>1, <2>2
<1>12. SilentBeforeJoin'
  <2> SUFFICES ASSUME NEW d \in Conn, joined[d] = NotJoined
               PROVE  OnlyErrors(stream'[d]) /\ Carried(stream'[d]) = <<>>
    BY <1>1 DEF SilentBeforeJoin
  <2>1. d \notin PeerConns(peers)
    BY <1>1, InOneRoom DEF peers
  <2> QED
    BY <1>10, <2>1 DEF IndInv, SilentBeforeJoin
<1>13. NewestHasJoined' /\ NewestIsRegistered'
  <2>1. NewestHasJoined'
    BY <1>1 DEF IndInv, NewestHasJoined
  <2>2. \A r, x, d : Registered(r, x, d)' <=> Registered(r, x, d)
    BY <1>1, <1>8 DEF Registered, IsActiveSender, peers
  <2> QED
    BY <1>1, <2>1, <2>2 DEF IndInv, NewestIsRegistered
<1>14. ASSUME NEW other \in DOMAIN rooms', NEW x \in DOMAIN rooms'[other].peers
       PROVE  Follows(other, rooms[other].peers[x])' 
  <2> DEFINE d == rooms[other].peers[x]
  <2>1. /\ other \in DOMAIN rooms /\ x \in DOMAIN rooms[other].peers
        /\ rooms'[other].peers = rooms[other].peers
    BY <1>1, <1>8, <1>14 DEF peers
  <2>2. d \in Conn /\ Follows(other, d) /\ d \in PeerConns(rooms[other].peers)
    BY <2>1, RegisteredIsNewest DEF PeerConns, Range
  <2> HIDE DEF d
  <2>3. CASE other = room /\ log # old
    <3>1. stream'[d] = Append(stream[d], msg)
      BY <1>10, <2>2, <2>3 DEF peers
    <3>2. Carried(stream'[d]) = log
      <4>1. Carried(stream[d]) = old
        BY <2>2, <2>3 DEF Follows, old
      <4>2. Carried(stream'[d]) = old \o <<op>>
        BY <1>4, <1>10, <2>2, <3>1, <4>1, CarriedAppend
      <4> QED
        BY <1>3, <1>5, <1>6, <2>3, <4>2, AppendIsConcat
    <3>3. BeginsWithJoined(stream'[d]) /\ LastToldPeers(stream'[d], DOMAIN peers)
      BY <1>4, <1>10, <2>2, <2>3, <3>1, MessageAtTheEnd DEF Follows, peers
    <3> QED
      <4>1. rooms'[other].peers[x] = d /\ rooms'[other] = [peers |-> peers, log |-> log]
        BY <1>8, <2>1, <2>3 DEF d
      <4> QED
        BY <3>2, <3>3, <4>1 DEF Follows
  <2>4. CASE other # room \/ log = old
    <3>1. stream'[d] = stream[d]
      BY <1>1, <1>10, <2>1, <2>2, <2>4, InOneRoom DEF peers
    <3>2. rooms'[other] = rooms[other]
      BY <1>1, <1>5, <1>8, <2>1, <2>4
    <3> QED
      <4>1. rooms'[other].peers[x] = d
        BY <3>2 DEF d
      <4> QED
        BY <2>2, <3>1, <3>2, <4>1 DEF Follows
  <2> QED
    BY <2>3, <2>4
<1>15. AllFollow'
  BY <1>1, <1>8, <1>14 DEF AllFollow, peers
<1> QED
  BY <1>9, <1>11, <1>12, <1>13, <1>15 DEF ServerInv

-----------------------------------------------------------------------------
(* A join.                                                                 *)

LEMMA JoinStep ==
  ASSUME IndInv, NEW c \in Conn, HandleJoin(c),
         newest' = IF joined' = joined THEN newest ELSE [newest EXCEPT ![joined'[c]] = c]
  PROVE  /\ stream' \in [Conn -> Seq(ServerMessage)]
         /\ joined' \in [Conn -> (Room \X Client) \cup {NotJoined}]
         /\ newest' \in [Room \X Client -> Conn \cup {NotJoined}]
         /\ finished' = finished
         /\ DOMAIN rooms' \subseteq Room
         /\ \A room \in DOMAIN rooms' : rooms'[room] \in [peers : Peers, log : Seq(Op)]
         /\ joined'[c] # NotJoined /\ \A d \in Conn \ {c} : joined'[d] = joined[d]
         /\ ServerInv'
<1> DEFINE room == Head(inbox[c]).room
           client == Head(inbox[c]).client
           before == RoomOf(room).peers
           log == RoomOf(room).log
           peers == AddPeer(before, client, c)
           answer == Joined(room, client, PeerList(peers), log)
           notice == Presence(room, PeerList(peers))
<1>1. /\ Reads(c, "join")
      /\ rooms' = SetRoom(room, [RoomOf(room) EXCEPT !.peers = peers])
      /\ joined' = [joined EXCEPT ![c] = <<room, client>>]
      /\ stream' = [x \in Conn |-> stream[x] \o JoinReplies(x, c, peers, answer, notice)]
      /\ finished' = finished
  BY DEF HandleJoin
<1>2. /\ Head(inbox[c]) \in ClientMessage /\ Head(inbox[c]).type = "join"
      /\ joined[c] = NotJoined /\ c \notin finished
  BY <1>1, ReadsTakesTheHead DEF IndInv
<1>3. room \in Room /\ client \in Client
  BY <1>2 DEF ClientMessage, CloseMsg
<1>4. /\ RoomOf(room) = [peers |-> before, log |-> log]
      /\ before \in Peers /\ log \in Seq(Op)
      /\ room \in DOMAIN rooms => rooms[room] = [peers |-> before, log |-> log]
      /\ room \notin DOMAIN rooms => DOMAIN before = {}
  <2>1. CASE room \in DOMAIN rooms
    BY <2>1, PeersAreFunctions DEF RoomOf, IndInv, TypesOK
  <2>2. CASE room \notin DOMAIN rooms
    <3>1. NoPeers \in [{} -> Conn] /\ {} \in SUBSET Client
      BY DEF NoPeers
    <3>2. NoPeers \in Peers
      BY <3>1 DEF Peers
    <3>3. RoomOf(room) = [peers |-> NoPeers, log |-> <<>>]
      BY <2>2 DEF RoomOf, NewRoom
    <3>4. before = NoPeers /\ log = <<>>
      BY <3>3
    <3>5. DOMAIN NoPeers = {} /\ <<>> \in Seq(Op)
      BY <3>1
    <3> HIDE DEF before, log
    <3> QED
      BY <2>2, <3>2, <3>3, <3>4, <3>5
  <2> QED
    BY <2>1, <2>2
<1> HIDE DEF room, client, before, log
<1>5. PICK D \in SUBSET Client : before \in [D -> Conn]
  BY <1>4 DEF Peers
<1>6. /\ DOMAIN peers = DOMAIN before \cup {client}
      /\ peers[client] = c
      /\ \A x \in DOMAIN before : x # client => peers[x] = before[x]
      /\ PeerConns(peers) \subseteq PeerConns(before) \cup {c}
      /\ c \in PeerConns(peers)
  BY DEF AddPeer, PeerConns, Range
<1>7. peers \in Peers /\ PeerList(peers) = DOMAIN peers /\ DOMAIN peers \subseteq Client
  <2>1. DOMAIN peers \in SUBSET Client
    BY <1>3, <1>5, <1>6
  <2>2. peers \in [DOMAIN peers -> Conn]
    BY <1>5 DEF AddPeer
  <2> QED
    BY <2>1, <2>2 DEF Peers, PeerList
<1>8. /\ answer \in ServerMessage /\ answer.type = "joined" /\ CarriedBy(answer) = log
      /\ notice \in ServerMessage /\ TellsPeers(notice) /\ CarriedBy(notice) = <<>>
      /\ notice.peers = DOMAIN peers
  BY <1>3, <1>4, <1>7 DEF Joined, Presence, ServerMessage, CarriedBy, TellsPeers
<1> HIDE DEF peers, answer, notice
<1>9. /\ DOMAIN rooms' = DOMAIN rooms \cup {room}
      /\ rooms'[room] = [peers |-> peers, log |-> log]
      /\ \A other \in DOMAIN rooms : other # room => rooms'[other] = rooms[other]
  <2>1. [RoomOf(room) EXCEPT !.peers = peers] = [peers |-> peers, log |-> log]
    BY <1>4
  <2>2. rooms' = [other \in DOMAIN rooms \cup {room} |->
                    IF other = room THEN [peers |-> peers, log |-> log] ELSE rooms[other]]
    BY <1>1, <2>1 DEF SetRoom
  <2> QED
    BY <2>2
<1>10. DOMAIN rooms' \subseteq Room
       /\ \A other \in DOMAIN rooms' : rooms'[other] \in [peers : Peers, log : Seq(Op)]
  <2>1. DOMAIN rooms \subseteq Room /\ \A other \in DOMAIN rooms : rooms[other] \in [peers : Peers, log : Seq(Op)]
    BY DEF IndInv, TypesOK
  <2> QED
    BY <1>3, <1>4, <1>7, <1>9, <2>1
<1>11. /\ joined'[c] = <<room, client>> /\ joined'[c] # NotJoined
       /\ \A d \in Conn \ {c} : joined'[d] = joined[d]
       /\ joined' \in [Conn -> (Room \X Client) \cup {NotJoined}]
  <2>1. joined \in [Conn -> (Room \X Client) \cup {NotJoined}]
    BY DEF IndInv, TypesOK
  <2> QED
    BY <1>1, <1>3, <2>1, PairIsNotNothing
<1>12. /\ newest' \in [Room \X Client -> Conn \cup {NotJoined}]
       /\ newest'[<<room, client>>] = c
       /\ \A place \in Room \X Client : place # <<room, client>> => newest'[place] = newest[place]
  <2>1. newest \in [Room \X Client -> Conn \cup {NotJoined}] /\ <<room, client>> \in Room \X Client
    BY <1>3 DEF IndInv, TypesOK
  <2>2. joined' # joined
    BY <1>2, <1>11
  <2>3. newest' = [newest EXCEPT ![<<room, client>>] = c]
    BY <1>11, <2>2
  <2> QED
    BY <2>1, <2>3
<1>13. ASSUME NEW d \in Conn, d # c
       PROVE  /\ stream[d] \in Seq(ServerMessage)
              /\ stream'[d] = IF d \in PeerConns(peers) THEN Append(stream[d], notice) ELSE stream[d]
  <2>1. stream[d] \in Seq(ServerMessage)
    BY DEF IndInv, TypesOK
  <2>2. stream'[d] = stream[d] \o JoinReplies(d, c, peers, answer, notice)
    BY <1>1
  <2>3. JoinReplies(d, c, peers, answer, notice) = <<>> \o (IF d \in PeerConns(peers) THEN <<notice>> ELSE <<>>)
    BY <1>13 DEF JoinReplies
  <2>4. <<>> \o <<>> = <<>> /\ <<>> \o <<notice>> = <<notice>>
    BY <1>8, ConcatEmptySeq
  <2>5. stream[d] \o <<>> = stream[d] /\ stream[d] \o <<notice>> = Append(stream[d], notice)
    BY <1>8, <2>1, ConcatEmptySeq, AppendIsConcat
  <2> QED
    BY <2>1, <2>2, <2>3, <2>4, <2>5
<1>14. /\ stream[c] \in Seq(ServerMessage)
       /\ stream'[c] = Append(Append(stream[c], answer), notice)
  <2>1. stream[c] \in Seq(ServerMessage)
    BY DEF IndInv, TypesOK
  <2>2. stream'[c] = stream[c] \o (<<answer>> \o <<notice>>)
    BY <1>1, <1>6 DEF JoinReplies
  <2>3. <<answer>> \in Seq(ServerMessage) /\ <<notice>> \in Seq(ServerMessage)
    BY <1>8
  <2>4. stream'[c] = (stream[c] \o <<answer>>) \o <<notice>>
    BY <2>1, <2>2, <2>3, ConcatAssociative
  <2>5. stream[c] \o <<answer>> = Append(stream[c], answer) /\ Append(stream[c], answer) \in Seq(ServerMessage)
    BY <1>8, <2>1, AppendIsConcat, AppendProperties
  <2> DEFINE s == Append(stream[c], answer)
  <2>6. s \in Seq(ServerMessage) /\ stream'[c] = s \o <<notice>>
    BY <2>4, <2>5
  <2> HIDE DEF s
  <2>7. stream'[c] = Append(s, notice)
    BY <1>8, <2>6, AppendIsConcat
  <2> QED
    BY <2>1, <2>7 DEF s
<1>15. stream' \in [Conn -> Seq(ServerMessage)]
  <2>1. \A d \in Conn : stream'[d] \in Seq(ServerMessage)
    BY <1>8, <1>13, <1>14, MessageAtTheEnd
  <2>2. stream' = [d \in Conn |-> stream'[d]]
    BY <1>1
  <2> QED
    BY <2>1, <2>2
<1>16. ASSUME NEW d \in PeerConns(before)
       PROVE  d \in Conn /\ d # c /\ joined[d] # NotJoined /\ room \in DOMAIN rooms
  <2>1. room \in DOMAIN rooms /\ d \in PeerConns(rooms[room].peers)
    BY <1>4 DEF PeerConns, Range
  <2> QED
    BY <1>2, <2>1, InOneRoom
<1>17. SilentBeforeJoin'
  <2> SUFFICES ASSUME NEW d \in Conn, joined'[d] = NotJoined
               PROVE  OnlyErrors(stream'[d]) /\ Carried(stream'[d]) = <<>>
    BY DEF SilentBeforeJoin
  <2>1. d # c /\ joined[d] = NotJoined
    BY <1>11
  <2>2. d \notin PeerConns(peers)
    BY <1>6, <1>16, <2>1
  <2> QED
    BY <1>13, <2>1, <2>2 DEF IndInv, SilentBeforeJoin
<1>18. NewestHasJoined'
  <2> SUFFICES ASSUME NEW r \in Room, NEW x \in Client, newest'[<<r, x>>] # NotJoined
               PROVE  joined'[newest'[<<r, x>>]] = <<r, x>>
    BY DEF NewestHasJoined
  <2>1. CASE r = room /\ x = client
    BY <1>11, <1>12, <2>1
  <2>2. CASE ~(r = room /\ x = client)
    <3>1. newest'[<<r, x>>] = newest[<<r, x>>] /\ newest[<<r, x>>] \in Conn
      BY <1>12, <2>2 DEF IndInv, TypesOK
    <3>2. joined[newest[<<r, x>>]] = <<r, x>>
      BY <3>1 DEF IndInv, NewestHasJoined
    <3> QED
      BY <1>2, <1>11, <3>1, <3>2, PairIsNotNothing
  <2> QED
    BY <2>1, <2>2
<1>19. NewestIsRegistered'
  <2> SUFFICES ASSUME NEW r \in Room, NEW x \in Client, NEW d \in Conn
               PROVE  Registered(r, x, d)' <=> newest'[<<r, x>>] = d /\ d \notin finished
    BY <1>1 DEF NewestIsRegistered
  <2>1. CASE r = room /\ x = client
    <3>1. Registered(r, x, d)' <=> d = c
      BY <1>6, <1>9, <2>1 DEF Registered, IsActiveSender
    <3> QED
      BY <1>2, <1>12, <2>1, <3>1
  <2>2. CASE ~(r = room /\ x = client)
    <3>1. Registered(r, x, d)' <=> Registered(r, x, d)
      <4>1. CASE r # room
        BY <1>9, <4>1 DEF Registered, IsActiveSender
      <4>2. CASE r = room /\ x # client
        <5>1. Registered(r, x, d)' <=> x \in DOMAIN before /\ before[x] = d
          BY <1>6, <1>9, <4>2 DEF Registered, IsActiveSender
        <5>2. Registered(r, x, d) <=> x \in DOMAIN before /\ before[x] = d
          BY <1>4, <4>2 DEF Registered, IsActiveSender
        <5> QED
          BY <5>1, <5>2
      <4> QED
        BY <2>2, <4>1, <4>2
    <3>2. newest'[<<r, x>>] = newest[<<r, x>>]
      BY <1>12, <2>2
    <3> QED
      BY <3>1, <3>2 DEF IndInv, NewestIsRegistered
  <2> QED
    BY <2>1, <2>2
<1>20. ASSUME NEW other \in DOMAIN rooms', NEW x \in DOMAIN rooms'[other].peers,
              NEW d, d = rooms'[other].peers[x]
       PROVE  /\ Carried(stream'[d]) = rooms'[other].log
              /\ BeginsWithJoined(stream'[d])
              /\ LastToldPeers(stream'[d], DOMAIN rooms'[other].peers)
  <2>1. CASE other = room /\ x = client
    <3>1. d = c /\ rooms'[other] = [peers |-> peers, log |-> log]
      BY <1>6, <1>9, <1>20, <2>1
    <3>2. OnlyErrors(stream[c]) /\ Carried(stream[c]) = <<>>
      BY <1>2 DEF IndInv, SilentBeforeJoin
    <3> DEFINE s == Append(stream[c], answer)
    <3>3. s \in Seq(ServerMessage) /\ BeginsWithJoined(s)
      BY <1>8, <1>14, <3>2, MessageAtTheEnd
    <3>4. Carried(s) = log
      <4>1. Carried(s) = <<>> \o log
        BY <1>8, <1>14, <3>2, CarriedAppend
      <4> QED
        BY <1>4, <4>1, ConcatEmptySeq
    <3>5. stream'[c] = Append(s, notice)
      BY <1>14
    <3> HIDE DEF s
    <3>6. Carried(stream'[c]) = log
      <4>1. Carried(stream'[c]) = log \o <<>>
        BY <1>8, <3>3, <3>4, <3>5, CarriedAppend
      <4> QED
        BY <1>4, <4>1, ConcatEmptySeq
    <3>7. BeginsWithJoined(stream'[c]) /\ LastToldPeers(stream'[c], DOMAIN peers)
      BY <1>8, <3>3, <3>5, MessageAtTheEnd
    <3> QED
      BY <3>1, <3>6, <3>7
  <2>2. CASE other = room /\ x # client
    <3>1. /\ rooms'[other] = [peers |-> peers, log |-> log]
          /\ x \in DOMAIN before /\ d = before[x] /\ d \in PeerConns(peers)
      BY <1>6, <1>9, <1>20, <2>2 DEF PeerConns, Range
    <3>2. d \in Conn /\ d # c /\ room \in DOMAIN rooms
      BY <1>16, <3>1 DEF PeerConns, Range
    <3>3. Follows(room, d) /\ rooms[room].log = log
      <4>1. rooms[room].peers = before /\ rooms[room].log = log
        BY <1>4, <3>2
      <4>2. x \in DOMAIN rooms[room].peers /\ d = rooms[room].peers[x]
        BY <3>1, <4>1
      <4> QED
        BY <3>2, <4>1, <4>2, RegisteredIsNewest
    <3>4. stream[d] \in Seq(ServerMessage) /\ stream'[d] = Append(stream[d], notice)
      BY <1>13, <3>1, <3>2
    <3>5. Carried(stream'[d]) = log \o <<>>
      <4>1. Carried(stream[d]) = log
        BY <3>3 DEF Follows
      <4>2. Carried(stream'[d]) = Carried(stream[d]) \o CarriedBy(notice)
        BY <1>8, <3>4, CarriedAppend
      <4> QED
        BY <1>8, <4>1, <4>2
    <3>6. Carried(stream'[d]) = log
      BY <1>4, <3>5, ConcatEmptySeq
    <3>7. BeginsWithJoined(stream'[d]) /\ LastToldPeers(stream'[d], DOMAIN peers)
      BY <1>8, <3>3, <3>4, MessageAtTheEnd DEF Follows
    <3> QED
      BY <3>1, <3>6, <3>7
  <2>3. CASE other # room
    <3>1. other \in DOMAIN rooms /\ rooms'[other] = rooms[other]
      BY <1>9, <2>3
    <3>2. d \in PeerConns(rooms[other].peers) /\ Follows(other, d) /\ d \in Conn
      BY <1>20, <3>1, RegisteredIsNewest DEF PeerConns, Range
    <3>3. d # c
      BY <1>2, <3>1, <3>2, InOneRoom
    <3>4. d \notin PeerConns(before)
      <4> SUFFICES ASSUME d \in PeerConns(before) PROVE FALSE
        OBVIOUS
      <4>1. room \in DOMAIN rooms /\ d \in PeerConns(rooms[room].peers)
        BY <1>4, <1>16
      <4> QED
        BY <2>3, <3>1, <3>2, <4>1, InOneRoom
    <3>5. stream'[d] = stream[d]
      BY <1>6, <1>13, <3>2, <3>3, <3>4
    <3> QED
      BY <3>1, <3>2, <3>5 DEF Follows
  <2> QED
    BY <2>1, <2>2, <2>3
<1>21. AllFollow'
  BY <1>20 DEF AllFollow, Follows
<1> QED
  BY <1>1, <1>10, <1>11, <1>12, <1>15, <1>17, <1>18, <1>19, <1>21 DEF ServerInv

-----------------------------------------------------------------------------
(* The end of a connection.                                                *)

\* Nobody but c leaves.
LeavesAlone(c) == \A room \in Room, x \in Client, d \in Conn :
                    Registered(room, x, d)' <=> Registered(room, x, d) /\ d # c

LEMMA NewestAfterClose ==
  ASSUME IndInv, NEW c \in Conn, UNCHANGED <<joined, newest>>,
         finished' = finished \cup {c}, LeavesAlone(c)
  PROVE  NewestHasJoined' /\ NewestIsRegistered'
BY DEF LeavesAlone, IndInv, NewestHasJoined, NewestIsRegistered

\* A connection without a room, or whose room is gone.
LEMMA CloseWithoutRoom ==
  ASSUME IndInv, NEW c \in Conn, joined[c] = NotJoined \/ joined[c][1] \notin DOMAIN rooms,
         UNCHANGED <<rooms, stream, joined, newest>>, finished' = finished \cup {c}
  PROVE  ServerInv'
<1>1. ASSUME NEW room \in Room, NEW x \in Client, NEW d \in Conn
      PROVE  Registered(room, x, d)' <=> Registered(room, x, d) /\ d # c
  <2>1. Registered(room, x, d)' <=> Registered(room, x, d)
    BY DEF Registered
  <2>2. ASSUME Registered(room, x, c) PROVE FALSE
    <3>1. room \in DOMAIN rooms /\ x \in DOMAIN rooms[room].peers /\ rooms[room].peers[x] = c
      BY <2>2 DEF Registered, IsActiveSender
    <3>2. joined[c] = <<room, x>>
      BY <3>1, RegisteredIsNewest
    <3>3. joined[c][1] = room
      BY <3>2
    <3> QED
      BY <3>1, <3>2, <3>3, PairIsNotNothing
  <2> QED
    BY <2>1, <2>2
<1>2. NewestHasJoined' /\ NewestIsRegistered'
  BY <1>1, NewestAfterClose DEF LeavesAlone
<1>3. SilentBeforeJoin'
  BY DEF IndInv, SilentBeforeJoin
<1>4. AllFollow
  BY PromisesAreFollowing DEF IndInv
<1>5. AllFollow'
  BY <1>4 DEF AllFollow, Follows
<1> QED
  BY <1>2, <1>3, <1>5 DEF ServerInv

LEMMA CloseStep ==
  ASSUME IndInv, NEW c \in Conn, HandleClose(c), newest' = newest
  PROVE  /\ stream' \in [Conn -> Seq(ServerMessage)]
         /\ finished' \subseteq Conn
         /\ DOMAIN rooms' \subseteq Room
         /\ \A room \in DOMAIN rooms' : rooms'[room] \in [peers : Peers, log : Seq(Op)]
         /\ ServerInv'
<1>1. finished' = finished \cup {c} /\ joined' = joined /\ finished' \subseteq Conn
  BY DEF HandleClose, IndInv, TypesOK
<1>2. CASE joined[c] = NotJoined \/ joined[c][1] \notin DOMAIN rooms
  <2>1. rooms' = rooms /\ stream' = stream
    BY <1>2 DEF HandleClose
  <2>2. ServerInv'
    BY <1>1, <1>2, <2>1, CloseWithoutRoom
  <2> QED
    BY <1>1, <2>1, <2>2 DEF IndInv, TypesOK
<1>3. CASE joined[c] # NotJoined /\ joined[c][1] \in DOMAIN rooms
  <2> DEFINE room == joined[c][1]
             client == joined[c][2]
             before == rooms[room].peers
             log == rooms[room].log
             after == RemovePeer(before, client, c)
             notice == Presence(room, PeerList(after))
  <2>1. /\ room \in DOMAIN rooms
        /\ stream' = SendTo(Recipients(after # before, after), notice)
        /\ rooms' = RoomsAfterClose(room, after)
    BY <1>3 DEF HandleClose
  <2>2. joined[c] = <<room, client>> /\ room \in Room /\ client \in Client
    BY <1>3 DEF IndInv, TypesOK
  <2>3. /\ rooms[room] = [peers |-> before, log |-> log] /\ log \in Seq(Op)
        /\ DOMAIN before \subseteq Client /\ before \in [DOMAIN before -> Conn]
    BY <2>1, PeersAreFunctions DEF IndInv
  <2> HIDE DEF room, client, before, log
  <2>4. /\ DOMAIN after \subseteq DOMAIN before
        /\ after \in [DOMAIN after -> Conn]
        /\ \A x, d : (x \in DOMAIN after /\ after[x] = d)
                     <=> (x \in DOMAIN before /\ before[x] = d /\ ~(x = client /\ d = c))
    <3>1. CASE IsActiveSender(before, client, c)
      <4>1. after = [x \in DOMAIN before \ {client} |-> before[x]]
        BY <3>1 DEF RemovePeer, Restrict
      <4>2. client \in DOMAIN before /\ before[client] = c
        BY <3>1 DEF IsActiveSender
      <4> HIDE DEF after
      <4> QED
        BY <2>3, <4>1, <4>2
    <3>2. CASE ~IsActiveSender(before, client, c)
      <4>1. after = before
        BY <3>2 DEF RemovePeer
      <4>2. ~(client \in DOMAIN before /\ before[client] = c)
        BY <3>2 DEF IsActiveSender
      <4> HIDE DEF after
      <4> QED
        BY <2>3, <4>1, <4>2
    <3> QED
      BY <3>1, <3>2
  <2>5. after \in Peers /\ PeerList(after) = DOMAIN after /\ DOMAIN after \in SUBSET Client
    BY <2>3, <2>4 DEF Peers, PeerList
  <2>6. /\ notice \in ServerMessage /\ TellsPeers(notice) /\ CarriedBy(notice) = <<>>
        /\ notice.peers = DOMAIN after
    BY <2>2, <2>5 DEF Presence, ServerMessage, CarriedBy, TellsPeers
  <2> HIDE DEF after, notice
  <2>7. /\ DOMAIN rooms' \subseteq DOMAIN rooms
        /\ \A other \in DOMAIN rooms : other # room => other \in DOMAIN rooms' /\ rooms'[other] = rooms[other]
        /\ room \in DOMAIN rooms' => rooms'[room] = [peers |-> after, log |-> log]
        /\ room \notin DOMAIN rooms' => DOMAIN after = {}
    <3>1. [rooms[room] EXCEPT !.peers = after] = [peers |-> after, log |-> log]
      BY <2>3
    <3>2. CASE after = NoPeers
      <4>1. rooms' = [other \in DOMAIN rooms \ {room} |-> rooms[other]]
        BY <2>1, <3>2 DEF RoomsAfterClose, Restrict
      <4>2. DOMAIN after = {}
        BY <3>2 DEF NoPeers
      <4> QED
        BY <4>1, <4>2
    <3>3. CASE after # NoPeers
      <4>1. rooms' = [other \in DOMAIN rooms \cup {room} |->
                        IF other = room THEN [peers |-> after, log |-> log] ELSE rooms[other]]
        BY <2>1, <3>1, <3>3 DEF RoomsAfterClose, SetRoom
      <4> QED
        BY <2>1, <4>1
    <3> QED
      BY <3>2, <3>3
  <2>8. DOMAIN rooms' \subseteq Room
        /\ \A other \in DOMAIN rooms' : rooms'[other] \in [peers : Peers, log : Seq(Op)]
    <3>1. DOMAIN rooms \subseteq Room /\ \A other \in DOMAIN rooms : rooms[other] \in [peers : Peers, log : Seq(Op)]
      BY DEF IndInv, TypesOK
    <3> QED
      BY <2>3, <2>5, <2>7, <3>1
  <2>9. ASSUME NEW d \in Conn
        PROVE  /\ stream[d] \in Seq(ServerMessage)
               /\ stream'[d] = IF after # before /\ d \in PeerConns(after) THEN Append(stream[d], notice) ELSE stream[d]
    BY <2>1 DEF SendTo, Recipients, IndInv, TypesOK
  <2>10. stream' \in [Conn -> Seq(ServerMessage)]
    <3>1. \A d \in Conn : stream'[d] \in Seq(ServerMessage)
      BY <2>6, <2>9, MessageAtTheEnd
    <3>2. stream' = [d \in Conn |-> stream'[d]]
      BY <2>1 DEF SendTo
    <3> QED
      BY <3>1, <3>2
  <2>11. ASSUME NEW r \in Room, NEW x \in Client, NEW d \in Conn
         PROVE  Registered(r, x, d)' <=> Registered(r, x, d) /\ d # c
    <3>1. Registered(r, x, c) => r = room /\ x = client
      <4> SUFFICES ASSUME Registered(r, x, c) PROVE r = room /\ x = client
        OBVIOUS
      <4>1. r \in DOMAIN rooms /\ x \in DOMAIN rooms[r].peers /\ rooms[r].peers[x] = c
        BY DEF Registered, IsActiveSender
      <4>2. joined[c] = <<r, x>>
        BY <4>1, RegisteredIsNewest
      <4> QED
        BY <2>2, <4>2
    <3>2. CASE r # room
      <4>1. r \in DOMAIN rooms' <=> r \in DOMAIN rooms
        BY <2>7, <3>2
      <4>2. r \in DOMAIN rooms => rooms'[r] = rooms[r]
        BY <2>7, <3>2
      <4>3. Registered(r, x, d)' <=> Registered(r, x, d)
        BY <4>1, <4>2 DEF Registered, IsActiveSender
      <4> QED
        BY <3>1, <3>2, <4>3
    <3>3. CASE r = room
      <4>1. Registered(r, x, d) <=> x \in DOMAIN before /\ before[x] = d
        BY <2>1, <3>3 DEF Registered, IsActiveSender, before
      <4>2. Registered(r, x, d)' <=> x \in DOMAIN after /\ after[x] = d
        BY <2>7, <3>3 DEF Registered, IsActiveSender
      <4> QED
        BY <2>4, <3>1, <3>3, <4>1, <4>2
    <3> QED
      BY <3>2, <3>3
  <2>12. NewestHasJoined' /\ NewestIsRegistered'
    BY <1>1, <2>11, NewestAfterClose DEF LeavesAlone
  <2>13. PeerConns(after) \subseteq PeerConns(before)
    BY <2>4 DEF PeerConns, Range
  <2>14. SilentBeforeJoin'
    <3> SUFFICES ASSUME NEW d \in Conn, joined[d] = NotJoined
                 PROVE  OnlyErrors(stream'[d]) /\ Carried(stream'[d]) = <<>>
      BY <1>1 DEF SilentBeforeJoin
    <3>1. d \notin PeerConns(before)
      BY <2>1, InOneRoom DEF before
    <3> QED
      BY <2>9, <2>13, <3>1 DEF IndInv, SilentBeforeJoin
  <2>15. ASSUME NEW other \in DOMAIN rooms', NEW x \in DOMAIN rooms'[other].peers,
                NEW d, d = rooms'[other].peers[x]
         PROVE  /\ Carried(stream'[d]) = rooms'[other].log
                /\ BeginsWithJoined(stream'[d])
                /\ LastToldPeers(stream'[d], DOMAIN rooms'[other].peers)
    <3>1. CASE other # room
      <4>1. other \in DOMAIN rooms /\ rooms'[other] = rooms[other]
        BY <2>7, <3>1
      <4>2. d \in PeerConns(rooms[other].peers) /\ Follows(other, d) /\ d \in Conn
        BY <2>15, <4>1, RegisteredIsNewest DEF PeerConns, Range
      <4>3. d \notin PeerConns(before)
        BY <2>1, <3>1, <4>1, <4>2, InOneRoom DEF before
      <4>4. stream'[d] = stream[d]
        BY <2>9, <2>13, <4>2, <4>3
      <4> QED
        BY <4>1, <4>2, <4>4 DEF Follows
    <3>2. CASE other = room
      <4>1. /\ rooms'[other] = [peers |-> after, log |-> log]
            /\ x \in DOMAIN after /\ d = after[x] /\ d \in PeerConns(after)
        BY <2>7, <2>15, <3>2 DEF PeerConns, Range
      <4>2. x \in DOMAIN before /\ d = before[x]
        BY <2>4, <4>1
      <4>3. rooms[room].peers = before /\ rooms[room].log = log
        BY DEF before, log
      <4>4. Follows(room, d) /\ d \in Conn
        BY <2>1, <4>2, <4>3, RegisteredIsNewest
      <4>5. Carried(stream[d]) = log /\ BeginsWithJoined(stream[d]) /\ LastToldPeers(stream[d], DOMAIN before)
        BY <4>3, <4>4 DEF Follows
      <4>6. CASE after = before
        BY <2>9, <4>1, <4>4, <4>5, <4>6
      <4>7. CASE after # before
        <5>1. stream[d] \in Seq(ServerMessage) /\ stream'[d] = Append(stream[d], notice)
          BY <2>9, <4>1, <4>4, <4>7
        <5>2. Carried(stream'[d]) = log \o <<>>
          BY <2>6, <4>5, <5>1, CarriedAppend
        <5>3. Carried(stream'[d]) = log
          BY <2>3, <5>2, ConcatEmptySeq
        <5>4. BeginsWithJoined(stream'[d]) /\ LastToldPeers(stream'[d], DOMAIN after)
          BY <2>6, <4>5, <5>1, MessageAtTheEnd
        <5> QED
          BY <4>1, <5>3, <5>4
      <4> QED
        BY <4>6, <4>7
    <3> QED
      BY <3>1, <3>2
  <2>16. AllFollow'
    BY <2>15 DEF AllFollow, Follows
  <2> QED
    BY <1>1, <2>8, <2>10, <2>12, <2>14, <2>16 DEF ServerInv
<1> QED
  BY <1>2, <1>3

-----------------------------------------------------------------------------
(* The steps together.                                                     *)

LEMMA InitIndInv == Init => IndInv
<1> SUFFICES ASSUME Init PROVE IndInv
  OBVIOUS
<1>1. /\ joined = [c \in Conn |-> NotJoined] /\ inbox = [c \in Conn |-> <<>>]
      /\ stream = [c \in Conn |-> <<>>] /\ finished = {}
      /\ newest = [place \in Room \X Client |-> NotJoined]
      /\ DOMAIN rooms = {}
  BY DEF Init, ServerInit, ConnInit
<1>2. \A S : <<>> \in Seq(S) /\ DOMAIN <<>> = {}
  OBVIOUS
<1>3. TypesOK
  BY <1>1, <1>2 DEF TypesOK
<1>4. JoinsOnce
  BY <1>1, <1>2 DEF JoinsOnce
<1>5. NewestHasJoined
  BY <1>1 DEF NewestHasJoined
<1>6. SilentBeforeJoin
  BY <1>1, <1>2, CarriedOfNothing DEF SilentBeforeJoin, OnlyErrors
<1>7. NewestIsRegistered
  <2> SUFFICES ASSUME NEW room \in Room, NEW client \in Client, NEW c \in Conn
               PROVE  ~Registered(room, client, c) /\ newest[<<room, client>>] # c
    BY DEF NewestIsRegistered
  <2> QED
    BY <1>1, ConnAssumption DEF Registered
<1>8. LogIsReplayedGapless /\ PresenceIsCurrent
  BY <1>1 DEF LogIsReplayedGapless, PresenceIsCurrent
<1> QED
  BY <1>3, <1>4, <1>5, <1>6, <1>7, <1>8 DEF IndInv

LEMMA HandlerStep ==
  ASSUME IndInv, NEW c \in Conn, Handler(c)
  PROVE  IndInv'
<1>1. asked' = asked
  BY DEF Handler, clientVars
<1>2. inbox' \in [Conn -> Seq(ClientMessage)]
  <2>1. PICK type \in {"join", "operation", "close"} : Reads(c, type)
    BY DEF Handler, Handle, HandleJoin, RejectOperation, IgnoreOperation, AcceptOperation, HandleClose
  <2> QED
    BY <2>1, ReadsTakesTheHead DEF IndInv
<1>3. CASE HandleJoin(c)
  <2>1. Reads(c, "join")
    BY <1>3 DEF HandleJoin
  <2>2. newest' = IF joined' = joined THEN newest ELSE [newest EXCEPT ![joined'[c]] = c]
    BY DEF Handler
  <2>3. TypesOK' /\ ServerInv'
    BY <1>2, <1>3, <2>2, JoinStep DEF IndInv, TypesOK
  <2>4. joined'[c] # NotJoined /\ \A d \in Conn \ {c} : joined'[d] = joined[d]
    BY <1>3, <2>2, JoinStep
  <2>5. JoinsOnce'
    <3> SUFFICES ASSUME NEW d \in Conn
                 PROVE  /\ joined'[d] # NotJoined => d \in asked'
                        /\ \A i \in DOMAIN inbox'[d] :
                             IsJoin(inbox'[d][i]) => /\ d \in asked' /\ joined'[d] = NotJoined
                                                     /\ \A j \in DOMAIN inbox'[d] : IsJoin(inbox'[d][j]) => i = j
      BY DEF JoinsOnce, IsJoin
    <3>1. CASE d = c
      BY <1>1, <2>1, <3>1, ReadsTakesTheHead DEF IndInv
    <3>2. CASE d # c
      <4>1. joined'[d] = joined[d]
        BY <2>4, <3>2
      <4> QED
        BY <1>1, <2>1, <4>1, ReadsTakesTheHead DEF IndInv, JoinsOnce
    <3> QED
      BY <3>1, <3>2
  <2> QED
    BY <2>3, <2>5, PromisesAreFollowingNext DEF IndInv, ServerInv
<1>4. CASE ~HandleJoin(c)
  <2>1. joined' = joined /\ newest' = newest
    BY <1>4 DEF Handler, Handle, RejectOperation, IgnoreOperation, AcceptOperation, HandleClose
  <2>2. JoinsOnce'
    <3>1. PICK type \in {"operation", "close"} : Reads(c, type)
      BY <1>4 DEF Handler, Handle, RejectOperation, IgnoreOperation, AcceptOperation, HandleClose
    <3> QED
      BY <1>1, <2>1, <3>1, ReadsTakesTheHead DEF IndInv, JoinsOnce, IsJoin
  <2>3. TypesOK' /\ ServerInv'
    <3>1. CASE RejectOperation(c)
      <4>1. stream' = SendTo({c}, Error) /\ UNCHANGED <<rooms, joined, newest, finished>>
        BY <2>1, <3>1 DEF RejectOperation
      <4>2. stream' \in [Conn -> Seq(ServerMessage)] /\ ServerInv'
        BY <4>1, ErrorIsHarmless
      <4> QED
        BY <1>2, <4>1, <4>2 DEF IndInv, TypesOK
    <3>2. CASE IgnoreOperation(c)
      <4>1. UNCHANGED <<rooms, joined, newest, finished, stream>>
        BY <2>1, <3>2 DEF IgnoreOperation
      <4>2. AllFollow
        BY PromisesAreFollowing DEF IndInv
      <4>3. ServerInv'
        BY <4>1, <4>2 DEF IndInv, ServerInv, NewestHasJoined, SilentBeforeJoin, NewestIsRegistered,
                          Registered, AllFollow, Follows
      <4> QED
        BY <1>2, <4>1, <4>3 DEF IndInv, TypesOK
    <3>3. CASE AcceptOperation(c)
      <4>1. finished' = finished
        BY <3>3 DEF AcceptOperation
      <4> QED
        BY <1>2, <2>1, <3>3, <4>1, OperationStep DEF IndInv, TypesOK
    <3>4. CASE HandleClose(c)
      BY <1>2, <2>1, <3>4, CloseStep DEF IndInv, TypesOK
    <3> QED
      BY <1>4, <3>1, <3>2, <3>3, <3>4 DEF Handler, Handle
  <2> QED
    BY <2>2, <2>3, PromisesAreFollowingNext DEF IndInv, ServerInv
<1> QED
  BY <1>3, <1>4

\* The clients and the network touch the inboxes only.
LEMMA ServerUntouched ==
  ASSUME IndInv, UNCHANGED <<rooms, joined, newest, finished, stream>>,
         inbox' \in [Conn -> Seq(ClientMessage)]
  PROVE  TypesOK' /\ ServerInv'
<1>1. AllFollow
  BY PromisesAreFollowing DEF IndInv
<1>2. ServerInv'
  BY <1>1 DEF IndInv, ServerInv, NewestHasJoined, SilentBeforeJoin, NewestIsRegistered,
              Registered, AllFollow, Follows
<1> QED
  BY <1>2 DEF IndInv, TypesOK

LEMMA SendStep ==
  ASSUME IndInv, NEW c \in Conn, NEW msg \in ClientMessage, Send(c, msg),
         UNCHANGED <<rooms, newest>>, asked \subseteq asked',
         IsJoin(msg) => c \notin asked /\ c \in asked'
  PROVE  IndInv'
<1>1. /\ inbox[c] \in Seq(ClientMessage)
      /\ inbox' = [inbox EXCEPT ![c] = Append(inbox[c], msg)]
      /\ UNCHANGED <<joined, stream, finished>>
  BY DEF Send, IndInv, TypesOK
<1>2. /\ Append(inbox[c], msg) \in Seq(ClientMessage)
      /\ Len(inbox[c]) \in Nat
      /\ DOMAIN inbox[c] = 1..Len(inbox[c])
      /\ DOMAIN Append(inbox[c], msg) = 1..(Len(inbox[c]) + 1)
      /\ \A i \in 1..Len(inbox[c]) : Append(inbox[c], msg)[i] = inbox[c][i]
      /\ Append(inbox[c], msg)[Len(inbox[c]) + 1] = msg
  BY <1>1, AppendProperties, LenProperties
<1>3. inbox' \in [Conn -> Seq(ClientMessage)]
  BY <1>1, <1>2 DEF IndInv, TypesOK
<1>4. TypesOK' /\ ServerInv'
  BY <1>1, <1>3, ServerUntouched
<1>5. JoinsOnce'
  <2> SUFFICES ASSUME NEW d \in Conn
               PROVE  /\ joined'[d] # NotJoined => d \in asked'
                      /\ \A i \in DOMAIN inbox'[d] :
                           IsJoin(inbox'[d][i]) => /\ d \in asked' /\ joined'[d] = NotJoined
                                                   /\ \A j \in DOMAIN inbox'[d] : IsJoin(inbox'[d][j]) => i = j
    BY DEF JoinsOnce, IsJoin
  <2>1. JoinsOnce
    BY DEF IndInv
  <2>2. CASE d # c
    <3>1. inbox'[d] = inbox[d]
      BY <1>1, <2>2 DEF IndInv, TypesOK
    <3> QED
      BY <1>1, <2>1, <3>1 DEF JoinsOnce
  <2>3. CASE d = c
    <3>1. inbox'[c] = Append(inbox[c], msg)
      BY <1>1 DEF IndInv, TypesOK
    <3>2. joined'[c] # NotJoined => c \in asked'
      BY <1>1, <2>1 DEF JoinsOnce
    <3>3. CASE IsJoin(msg)
      <4>1. c \notin asked /\ c \in asked' /\ joined[c] = NotJoined
        BY <2>1, <3>3 DEF JoinsOnce
      <4>2. \A i \in DOMAIN inbox[c] : ~IsJoin(inbox[c][i])
        BY <2>1, <4>1 DEF JoinsOnce
      <4>3. \A i \in DOMAIN inbox'[c] : IsJoin(inbox'[c][i]) => i = Len(inbox[c]) + 1
        BY <1>2, <3>1, <4>2
      <4> QED
        BY <1>1, <2>3, <4>1, <4>3
    <3>4. CASE ~IsJoin(msg)
      <4>1. \A i \in DOMAIN inbox'[c] : IsJoin(inbox'[c][i])
              => i \in DOMAIN inbox[c] /\ inbox'[c][i] = inbox[c][i]
        BY <1>2, <3>1, <3>4
      <4> QED
        BY <1>1, <2>1, <2>3, <3>2, <4>1 DEF JoinsOnce
    <3> QED
      BY <3>3, <3>4
  <2> QED
    BY <2>2, <2>3
<1> QED
  BY <1>4, <1>5, PromisesAreFollowingNext DEF IndInv, ServerInv

LEMMA NetworkStep ==
  ASSUME IndInv, NEW c \in Conn, Network(c)
  PROVE  IndInv'
<1>1. /\ UNCHANGED <<rooms, joined, newest, finished, stream, asked>>
      /\ inbox[c] \in Seq(ClientMessage)
  BY DEF Network, Open, Disconnect, clientVars, IndInv, TypesOK
\* What is left in the inbox is its beginning, and there is no join after that.
<1>2. \E n \in Nat, s \in Seq(ClientMessage) :
        /\ inbox' = [inbox EXCEPT ![c] = s] /\ n <= Len(inbox[c])
        /\ \A i \in DOMAIN s : IsJoin(s[i]) => i \in 1..n /\ s[i] = inbox[c][i]
  <2>1. CASE Open(c, "unused", <<>>)
    <3>1. inbox' = [inbox EXCEPT ![c] = <<>>] /\ <<>> \in Seq(ClientMessage) /\ DOMAIN <<>> = {}
      BY <2>1 DEF Open
    <3>2. 0 \in Nat /\ 0 <= Len(inbox[c])
      BY <1>1, LenProperties
    <3> QED
      BY <3>1, <3>2
  <2>2. ASSUME NEW kept \in 0..Len(inbox[c]), Disconnect(c, kept)
        PROVE  \E n \in Nat, s \in Seq(ClientMessage) :
                 /\ inbox' = [inbox EXCEPT ![c] = s] /\ n <= Len(inbox[c])
                 /\ \A i \in DOMAIN s : IsJoin(s[i]) => i \in 1..n /\ s[i] = inbox[c][i]
    <3> DEFINE p == SubSeq(inbox[c], 1, kept)
               s == Append(p, CloseMsg)
    <3>1. kept \in Nat /\ kept <= Len(inbox[c]) /\ Len(inbox[c]) \in Nat
      BY <1>1, LenProperties
    <3>2. \A i \in 1..kept : inbox[c][i] \in ClientMessage
      BY <1>1, <3>1, ElementOfSeq
    <3>3. p \in Seq(ClientMessage) /\ Len(p) = kept /\ \A i \in 1..kept : p[i] = inbox[c][i]
      <4>1. /\ p \in Seq(ClientMessage)
            /\ Len(p) = IF 1 <= kept THEN kept - 1 + 1 ELSE 0
            /\ \A i \in 1..(kept - 1 + 1) : p[i] = inbox[c][1 + i - 1]
        BY <3>1, <3>2, SubSeqProperties
      <4>2. kept - 1 + 1 = kept /\ \A i \in 1..kept : 1 + i - 1 = i
        BY <3>1
      <4> HIDE DEF p
      <4> QED
        BY <3>1, <4>1, <4>2
    <3>4. CloseMsg \in ClientMessage /\ ~IsJoin(CloseMsg)
      BY DEF ClientMessage, CloseMsg, IsJoin
    <3> HIDE DEF p
    <3>5. /\ s \in Seq(ClientMessage) /\ DOMAIN s = 1..(kept + 1)
          /\ s[kept + 1] = CloseMsg /\ \A i \in 1..kept : s[i] = p[i]
      BY <3>1, <3>3, <3>4, AppendProperties, LenProperties
    <3>6. inbox' = [inbox EXCEPT ![c] = s]
      BY <2>2 DEF Disconnect, p
    <3> HIDE DEF s
    <3>7. \A i \in DOMAIN s : IsJoin(s[i]) => i \in 1..kept /\ s[i] = inbox[c][i]
      BY <3>1, <3>3, <3>4, <3>5
    <3> QED
      BY <3>1, <3>5, <3>6, <3>7
  <2> QED
    BY <2>1, <2>2 DEF Network
<1>3. PICK n \in Nat, s \in Seq(ClientMessage) :
        /\ inbox' = [inbox EXCEPT ![c] = s] /\ n <= Len(inbox[c])
        /\ \A i \in DOMAIN s : IsJoin(s[i]) => i \in 1..n /\ s[i] = inbox[c][i]
  BY <1>2
<1>4. inbox' \in [Conn -> Seq(ClientMessage)]
  BY <1>3 DEF IndInv, TypesOK
<1>5. TypesOK' /\ ServerInv'
  BY <1>1, <1>4, ServerUntouched
<1>6. JoinsOnce'
  <2> SUFFICES ASSUME NEW d \in Conn
               PROVE  /\ joined'[d] # NotJoined => d \in asked'
                      /\ \A i \in DOMAIN inbox'[d] :
                           IsJoin(inbox'[d][i]) => /\ d \in asked' /\ joined'[d] = NotJoined
                                                   /\ \A j \in DOMAIN inbox'[d] : IsJoin(inbox'[d][j]) => i = j
    BY DEF JoinsOnce, IsJoin
  <2>1. JoinsOnce
    BY DEF IndInv
  <2>2. \A i \in DOMAIN inbox'[d] : IsJoin(inbox'[d][i]) => i \in DOMAIN inbox[d] /\ inbox'[d][i] = inbox[d][i]
    <3>1. CASE d = c
      <4>1. inbox'[d] = s /\ DOMAIN inbox[c] = 1..Len(inbox[c]) /\ Len(inbox[c]) \in Nat
        BY <1>1, <1>3, <3>1, LenProperties DEF IndInv, TypesOK
      <4> QED
        BY <1>3, <3>1, <4>1
    <3>2. CASE d # c
      BY <1>3, <3>2 DEF IndInv, TypesOK
    <3> QED
      BY <3>1, <3>2
  <2> QED
    BY <1>1, <2>1, <2>2 DEF JoinsOnce
<1> QED
  BY <1>5, <1>6, PromisesAreFollowingNext DEF IndInv, ServerInv

LEMMA NextIndInv == IndInv /\ [Next]_vars => IndInv'
<1> SUFFICES ASSUME IndInv, [Next]_vars PROVE IndInv'
  OBVIOUS
<1>1. ASSUME NEW c \in Conn, NEW room \in Room, NEW client \in Client, SendJoin(c, room, client)
      PROVE  IndInv'
  <2>1. JoinMsg(room, client) \in ClientMessage /\ asked' = asked \cup {c} /\ c \notin asked
    BY <1>1 DEF JoinMsg, ClientMessage, SendJoin
  <2>2. Send(c, JoinMsg(room, client)) /\ UNCHANGED <<rooms, newest>>
    BY <1>1 DEF SendJoin
  <2> QED
    BY <2>1, <2>2, SendStep
<1>2. ASSUME NEW c \in Conn, NEW room \in Room, NEW client \in Client, NEW op \in Op,
             SendOperation(c, room, client, op)
      PROVE  IndInv'
  <2>1. OperationMsg(room, client, op) \in ClientMessage /\ ~IsJoin(OperationMsg(room, client, op))
    BY DEF OperationMsg, ClientMessage, IsJoin
  <2>2. Send(c, OperationMsg(room, client, op)) /\ UNCHANGED <<rooms, newest, asked>>
    BY <1>2 DEF SendOperation
  <2> QED
    BY <2>1, <2>2, SendStep
<1>3. CASE UNCHANGED vars
  <2>1. inbox' \in [Conn -> Seq(ClientMessage)] /\ JoinsOnce'
    BY <1>3 DEF IndInv, TypesOK, JoinsOnce, vars, serverVars, connVars, clientVars
  <2>2. TypesOK' /\ ServerInv'
    BY <1>3, <2>1, ServerUntouched DEF vars, serverVars, connVars, clientVars
  <2> QED
    BY <2>1, <2>2, PromisesAreFollowingNext DEF IndInv, ServerInv
<1> QED
  BY <1>1, <1>2, <1>3, HandlerStep, NetworkStep DEF Next

THEOREM IndInvHolds == Spec => []IndInv
BY InitIndInv, NextIndInv, PTL DEF Spec

\* Whoever joins a room hears of its whole log, without gap or repetition,
\* whatever the clients send and however their connections break (server.rs:201).
THEOREM LogReplay == Spec => []LogIsReplayedGapless
<1>1. IndInv => LogIsReplayedGapless
  BY DEF IndInv
<1> QED
  BY <1>1, IndInvHolds, PTL

\* Every connection of a room was told last who is there now (server.rs:221).
THEOREM PresenceTold == Spec => []PresenceIsCurrent
<1>1. IndInv => PresenceIsCurrent
  BY DEF IndInv
<1> QED
  BY <1>1, IndInvHolds, PTL

\* In a room are the newest connections of its clients, and no other: not one
\* that was replaced, and not one that has ended (room.rs:50).
THEOREM NewestStays == Spec => []NewestIsRegistered
<1>1. IndInv => NewestIsRegistered
  BY DEF IndInv
<1> QED
  BY <1>1, IndInvHolds, PTL
=============================================================================

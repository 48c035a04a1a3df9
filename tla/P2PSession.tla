------------------------------ MODULE P2PSession ------------------------------
(***************************************************************************)
(* The session managers of several clients in peer-to-peer mode, each with *)
(* its P2PMeshTransport: who asks whom for the snapshot of the text, what  *)
(* waits for it, and how operations spread over the mesh.                  *)
(*                                                                         *)
(* The signaling server is what SignalingClients.tla shows of it: every    *)
(* registered client is told, in order, who came and who went, and of two  *)
(* overlapping connections of a client the later one counts.  Offers,      *)
(* answers and candidates lead to ChannelOpens; a data channel is a FIFO   *)
(* until one side closes it.  Room, document and rendering are left out; a *)
(* CRDT is the operations it has seen and applied, as in RelaySession.tla. *)
(***************************************************************************)
EXTENDS SessionCrdt, Functions, SequencesExt

CONSTANTS Client,         \* ordered as the code orders client ids
          Steady,         \* clients that stay in their first session
          SlowServer,     \* a join may be handled before the end of the
                          \* client's earlier connection
          AbruptLeave,    \* a client may leave, or its signaling connection break,
                          \* while messages are on their way
          Unreliable,     \* clients whose signaling connection may break
          MaxEvents,      \* bound: edits, seeds and signaling connections that
                          \* break, of all clients
          MaxSessions     \* bound: sessions begun, by all clients

ASSUME P2PAssumption ==
  /\ Client \subseteq Nat \ {0}
  /\ Steady \subseteq Client
  /\ Unreliable \subseteq Client \ Steady
  /\ {SlowServer, AbruptLeave} \subseteq BOOLEAN
  /\ {MaxEvents, MaxSessions} \subseteq Nat

VARIABLES registered,    \* server: the session each client is in the room with, or 0
          closing,       \* server: connections that are closed, but not yet handled
          socket,        \* signaling socket: "none", "joining", "joined" or "broken"
          announced,     \* what the server told the current connection
          lives,         \* sessions begun, the last one is the current
          known,         \* crdt: the operations seen
          elements,      \* crdt: the operations applied
          counter,       \* crdt: counter
          syncReady,
          provider,      \* snapshotProviderPeerId, 0 if undefined
          requested,     \* clients with snapshotRequested
          requests,      \* pendingSnapshotRequests
          waiting,       \* pendingRemoteOperations
          rendering,     \* clients whose handleSnapshot waits for the render
          replaying,     \* queued: what handleSnapshot has still to handle
          mesh,          \* meshPeers of each client
          wire,          \* wire[a][b]: on its way from a to b
          events         \* how many edits, seeds and breaks

serverVars  == <<registered, closing>>
crdtVars    == <<known, elements, counter>>
managerVars == <<crdtVars, syncReady, provider, requested, requests, waiting, rendering,
                 replaying>>
vars == <<serverVars, socket, announced, lives, managerVars, mesh, wire, events>>

Nobody == 0

InSession(cl) == socket[cl] # "none"

-----------------------------------------------------------------------------
(* Messages and the CRDT.                                                  *)

OpMsg(op)        == [type |-> "operation", op |-> op]
RequestMsg       == [type |-> "snapshot-request"]
SnapshotMsg(ops, applied) == [type |-> "snapshot", ops |-> ops, applied |-> applied]

\* next_operation_id, and the operation after the character dep.  edit tells
\* operations apart that share an id.
NewOp(cl, dep) == [id |-> <<cl, counter[cl] + 1>>, dep |-> dep, edit |-> events + 1]

\* insert and delete apply what they make, but do not drain.
Make(cl, op) ==
  /\ events < MaxEvents
  /\ events' = events + 1
  /\ known' = [known EXCEPT ![cl] = @ \cup {op}]
  /\ elements' = [elements EXCEPT ![cl] = @ \cup {op}]
  /\ counter' = [counter EXCEPT ![cl] = op.id[2]]

\* apply_operation; the counter follows the own operations that are applied.
ApplyOperation(cl, op) ==
  LET applied == Apply(known[cl], elements[cl], op)
  IN  /\ known' = [known EXCEPT ![cl] = Learn(@, op)]
      /\ elements' = [elements EXCEPT ![cl] = applied]
      /\ counter' = [counter EXCEPT ![cl] = Max({@} \cup Numbers(cl, applied))]

-----------------------------------------------------------------------------
(* P2PMeshTransport.  A MeshPeer belongs to one session of the peer, which *)
(* is when it was made; it is "new" until its channel opens, and "closed"  *)
(* when that is gone but the MeshPeer is kept.                             *)

NewMeshPeer(life) == [life |-> life, state |-> "new", queue |-> <<>>]

\* ensureMeshPeer keeps the MeshPeer there is, whatever session it belongs to.
EnsureMeshPeer(M, d, life) ==
  [x \in DOMAIN M \cup {d} |-> IF x \in DOMAIN M THEN M[x] ELSE NewMeshPeer(life)]

\* Both ends of the channel from cl to d are there, for the current sessions.
Linked(cl, d) ==
  /\ InSession(cl) /\ d \in DOMAIN mesh[cl] /\ mesh[cl][d].life = lives[d]
  /\ InSession(d)  /\ cl \in DOMAIN mesh[d] /\ mesh[d][cl].life = lives[cl]
  /\ mesh[cl][d].state # "closed" /\ mesh[d][cl].state # "closed"

\* sendDataMessage of the messages out[d] to each peer d, when the mesh peers
\* of cl are M and W is on its way: on the channel if it is open, else in the
\* queue of the peer.  What is sent to an end that is gone is lost.
SendAll(cl, M, W, out) ==
  /\ mesh' = [mesh EXCEPT ![cl] =
       [d \in DOMAIN M |-> IF M[d].state = "open" THEN M[d]
                           ELSE [M[d] EXCEPT !.queue = @ \o out[d]]]]
  /\ wire' = [W EXCEPT ![cl] =
       [d \in Client |-> IF d \in DOMAIN M /\ M[d].state = "open" /\ Linked(cl, d)
                         THEN @[d] \o out[d] ELSE @[d]]]

None       == [d \in Client |-> <<>>]
To(S, msg) == [d \in Client |-> IF d \in S THEN <<msg>> ELSE <<>>]

\* sendOperation to every mesh peer but one.
Forward(cl, op, except) == To(DOMAIN mesh[cl] \ {except}, OpMsg(op))

\* requestSnapshot(p), and whether it says that it was sent.
RequestTargets(M, p) ==
  IF p # Nobody THEN {p} \cap DOMAIN M
  ELSE LET open == {d \in DOMAIN M : M[d].state = "open"}
       IN  IF open = {} THEN {} ELSE {Min(open)}

\* requestP2PSnapshotIfNeeded, when the provider is p and a snapshot was
\* asked for already or not.
RequestIfNeeded(cl, M, W, p, asked) ==
  LET targets == IF cl \in syncReady \/ asked THEN {} ELSE RequestTargets(M, p)
  IN  /\ SendAll(cl, M, W, To(targets, RequestMsg))
      /\ provider' = [provider EXCEPT ![cl] = p]
      /\ requested' = IF asked \/ targets # {} THEN requested \cup {cl} ELSE requested \ {cl}

Candidates(cl, peers) == DOMAIN peers \ {cl}

\* handlePresence: a client that waits looks for a new provider when the one
\* it has is gone.
HandlePresence(cl, M, W, peers) ==
  LET candidates == Candidates(cl, peers)
      p == IF candidates = {} THEN Nobody ELSE Min(candidates)
  IN  IF cl \in syncReady \/ (provider[cl] # Nobody /\ provider[cl] \in candidates)
      THEN SendAll(cl, M, W, None) /\ UNCHANGED <<provider, requested>>
      ELSE RequestIfNeeded(cl, M, W, p, FALSE)

\* Nothing is on its way or waits for its channel, and no handler has anything
\* left to do.
Quiet == /\ \A a, b \in Client : wire[a][b] = <<>> /\ (Linked(a, b) => mesh[a][b].queue = <<>>)
         /\ \A cl \in Client : announced[cl] = <<>>
         /\ rendering = {}
         /\ \A cl \in Client : replaying[cl] = <<>>

-----------------------------------------------------------------------------
(* Commands of the user.                                                   *)

\* startSession and joinSession of a client that is in no session.
StartSession(cl) ==
  /\ ~InSession(cl)
  /\ cl \in Steady => lives[cl] = 0
  /\ MapThenSumSet(LAMBDA d : lives[d], Client) < MaxSessions
  /\ cl \in Steady \/ Steady \subseteq syncReady
  /\ lives'  = [lives EXCEPT ![cl] = @ + 1]
  /\ socket' = [socket EXCEPT ![cl] = "joining"]
  /\ UNCHANGED <<serverVars, announced, managerVars, mesh, wire, events>>

\* leaveSession closes the transport.  Of what is under way, only the messages
\* to the peers in kept still arrive.
LeaveSession(cl, kept) ==
  /\ InSession(cl)
  /\ cl \notin Steady
  /\ AbruptLeave \/ Quiet
  /\ kept \subseteq {d \in Client : wire[cl][d] # <<>>}
  /\ closing'   = IF socket[cl] = "joined" THEN closing \cup {<<cl, lives[cl]>>} ELSE closing
  /\ socket'    = [socket EXCEPT ![cl] = "none"]
  /\ announced' = [announced EXCEPT ![cl] = <<>>]
  /\ known'     = [known EXCEPT ![cl] = {}]
  /\ elements'  = [elements EXCEPT ![cl] = {}]
  /\ counter'   = [counter EXCEPT ![cl] = 0]
  /\ syncReady' = syncReady \ {cl}
  /\ provider'  = [provider EXCEPT ![cl] = Nobody]
  /\ requested' = requested \ {cl}
  /\ requests'  = [requests EXCEPT ![cl] = {}]
  /\ waiting'   = [waiting EXCEPT ![cl] = <<>>]
  /\ mesh'      = [mesh EXCEPT ![cl] = <<>>]
  /\ wire' = [a \in Client |-> [b \in Client |->
                IF b = cl \/ (a = cl /\ b \notin kept) THEN <<>> ELSE wire[a][b]]]
  /\ UNCHANGED <<registered, lives, rendering, replaying, events>>

\* One character after dep.
Edit(cl, dep) ==
  /\ cl \in syncReady
  /\ Make(cl, NewOp(cl, dep))
  /\ SendAll(cl, mesh[cl], wire, Forward(cl, NewOp(cl, dep), Nobody))
  /\ UNCHANGED <<serverVars, socket, announced, lives, syncReady, provider, requested,
                 requests, waiting, rendering, replaying>>

-----------------------------------------------------------------------------
(* The signaling server and the socket to it.                              *)

Present == {cl \in Client : registered[cl] # 0}

Announce(S, event) ==
  announced' = [d \in Client |-> IF d \in S THEN Append(announced[d], event) ELSE announced[d]]

\* The connections that are told: those of clients still in that session.
Listening == {d \in Present : socket[d] = "joined" /\ registered[d] = lives[d]}

ServerJoin(cl) ==
  LET peers == [d \in Present \cup {cl} |-> IF d = cl THEN lives[cl] ELSE registered[d]]
  IN  /\ socket[cl] = "joining"
      /\ SlowServer \/ \A life \in 1..lives[cl] : <<cl, life>> \notin closing
      /\ registered' = [registered EXCEPT ![cl] = lives[cl]]
      /\ socket' = [socket EXCEPT ![cl] = "joined"]
      /\ announced' = [d \in Client |->
           CASE d = cl -> <<[type |-> "joined", client |-> cl, peers |-> peers]>>
             [] d \in Listening \ {cl} ->
                  Append(announced[d], [type |-> "peerJoined", client |-> cl, peers |-> peers])
             [] OTHER -> announced[d]]
      /\ UNCHANGED <<closing, lives, managerVars, mesh, wire, events>>

\* The end of a connection that was replaced is not announced.
ServerClose(cl, life) ==
  /\ <<cl, life>> \in closing
  /\ closing' = closing \ {<<cl, life>>}
  /\ IF registered[cl] = life
     THEN /\ registered' = [registered EXCEPT ![cl] = 0]
          /\ Announce(Listening \ {cl},
                      [type |-> "peerLeft", client |-> cl,
                       peers |-> [d \in Present \ {cl} |-> registered[d]]])
     ELSE UNCHANGED <<registered, announced>>
  /\ UNCHANGED <<socket, lives, managerVars, mesh, wire, events>>

\* handleTransportClose does nothing in peer-to-peer mode.
SignalingBreaks(cl) ==
  /\ cl \in Unreliable
  /\ socket[cl] = "joined"
  /\ AbruptLeave \/ Quiet
  /\ events < MaxEvents
  /\ events' = events + 1
  /\ socket' = [socket EXCEPT ![cl] = "broken"]
  /\ closing' = closing \cup {<<cl, lives[cl]>>}
  /\ announced' = [announced EXCEPT ![cl] = <<>>]
  /\ UNCHANGED <<registered, lives, managerVars, mesh, wire>>

-----------------------------------------------------------------------------
(* handleSignalingMessage: the announcements, each with handlePresence.    *)

Hears(cl, type) == /\ announced[cl] # <<>>
                   /\ Head(announced[cl]).type = type
                   /\ announced' = [announced EXCEPT ![cl] = Tail(@)]

ReadyAfterJoin_Always(cl, existing) == syncReady \cup {cl}   \* mutant: as in relay mode

\* Only who is alone has nothing to wait for.
ReadyAfterJoin(cl, existing) == IF existing = {} THEN syncReady \cup {cl} ELSE syncReady

\* handleTransportJoined in an empty room: the document seeds the CRDT, unless
\* it is empty.  Nobody is there to be told.
OnJoinedFirst(cl) ==
  /\ Hears(cl, "joined")
  /\ DOMAIN Head(announced[cl]).peers = {cl}
  /\ syncReady' = ReadyAfterJoin(cl, {})
  /\ Make(cl, NewOp(cl, Root)) \/ UNCHANGED <<events, crdtVars>>
  /\ UNCHANGED <<serverVars, socket, lives, provider, requested, requests, waiting,
                 rendering, replaying, mesh, wire>>

\* The same in a room with others: the lowest of them is asked for a snapshot.
OnJoined(cl) ==
  LET peers    == Head(announced[cl]).peers
      existing == DOMAIN peers \ {cl}
      M == [d \in existing |-> NewMeshPeer(peers[d])]
  IN  /\ Hears(cl, "joined")
      /\ existing # {}
      /\ RequestIfNeeded(cl, M, wire, Min(existing), FALSE)
      /\ syncReady' = ReadyAfterJoin(cl, existing)
      /\ UNCHANGED <<serverVars, socket, lives, crdtVars, requests, waiting,
                     rendering, replaying, events>>

OnPeerJoined(cl) ==
  LET e == Head(announced[cl])
  IN  /\ Hears(cl, "peerJoined")
      /\ HandlePresence(cl, EnsureMeshPeer(mesh[cl], e.client, e.peers[e.client]), wire, e.peers)
      /\ UNCHANGED <<serverVars, socket, lives, crdtVars, syncReady, requests, waiting,
                     rendering, replaying, events>>

\* closeMeshPeer: what this side has not received is lost, and perhaps what it
\* sent last.
OnPeerLeft(cl) ==
  LET e == Head(announced[cl])
      M == Restrict(mesh[cl], DOMAIN mesh[cl] \ {e.client})
  IN  /\ Hears(cl, "peerLeft")
      /\ \E sent \in {<<>>, wire[cl][e.client]} :
           HandlePresence(cl, M, [wire EXCEPT ![e.client][cl] = <<>>, ![cl][e.client] = sent],
                          e.peers)
      /\ UNCHANGED <<serverVars, socket, lives, crdtVars, syncReady, requests, waiting,
                     rendering, replaying, events>>

-----------------------------------------------------------------------------
(* Data channels.                                                          *)

\* onOpen of one end: the queue is sent, and a client that waits asks.  The
\* handshake before the first end opens needs both signaling sockets.
ChannelOpens(cl, d) ==
  LET M == [mesh[cl] EXCEPT ![d].state = "open", ![d].queue = <<>>]
      W == [wire EXCEPT ![cl][d] = @ \o mesh[cl][d].queue]
  IN  /\ Linked(cl, d)
      /\ mesh[cl][d].state = "new"
      /\ mesh[d][cl].state = "open" \/ (socket[cl] = "joined" /\ socket[d] = "joined")
      /\ RequestIfNeeded(cl, M, W, provider[cl], cl \in requested)
      /\ UNCHANGED <<serverVars, socket, announced, lives, crdtVars, syncReady, requests,
                     waiting, rendering, replaying, events>>

\* onClosed, when the other end is gone and all it sent was received.
ChannelCloses(cl, d) ==
  /\ d \in DOMAIN mesh[cl]
  /\ mesh[cl][d].state = "open"
  /\ ~Linked(cl, d)
  /\ wire[d][cl] = <<>>
  /\ mesh' = [mesh EXCEPT ![cl][d].state = "closed"]
  /\ UNCHANGED <<serverVars, socket, announced, lives, managerVars, wire, events>>

\* handleDataMessage takes the next message of d; W is what stays on its way.
Receives(cl, d, type) ==
  /\ d \in DOMAIN mesh[cl]
  /\ mesh[cl][d].state = "open"
  /\ wire[d][cl] # <<>>
  /\ Head(wire[d][cl]).type = type
  /\ UNCHANGED <<serverVars, socket, announced, lives, provider, requested, events>>

Rest(cl, d) == [wire EXCEPT ![d][cl] = Tail(@)]

\* handleTransportOperation before the snapshot.
KeepOperation(cl, d) ==
  /\ Receives(cl, d, "operation")
  /\ cl \notin syncReady
  /\ waiting' = [waiting EXCEPT ![cl] = Append(@, [op |-> Head(wire[d][cl]).op, source |-> d])]
  /\ wire' = Rest(cl, d)
  /\ UNCHANGED <<crdtVars, syncReady, requests, rendering, replaying, mesh>>

ForwardSeen_Never(cl, op, source) == None   \* mutant: nothing is forwarded

\* What is new is forwarded to all but the peer it came from.
ForwardSeen(cl, op, source) ==
  IF Seen(known[cl], op) THEN None ELSE Forward(cl, op, source)

HandleTransportOperation(cl, d) ==
  LET op == Head(wire[d][cl]).op
  IN  /\ Receives(cl, d, "operation")
      /\ cl \in syncReady
      /\ ApplyOperation(cl, op)
      /\ SendAll(cl, mesh[cl], Rest(cl, d), ForwardSeen(cl, op, d))
      /\ UNCHANGED <<syncReady, requests, waiting, rendering, replaying>>

RequestsAfter_Forgotten(cl, d) == requests[cl]   \* mutant: who asks too early is not answered

RequestsAfter(cl, d) == requests[cl] \cup {d}

HandleSnapshotRequest(cl, d) ==
  /\ Receives(cl, d, "snapshot-request")
  /\ IF cl \in syncReady
     THEN /\ SendAll(cl, mesh[cl], Rest(cl, d), To({d}, SnapshotMsg(known[cl], elements[cl])))
          /\ UNCHANGED requests
     ELSE /\ requests' = [requests EXCEPT ![cl] = RequestsAfter(cl, d)]
          /\ SendAll(cl, mesh[cl], Rest(cl, d), None)
  /\ UNCHANGED <<crdtVars, syncReady, waiting, rendering, replaying>>

\* flushPendingSnapshotRequests, when the snapshot is msg.
FlushRequests(cl, msg) == To(requests[cl] \cap DOMAIN mesh[cl], msg)

\* fromSnapshot counts from all own ids the snapshot names, also those that only
\* wait in it.
CounterFrom(cl, msg) == Max({0} \cup Numbers(cl, msg.ops \cup msg.applied))

\* handleSnapshot up to its await, with flushPendingSnapshotRequests; a second
\* snapshot is ignored.
HandleSnapshot(cl, d) ==
  LET msg == Head(wire[d][cl])
  IN  /\ Receives(cl, d, "snapshot")
      /\ IF cl \in syncReady
         THEN /\ SendAll(cl, mesh[cl], Rest(cl, d), None)
              /\ UNCHANGED <<crdtVars, syncReady, requests, rendering>>
         ELSE /\ known' = [known EXCEPT ![cl] = msg.ops]
              /\ elements' = [elements EXCEPT ![cl] = msg.applied]
              /\ counter' = [counter EXCEPT ![cl] = CounterFrom(cl, msg)]
              /\ syncReady' = syncReady \cup {cl}
              /\ SendAll(cl, mesh[cl], Rest(cl, d), FlushRequests(cl, msg))
              /\ requests' = [requests EXCEPT ![cl] = {}]
              /\ rendering' = rendering \cup {cl}
      /\ UNCHANGED <<waiting, replaying>>

\* handleSnapshot after its await takes what waited by then.
SnapshotRendered(cl) ==
  /\ cl \in rendering
  /\ rendering' = rendering \ {cl}
  /\ replaying' = [replaying EXCEPT ![cl] = @ \o waiting[cl]]
  /\ waiting' = [waiting EXCEPT ![cl] = <<>>]
  /\ UNCHANGED <<serverVars, socket, announced, lives, crdtVars, syncReady, provider,
                 requested, requests, mesh, wire, events>>

\* The loop of handleSnapshot hands one operation to handleTransportOperation and
\* awaits it.  Without a session nothing is done; in another one that waits
\* itself, the operation waits again.
ReplayNext(cl) ==
  LET e == Head(replaying[cl])
  IN  /\ replaying[cl] # <<>>
      /\ replaying' = [replaying EXCEPT ![cl] = Tail(@)]
      /\ IF cl \in syncReady
         THEN /\ ApplyOperation(cl, e.op)
              /\ SendAll(cl, mesh[cl], wire, ForwardSeen(cl, e.op, e.source))
              /\ UNCHANGED waiting
         ELSE /\ waiting' = IF InSession(cl) THEN [waiting EXCEPT ![cl] = Append(@, e)]
                                             ELSE waiting
              /\ UNCHANGED <<crdtVars, mesh, wire>>
      /\ UNCHANGED <<serverVars, socket, announced, lives, syncReady, provider, requested,
                     requests, rendering, events>>

-----------------------------------------------------------------------------
Init ==
  /\ registered = [cl \in Client |-> 0]
  /\ closing    = {}
  /\ socket     = [cl \in Client |-> "none"]
  /\ announced  = [cl \in Client |-> <<>>]
  /\ lives      = [cl \in Client |-> 0]
  /\ known      = [cl \in Client |-> {}]
  /\ elements   = [cl \in Client |-> {}]
  /\ counter    = [cl \in Client |-> 0]
  /\ syncReady  = {}
  /\ provider   = [cl \in Client |-> Nobody]
  /\ requested  = {}
  /\ requests   = [cl \in Client |-> {}]
  /\ waiting    = [cl \in Client |-> <<>>]
  /\ rendering  = {}
  /\ replaying  = [cl \in Client |-> <<>>]
  /\ mesh       = [cl \in Client |-> <<>>]
  /\ wire       = [a \in Client |-> [b \in Client |-> <<>>]]
  /\ events     = 0

Server(cl)    == ServerJoin(cl) \/ \E life \in 1..lives[cl] : ServerClose(cl, life)
Announced(cl) == OnJoinedFirst(cl) \/ OnJoined(cl) \/ OnPeerJoined(cl) \/ OnPeerLeft(cl)
Receive(cl, d) == \/ KeepOperation(cl, d) \/ HandleTransportOperation(cl, d)
                  \/ HandleSnapshotRequest(cl, d) \/ HandleSnapshot(cl, d)
Channel(cl, d) == ChannelOpens(cl, d) \/ ChannelCloses(cl, d) \/ Receive(cl, d)

\* What the server, the channels and the callbacks do.
System(cl) == \/ Server(cl)
              \/ Announced(cl)
              \/ \E d \in Client : Channel(cl, d)
              \/ SnapshotRendered(cl)
              \/ ReplayNext(cl)

\* What users do, and the network.
Environment(cl) == \/ StartSession(cl)
                   \/ \E kept \in SUBSET Client : LeaveSession(cl, kept)
                   \/ \E dep \in {Root} \cup OpIds(elements[cl]) : Edit(cl, dep)
                   \/ SignalingBreaks(cl)

Next == \E cl \in Client : System(cl) \/ Environment(cl)

Spec == Init /\ [][Next]_vars

\* The server handles what it gets, sockets and channels deliver, handshakes of
\* two current sessions succeed and renders end.  That some step of the system
\* is taken while there are any is enough here, and less than being fair to
\* each of them.
Fairness == WF_vars(\E cl \in Client : System(cl))

FairSpec == Spec /\ Fairness

-----------------------------------------------------------------------------
(* Properties.                                                             *)

Open(cl, d) == Linked(cl, d) /\ mesh[cl][d].state = "open" /\ mesh[d][cl].state = "open"

\* Two synchronised clients with an open channel between them have the same
\* text when nothing is on its way: what one of them learned while the other
\* waited for its snapshot, and what a client that left told only one of them,
\* has reached the other, by the snapshot, the operations kept until it came,
\* or by forwarding.
ConnectedPeersAgree ==
  Quiet => \A cl, d \in syncReady : Open(cl, d) => elements[cl] = elements[d]

\* Two different operations never share an id among what the sessions hold.
LiveIdsAreUnique ==
  LET live == UNION {known[cl] : cl \in syncReady}
  IN  \A o, p \in live : o.id = p.id => o = p

\* When users and breaks come to an end, every session with a signaling
\* connection has its text and keeps it: a client that waits is answered by its
\* provider, or by the one that takes its place.
EverySessionSyncs ==
  <>[](\A cl \in Client : socket[cl] # "none" => \/ cl \in syncReady
                                                \/ socket[cl] = "broken")
=============================================================================

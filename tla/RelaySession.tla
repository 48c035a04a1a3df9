---------------------------- MODULE RelaySession ----------------------------
(***************************************************************************)
(* The relay server with the clients of the extension: SessionManager (in  *)
(* relay mode) over RelayTransport.  An edit is one operation; a CRDT is   *)
(* the operations it has seen and those it has applied (SessionCrdt.tla),  *)
(* which determine the text (Replication.tla, OpSet.tla).  Rendering is    *)
(* modelled where control depends on it: handleTransportJoined waits for   *)
(* it.                                                                     *)
(*                                                                         *)
(* Seven constants say what the environment may do.  A Steady client stays *)
(* in its first session, its connection does not break, and it is there    *)
(* before the others come: with one, a room is never empty again.          *)
(***************************************************************************)
EXTENDS RelayServer, SessionCrdt

CONSTANTS Steady,         \* clients that stay
          EarlyEdits,     \* the user may edit while an open socket waits for `joined'
          LosesMessages,  \* a breaking connection loses what is under way
          SlowRender,     \* the user may leave and join during a render
          SlowServer,     \* a join may be handled after the next one of its client
          LateDelivery,   \* a socket being closed still delivers
          Restarts,       \* the server may stop and start again
          MaxEdits,       \* bound: edits and seeds, of all clients
          MaxSteadyEdits, \* bound: edits and seeds of a Steady client
          MaxLives,       \* bound: sessions of one client
          MaxBreaks       \* bound: broken or refused connections

NoRoom  == "no room"
NoConn  == "no connection"
NoOwner == <<>>

ASSUME NamesAssumption == NoRoom \notin Room /\ NoConn \notin Conn

ASSUME EnvironmentAssumption ==
  /\ Steady \subseteq Client
  /\ {EarlyEdits, LosesMessages, SlowRender, SlowServer, LateDelivery, Restarts} \subseteq BOOLEAN
  /\ {MaxEdits, MaxSteadyEdits, MaxLives, MaxBreaks} \subseteq Nat

VARIABLES session,     \* session: the room, or NoRoom
          transport,   \* the connection of transport, or NoConn
          owner,       \* the client and the session that opened a connection
          known,       \* crdt: the operations it has seen
          elements,    \* crdt: the operations it has applied
          syncReady,
          seedSent,
          offlineQueue,
          reconnect,   \* clients whose reconnectTimer is set
          rendering,   \* the calls of handleTransportJoined that wait for a
                       \* render, each by the session that made it
          lives,       \* sessionVersion: sessions begun
          edits,       \* edits of each client so far
          breaks,      \* breaks so far
          hydrated     \* history: clients whose session was given its room's log

crdtVars    == <<known, elements, edits>>
managerVars == <<session, transport, owner, syncReady, seedSent, offlineQueue,
                 reconnect, rendering, lives, hydrated>>
clientVars  == <<crdtVars, managerVars, breaks>>
vars        == <<serverVars, clientVars>>

TheOwner(c) == owner[c][1]
OwnerLife(c) == owner[c][2]

InSession(cl) == session[cl] # NoRoom
IsOpen(cl)    == transport[cl] # NoConn /\ status[transport[cl]] = "open"
Registered(cl) == /\ IsOpen(cl)
                  /\ session[cl] \in DOMAIN rooms
                  /\ IsActiveSender(rooms[session[cl]].peers, cl, transport[cl])
FreshConn     == CHOOSE c \in Conn : status[c] = "unused"

-----------------------------------------------------------------------------
(* The CRDT.                                                               *)

\* One operation after the other, in the order of the log.
LearnAll(K, log) ==
  LET learnt[i \in 0..Len(log)] == IF i = 0 THEN K ELSE Learn(learnt[i - 1], log[i])
  IN  learnt[Len(log)]

ApplyAll_StopsAtSeen(K, E, log) ==   \* mutant: a known first operation ends the replay
  IF Seen(K, log[1]) THEN E ELSE E \cup Range(log)

ApplyAll(K, E, log) ==
  LET applied[i \in 0..Len(log)] ==
        IF i = 0 THEN E
        ELSE Apply(LearnAll(K, SubSeq(log, 1, i - 1)), applied[i - 1], log[i])
  IN  applied[Len(log)]

\* next_operation_id, and the operation after the character dep.  The counter
\* is the greatest own one among what was applied.  edit tells operations of one
\* client apart that share an id.
NewOp(cl, dep) == [id   |-> <<cl, 1 + Max({0} \cup Numbers(cl, elements[cl]))>>,
                   dep  |-> dep,
                   room |-> session[cl],
                   edit |-> edits[cl] + 1]

MayMake(cl) == /\ MapThenSumSet(LAMBDA x : edits[x], Client) < MaxEdits
               /\ cl \in Steady => edits[cl] < MaxSteadyEdits

\* insert and delete apply what they make, but do not drain.
Make(cl, op) ==
  /\ MayMake(cl)
  /\ edits' = [edits EXCEPT ![cl] = @ + 1]
  /\ known' = [known EXCEPT ![cl] = @ \cup {op}]
  /\ elements' = [elements EXCEPT ![cl] = @ \cup {op}]

Operations(cl, ops) == [i \in DOMAIN ops |-> OperationMsg(session[cl], cl, ops[i])]

\* sendOperation for each of ops: to the socket if it is open, or queued.
Sent(cl, box, ops) ==
  IF IsOpen(cl) THEN [box EXCEPT ![transport[cl]] = @ \o Operations(cl, ops)] ELSE box

Queued_Dropped(cl, queue, ops) == queue   \* mutant: nothing is kept

Queued(cl, queue, ops) == IF IsOpen(cl) THEN queue ELSE queue \o ops

\* What handleTransportJoined does last: syncReady, and flushOfflineQueue,
\* which sends the queue once more and keeps what is not sent.  box is the
\* inboxes and queue the offline queue of cl when it is called.
Ready(cl, box, queue) ==
  /\ syncReady' = syncReady \cup {cl}
  /\ IF InSession(cl)
     THEN /\ inbox' = Sent(cl, box, queue)
          /\ offlineQueue' = [offlineQueue EXCEPT ![cl] = Queued(cl, <<>>, queue)]
     ELSE /\ inbox' = box
          /\ offlineQueue' = [offlineQueue EXCEPT ![cl] = queue]

-----------------------------------------------------------------------------
(* Commands of the user.                                                   *)

\* The server has answered the join on the transport of cl, and cl has read it.
Answered(cl) ==
  LET c == transport[cl]
  IN  joined[c] # NotJoined /\ \A m \in Range(stream[c]) : m.type # "joined"

\* One character after dep.
Edit(cl, dep) ==
  /\ InSession(cl)
  /\ cl \in syncReady
  \* applyingRemoteChangeDepth is 0: leaveSession resets it.
  /\ lives[cl] \notin Range(rendering[cl])
  /\ EarlyEdits \/ ~IsOpen(cl) \/ Answered(cl)
  /\ Make(cl, NewOp(cl, dep))
  /\ inbox' = Sent(cl, inbox, <<NewOp(cl, dep)>>)
  /\ offlineQueue' = [offlineQueue EXCEPT ![cl] = Queued(cl, @, <<NewOp(cl, dep)>>)]
  /\ UNCHANGED <<rooms, joined, stream, status, finished>>
  /\ UNCHANGED <<session, transport, owner, syncReady, seedSent, reconnect, rendering,
                 lives, breaks, hydrated>>

ClearReconnectTimer_Not(cl) == reconnect   \* mutant: the timer stays

ClearReconnectTimer(cl) == reconnect \ {cl}

SyncReadyAfterLeave_Kept(cl) == syncReady   \* mutant: leaveSession keeps it

SyncReadyAfterLeave(cl) == syncReady \ {cl}

QueueAfterLeave_Kept(cl) == offlineQueue   \* mutant: the queue goes on

QueueAfterLeave(cl) == [offlineQueue EXCEPT ![cl] = <<>>]

\* leaveSession, then what connect adds when a session in room follows.
ChangeSession(cl, room, newConn) ==
  LET old == transport[cl]
  IN  /\ session'   = [session EXCEPT ![cl] = room]
      /\ transport' = [transport EXCEPT ![cl] = newConn]
      /\ known'     = [known EXCEPT ![cl] = {}]
      /\ elements'  = [elements EXCEPT ![cl] = {}]
      /\ syncReady' = SyncReadyAfterLeave(cl)
      /\ seedSent'  = seedSent \ {cl}
      /\ reconnect' = ClearReconnectTimer(cl)
      /\ hydrated'  = hydrated \ {cl}
      /\ offlineQueue' = QueueAfterLeave(cl)
      \* transport.close(): the close frame follows what was sent.
      /\ status' = [c \in Conn |-> CASE c = newConn -> "connecting"
                                     [] c = old /\ status[c] = "open" -> "closing"
                                     [] c = old /\ status[c] = "connecting" -> "gone"
                                     [] OTHER -> status[c]]
      /\ inbox' = IF IsOpen(cl) THEN [inbox EXCEPT ![old] = Append(@, CloseMsg)] ELSE inbox
      /\ UNCHANGED <<rooms, joined, stream, finished, edits, rendering, breaks>>

JoinsHandled(cl) ==
  \/ SlowServer
  \/ \A c \in Conn : owner[c] # NoOwner /\ TheOwner(c) = cl =>
       \A m \in Range(inbox[c]) : m.type # "join"

MayChangeSession(cl) == SlowRender \/ rendering[cl] = <<>>

\* startSession and joinSession: connect.
StartSession(cl, room) ==
  /\ lives[cl] < (IF cl \in Steady THEN 1 ELSE MaxLives)
  /\ cl \in Steady \/ \A st \in Steady : Registered(st)
  /\ MayChangeSession(cl)
  /\ JoinsHandled(cl)
  /\ \E c \in Conn : status[c] = "unused"
  /\ ChangeSession(cl, room, FreshConn)
  /\ lives' = [lives EXCEPT ![cl] = @ + 1]
  /\ owner' = [owner EXCEPT ![FreshConn] = <<cl, lives[cl] + 1>>]

LeaveSession(cl) ==
  /\ InSession(cl)
  /\ cl \notin Steady
  /\ MayChangeSession(cl)
  /\ ChangeSession(cl, NoRoom, NoConn)
  /\ UNCHANGED <<lives, owner>>

-----------------------------------------------------------------------------
(* The socket and the timer.                                               *)

\* The open handler sends the join.
SocketOpens(cl) ==
  /\ transport[cl] # NoConn
  /\ Open(transport[cl], "connecting", <<JoinMsg(session[cl], cl)>>)
  /\ UNCHANGED <<rooms, clientVars>>

\* handleTransportClose, of the current transport; one that was closed by its
\* owner is disposed and does not call it.
SocketCloses(cl) ==
  /\ InSession(cl)
  /\ cl \notin Steady
  /\ breaks < MaxBreaks
  /\ breaks' = breaks + 1
  /\ LET c == transport[cl]
     IN  \/ /\ status[c] = "connecting"
            /\ status' = [status EXCEPT ![c] = "gone"]
            /\ UNCHANGED <<joined, inbox, stream, finished>>
         \/ \E kept \in 0..Len(inbox[c]) :
              /\ LosesMessages \/ inbox[c] = <<>>
              /\ Disconnect(c, kept)
              /\ stream' = [stream EXCEPT ![c] = <<>>]
  /\ reconnect' = reconnect \cup {cl}
  /\ UNCHANGED rooms
  /\ UNCHANGED <<crdtVars, session, transport, owner, syncReady, seedSent, offlineQueue,
                 rendering, lives, hydrated>>

\* The server stops, which ends every connection, and starts with no rooms.
ServerRestarts ==
  /\ Restarts
  /\ breaks < MaxBreaks
  /\ breaks' = breaks + 1
  /\ rooms' = [room \in {} |-> NewRoom]
  /\ finished' = finished \cup {c \in Conn : status[c] # "unused"}
  /\ status' = [c \in Conn |-> IF status[c] = "unused" THEN "unused" ELSE "gone"]
  /\ inbox' = [c \in Conn |-> <<>>]
  /\ stream' = [c \in Conn |-> <<>>]
  /\ joined' = [c \in Conn |-> NotJoined]
  /\ reconnect' = reconnect \cup {cl \in Client : InSession(cl)}
  /\ UNCHANGED <<crdtVars, session, transport, owner, syncReady, seedSent, offlineQueue,
                 rendering, lives, hydrated>>

\* The timer of scheduleReconnect: openTransport.  The old transport is closed
\* already.
Reconnect(cl) ==
  /\ cl \in reconnect
  /\ reconnect' = ClearReconnectTimer(cl)
  /\ JoinsHandled(cl)
  /\ \E c \in Conn : status[c] = "unused"
  /\ transport' = [transport EXCEPT ![cl] = FreshConn]
  /\ owner' = [owner EXCEPT ![FreshConn] = <<cl, lives[cl]>>]
  /\ status' = [status EXCEPT ![FreshConn] = "connecting"]
  /\ UNCHANGED <<rooms, joined, inbox, stream, finished>>
  /\ UNCHANGED <<crdtVars, session, syncReady, seedSent, offlineQueue, rendering, lives,
                 breaks, hydrated>>

-----------------------------------------------------------------------------
(* Messages from the server.  The handlers belong to the manager, not to a  *)
(* session: a message of an old connection reaches the session there is.    *)

Reading(c, type) ==
  /\ status[c] \in (IF LateDelivery THEN {"open", "closing"} ELSE {"open"})
  /\ stream[c] # <<>>
  /\ Head(stream[c]).type = type
  /\ stream' = [stream EXCEPT ![c] = Tail(@)]
  /\ UNCHANGED <<rooms, joined, status, finished>>

\* Errors are logged, presence is shown; without a session nothing is done.
HandleNothing(c) ==
  /\ \/ Reading(c, "error")
     \/ Reading(c, "presence")
     \/ ~InSession(TheOwner(c)) /\ (Reading(c, "joined") \/ Reading(c, "operation"))
  /\ UNCHANGED inbox
  /\ UNCHANGED clientVars

HandleTransportOperation(c) ==
  LET cl == TheOwner(c)
  IN  /\ Reading(c, "operation")
      /\ InSession(cl)
      /\ known' = [known EXCEPT ![cl] = Learn(@, Head(stream[c]).op)]
      /\ elements' = [elements EXCEPT ![cl] = Apply(known[cl], @, Head(stream[c]).op)]
      /\ UNCHANGED inbox
      /\ UNCHANGED <<edits, managerVars, breaks>>

Hydrated(cl, c) ==
  hydrated' = IF OwnerLife(c) = lives[cl] THEN hydrated \cup {cl} ELSE hydrated

\* handleTransportJoined up to its await, for a log that is not empty.
ReplayLog(c) ==
  LET cl  == TheOwner(c)
      log == Head(stream[c]).opLog
  IN  /\ Reading(c, "joined")
      /\ InSession(cl)
      /\ log # <<>>
      /\ known' = [known EXCEPT ![cl] = LearnAll(@, log)]
      /\ elements' = [elements EXCEPT ![cl] = ApplyAll(known[cl], @, log)]
      /\ rendering' = [rendering EXCEPT ![cl] = Append(@, lives[cl])]
      /\ Hydrated(cl, c)
      /\ UNCHANGED inbox
      /\ UNCHANGED <<edits, session, transport, owner, syncReady, seedSent, offlineQueue,
                     reconnect, lives, breaks>>

\* The same call after the await; the session may be another one by now.
RenderDone(cl, i) ==
  /\ rendering' = [rendering EXCEPT ![cl] = RemoveAt(@, i)]
  /\ Ready(cl, inbox, offlineQueue[cl])
  /\ UNCHANGED <<rooms, joined, stream, status, finished>>
  /\ UNCHANGED <<crdtVars, session, transport, owner, seedSent, reconnect, lives, breaks, hydrated>>

\* handleTransportJoined for an empty log: the first time in a session the
\* document seeds the CRDT, unless it is empty; there is no await.
EmptyLog(c) ==
  LET cl == TheOwner(c)
  IN  /\ Reading(c, "joined")
      /\ InSession(cl)
      /\ Head(stream[c]).opLog = <<>>
      /\ Hydrated(cl, c)
      /\ seedSent' = seedSent \cup {cl}
      /\ \/ /\ cl \notin seedSent
            /\ Make(cl, NewOp(cl, Root))
            /\ Ready(cl, Sent(cl, inbox, <<NewOp(cl, Root)>>),
                     Queued(cl, offlineQueue[cl], <<NewOp(cl, Root)>>))
         \/ /\ Ready(cl, inbox, offlineQueue[cl])
            /\ UNCHANGED crdtVars
      /\ UNCHANGED <<session, transport, owner, reconnect, rendering, lives, breaks>>

-----------------------------------------------------------------------------
Init ==
  /\ ServerInit
  /\ session      = [cl \in Client |-> NoRoom]
  /\ transport    = [cl \in Client |-> NoConn]
  /\ owner        = [c \in Conn |-> NoOwner]
  /\ known        = [cl \in Client |-> {}]
  /\ elements     = [cl \in Client |-> {}]
  /\ syncReady    = {}
  /\ seedSent     = {}
  /\ offlineQueue = [cl \in Client |-> <<>>]
  /\ reconnect    = {}
  /\ rendering    = [cl \in Client |-> <<>>]
  /\ lives        = [cl \in Client |-> 0]
  /\ edits        = [cl \in Client |-> 0]
  /\ breaks       = 0
  /\ hydrated     = {}

Server(c)  == Handle(c) /\ UNCHANGED clientVars
Message(c) == /\ owner[c] # NoOwner
              /\ HandleNothing(c) \/ HandleTransportOperation(c) \/ ReplayLog(c) \/ EmptyLog(c)

Next ==
  \/ \E c \in Conn : Server(c) \/ Message(c)
  \/ \E cl \in Client :
       \/ \E room \in Room : StartSession(cl, room)
       \/ LeaveSession(cl)
       \/ \E dep \in {Root} \cup OpIds(elements[cl]) : Edit(cl, dep)
       \/ SocketOpens(cl)
       \/ SocketCloses(cl)
       \/ Reconnect(cl)
       \/ \E i \in DOMAIN rendering[cl] : RenderDone(cl, i)
  \/ ServerRestarts

Spec == Init /\ [][Next]_vars

\* tokio runs a handler that has a message, an open socket delivers, the
\* server accepts, timers fire and renders end: some such step is taken while
\* there is one.
SystemStep ==
  \/ \E c \in Conn : Server(c) \/ Message(c)
  \/ \E cl \in Client : \/ SocketOpens(cl)
                        \/ Reconnect(cl)
                        \/ \E i \in DOMAIN rendering[cl] : RenderDone(cl, i)

FairSpec == Spec /\ WF_vars(SystemStep)

-----------------------------------------------------------------------------
(* Properties.                                                             *)

Log(room)     == Range(RoomOf(room).log)
Under(cl)     == Range(inbox[transport[cl]])
InRoom(room)  == {cl \in Client : session[cl] = room}
LastingRooms  == {session[st] : st \in Steady} \ {NoRoom}
AllRead(cl)   == IsOpen(cl) /\ stream[transport[cl]] = <<>>

\* The state of the session manager has the types of its fields; a queue and a
\* timer belong to a session, and a session has a transport.
TypeOK ==
  /\ session \in [Client -> Room \cup {NoRoom}]
  /\ transport \in [Client -> Conn \cup {NoConn}]
  /\ \A cl \in Client : InSession(cl) <=> transport[cl] # NoConn
  /\ \A cl \in Client : ~InSession(cl) => offlineQueue[cl] = <<>> /\ cl \notin reconnect
  /\ \A cl \in Client : InSession(cl) => owner[transport[cl]] = <<cl, lives[cl]>>
  /\ syncReady \subseteq Client
  /\ seedSent \subseteq Client
  /\ edits \in [Client -> Nat]
  /\ breaks \in 0..MaxBreaks

\* Where a Steady client is, two different operations never share an id among
\* what the log of the room and the sessions in it hold, although every new
\* session counts from 0 again: the log is replayed before the first edit, and
\* what an old connection of the client still had under way is rejected
\* (server.rs:159-164).
LiveIdsAreUnique ==
  \A room \in LastingRooms :
    LET live == Log(room) \cup UNION {known[cl] : cl \in InRoom(room)}
    IN  \A o, p \in live : o.id = p.id => o = p

\* A registered client that has read its connection has seen the whole log,
\* whatever was lost, replaced, delivered late or handled for another session.
ReadersHaveSeenTheLog ==
  \A cl \in Client : Registered(cl) /\ AllRead(cl) =>
    {o.id : o \in Log(session[cl])} \subseteq {o.id : o \in known[cl]}

\* Where a Steady client is, what a session shows is in the log of the room, on
\* its way there, or queued.
NothingIsLost ==
  \A cl \in Client : session[cl] \in LastingRooms =>
    \A o \in known[cl] : \/ o \in Log(session[cl])
                          \/ o \in Range(offlineQueue[cl])
                          \/ \E m \in Under(cl) : m.type = "operation" /\ m.op = o

\* The bound on connections does not keep cl from its next one.
CanConnect(cl) == cl \in reconnect => \E c \in Conn : status[c] = "unused"

Settled(cl) == Registered(cl) /\ AllRead(cl) /\ Under(cl) = {} /\ offlineQueue[cl] = <<>>

\* Connected clients of a room where a Steady client is show the same text when
\* they have nothing left to send or to read.
SettledClientsAgree ==
  \A cl, dl \in Client :
    /\ session[cl] \in LastingRooms
    /\ Settled(cl) /\ Settled(dl) /\ session[cl] = session[dl]
    => elements[cl] = elements[dl]

\* Local edits wait for the log of the session they belong to
\* (sessionManager.ts:511).
EditsWaitForTheLog == \A cl \in Client : InSession(cl) /\ cl \in syncReady => cl \in hydrated

\* The log of a room gets only what was written in it, although the queue, the
\* timer and the handlers are the manager's and not a session's, and whatever
\* is late, lost or restarted while users change rooms.
RoomsStayApart == \A room \in Room : \A o \in Log(room) : o.room = room

\* When the user has stopped changing things, what is queued is sent, and the
\* clients that stay in a room end up with the same text.
EventualAgreement ==
  <>[](\A cl, dl \in Client :
         InSession(cl) /\ session[cl] = session[dl] /\ CanConnect(cl) /\ CanConnect(dl) =>
           elements[cl] = elements[dl] /\ offlineQueue[cl] = <<>>)
=============================================================================

----------------------------- MODULE Connections -----------------------------
(***************************************************************************)
(* WebSocket connections to a server with one handler task per connection, *)
(* as both servers have them.  Each handler takes the lock of the room     *)
(* table once per message, so one message is one step of the server;       *)
(* handlers of different connections interleave freely.                    *)
(***************************************************************************)
EXTENDS Naturals, Sequences, FiniteSets, Functions, SequencesExt

CONSTANT Conn         \* connections, each used once

VARIABLES joined,     \* joined_room of each handler
          inbox,      \* what the client has sent and the handler not yet read
          stream,     \* what was sent to the client of a connection and the
                      \* client has not yet read
          status,     \* of the client's socket: "unused", "connecting", "open",
                      \* "closing" (by the client) or "gone"
          finished    \* connections whose handler has ended

connVars == <<joined, inbox, stream, status, finished>>

NotJoined == <<>>
CloseMsg  == [type |-> "close"]

SendTo(conns, msg) == [c \in Conn |-> IF c \in conns THEN Append(stream[c], msg) ELSE stream[c]]

\* The handler of c reads its next message.
Reads(c, type) == /\ c \notin finished
                  /\ inbox[c] # <<>>
                  /\ Head(inbox[c]).type = type
                  /\ inbox' = [inbox EXCEPT ![c] = Tail(@)]

\* A client that sends what it likes.
Send(c, msg) == /\ status[c] = "open"
                /\ inbox' = [inbox EXCEPT ![c] = Append(@, msg)]
                /\ UNCHANGED <<joined, stream, status, finished>>

\* The socket of c is open; the client's first message, if any, is with it.
Open(c, from, first) == /\ status[c] = from
                        /\ status' = [status EXCEPT ![c] = "open"]
                        /\ inbox'  = [inbox EXCEPT ![c] = first]
                        /\ UNCHANGED <<joined, stream, finished>>

\* The connection breaks, or is closed, and of the messages under way to the
\* server only the first kept arrive.  Who models the client says what becomes of
\* the stream, which nobody reads any more.
Disconnect(c, kept) ==
  /\ status[c] = "open"
  /\ kept <= Len(inbox[c])
  /\ status' = [status EXCEPT ![c] = "gone"]
  /\ inbox'  = [inbox EXCEPT ![c] = Append(SubSeq(@, 1, kept), CloseMsg)]
  /\ UNCHANGED <<joined, finished>>

ConnInit ==
  /\ joined   = [c \in Conn |-> NotJoined]
  /\ inbox    = [c \in Conn |-> <<>>]
  /\ stream   = [c \in Conn |-> <<>>]
  /\ status   = [c \in Conn |-> "unused"]
  /\ finished = {}
=============================================================================

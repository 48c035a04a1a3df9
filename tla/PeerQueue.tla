------------------------------ MODULE PeerQueue ------------------------------
(***************************************************************************)
(* The messages of P2PMeshTransport to one peer: the data channel, the     *)
(* queue in front of it and the timer that flushes it.  Messages are       *)
(* numbered in the order of the calls of sendDataMessage.                  *)
(*                                                                         *)
(* JavaScript runs one call to its end, while the channel goes on by       *)
(* itself, so a call is a list of tasks, run one by one before anything    *)
(* else of the transport happens.                                          *)
(***************************************************************************)
EXTENDS Integers, Sequences

CONSTANTS TooLarge,      \* the numbers of messages that exceed maxMessageSize
          MaxMessages,   \* bound: messages
          MaxWire        \* bound: messages on the wire

ASSUME MessageAssumption == TooLarge \subseteq Nat /\ MaxMessages \in Nat /\ MaxWire \in Nat

VARIABLES accepted,      \* messages given to sendDataMessage
          last,          \* the latest message the channel took, or 0
          wire,          \* messages taken and not yet read by the peer
          queue,         \* queuedMessages
          timer,         \* flushTimer is set
          channelOpen,
          channel,       \* the channel itself: "new", "open" or "closed"
          gone,          \* closeMeshPeer was called
          task           \* what the running call has yet to do

fifoVars    == <<accepted, last, wire>>
channelVars == <<channelOpen, channel, gone>>
vars        == <<fifoVars, channelVars, queue, timer, task>>

MayBegin == task = <<>>
CanSend  == channelOpen /\ channel = "open"

-----------------------------------------------------------------------------
(* sendDataMessage and flushPeerQueue.                                     *)

\* sendMessage of the channel: true when it took the message, and false when it
\* did not or will send it later (node-datachannel does not tell them apart).
Takes(n) == Len(wire) < MaxWire /\ last' = n /\ wire' = Append(wire, n)
Leaves   == UNCHANGED <<last, wire>>

TrySend(n, result) ==
  \/ ~CanSend /\ result = "retry" /\ Leaves
  \/ CanSend /\ n \in TooLarge /\ result = "failed" /\ Leaves
  \/ CanSend /\ n \notin TooLarge /\ result = "sent" /\ Takes(n)
  \/ CanSend /\ n \notin TooLarge /\ result = "retry" /\ (Takes(n) \/ Leaves)

\* sendDataMessage for a channel that is not open.
QueueMessage ==
  /\ task # <<>> /\ Head(task) = "send"
  /\ ~CanSend
  /\ accepted' = accepted + 1
  /\ queue' = Append(queue, accepted + 1)
  /\ task' = Tail(task)
  /\ UNCHANGED <<last, wire, channelVars, timer>>

QueueBehind_Never == FALSE   \* mutant: a new message does not wait for the queue

QueueBehind == queue # <<>>

\* For a channel with messages that wait: the new one waits behind them.
QueueMessageAndFlush ==
  /\ task # <<>> /\ Head(task) = "send"
  /\ CanSend
  /\ QueueBehind
  /\ accepted' = accepted + 1
  /\ queue' = Append(queue, accepted + 1)
  /\ task' = <<"flush">> \o Tail(task)
  /\ UNCHANGED <<last, wire, channelVars, timer>>

TimerAfterRetry_Unset == timer   \* mutant: the flush is not scheduled

\* schedulePeerQueueFlush.
TimerAfterRetry == TRUE

SendAtOnce ==
  /\ task # <<>> /\ Head(task) = "send"
  /\ CanSend
  /\ ~QueueBehind
  /\ accepted' = accepted + 1
  /\ task' = Tail(task)
  /\ \/ /\ \E result \in {"sent", "failed"} : TrySend(accepted + 1, result)
        /\ UNCHANGED <<queue, timer>>
     \/ /\ TrySend(accepted + 1, "retry")
        /\ queue' = Append(queue, accepted + 1)
        /\ timer' = TimerAfterRetry
  /\ UNCHANGED channelVars

\* flushPeerQueue up to its loop.
BeginFlush ==
  /\ task # <<>> /\ Head(task) = "flush"
  /\ timer' = FALSE
  /\ task' = IF CanSend THEN <<"loop">> \o Tail(task) ELSE Tail(task)
  /\ UNCHANGED <<fifoVars, channelVars, queue>>

EndFlush ==
  /\ task # <<>> /\ Head(task) = "loop"
  /\ queue = <<>>
  /\ task' = Tail(task)
  /\ UNCHANGED <<fifoVars, channelVars, queue, timer>>

\* shift, then unshift.
QueueAfterRetry(q) == <<Head(q)>> \o Tail(q)

\* One round of the loop; after a message that was sent it ends if the channel
\* has too much to do.
FlushOne ==
  /\ task # <<>> /\ Head(task) = "loop"
  /\ queue # <<>>
  /\ \/ /\ TrySend(Head(queue), "retry")
        /\ queue' = QueueAfterRetry(queue)
        /\ timer' = TimerAfterRetry
        /\ task' = Tail(task)
     \/ /\ TrySend(Head(queue), "failed")
        /\ queue' = Tail(queue)
        /\ UNCHANGED <<timer, task>>
     \/ /\ TrySend(Head(queue), "sent")
        /\ queue' = Tail(queue)
        /\ \/ UNCHANGED <<timer, task>>
           \/ timer' = TimerAfterRetry /\ task' = Tail(task)
  /\ UNCHANGED <<accepted, channelVars>>

-----------------------------------------------------------------------------
(* Calls and callbacks.                                                    *)

\* A call that sends n messages: an operation, a request, or a snapshot.
Call(n) ==
  /\ MayBegin
  /\ ~gone
  /\ accepted + n <= (IF channelOpen THEN MaxMessages ELSE MaxMessages - 1)
  /\ task' = [i \in 1..n |-> "send"]
  /\ UNCHANGED <<fifoVars, channelVars, queue, timer>>

\* markOpen: the hello, and a flush.
OnOpen ==
  /\ MayBegin
  /\ channel = "open" /\ ~channelOpen
  /\ ~gone
  /\ channelOpen' = TRUE
  /\ task' = <<"send", "flush">>
  /\ UNCHANGED <<fifoVars, channel, gone, queue, timer>>

\* onClosed, and onStateChange, which leaves the timer.
OnClosed ==
  /\ MayBegin
  /\ channel = "closed" /\ channelOpen
  /\ channelOpen' = FALSE
  /\ timer' \in {FALSE, timer}
  /\ UNCHANGED <<fifoVars, channel, gone, queue, task>>

OnBufferedAmountLow ==
  /\ MayBegin
  /\ channelOpen
  /\ queue # <<>>   \* with nothing queued it changes nothing but the timer
  /\ task' = <<"flush">>
  /\ UNCHANGED <<fifoVars, channelVars, queue, timer>>

TimerFires ==
  /\ MayBegin
  /\ timer
  /\ timer' = FALSE
  /\ task' = <<"flush">>
  /\ UNCHANGED <<fifoVars, channelVars, queue>>

\* closeMeshPeer and close.
CloseMeshPeer ==
  /\ MayBegin
  /\ ~gone
  /\ gone' = TRUE
  /\ channel' = "closed"
  /\ timer' = FALSE
  /\ UNCHANGED <<fifoVars, channelOpen, queue, task>>

-----------------------------------------------------------------------------
(* The channel.                                                            *)

ChannelOpens ==
  /\ channel = "new"
  /\ channel' = "open"
  /\ UNCHANGED <<fifoVars, channelOpen, gone, queue, timer, task>>

ChannelCloses ==
  /\ channel = "open"
  /\ channel' = "closed"
  /\ UNCHANGED <<fifoVars, channelOpen, gone, queue, timer, task>>

Read ==
  /\ wire # <<>>
  /\ wire' = Tail(wire)
  /\ UNCHANGED <<accepted, last, channelVars, queue, timer, task>>

-----------------------------------------------------------------------------
Init ==
  /\ accepted = 0 /\ last = 0 /\ wire = <<>>
  /\ queue = <<>> /\ timer = FALSE /\ task = <<>>
  /\ channelOpen = FALSE /\ channel = "new" /\ gone = FALSE

RunTask == \/ QueueMessage \/ QueueMessageAndFlush \/ SendAtOnce
           \/ BeginFlush \/ EndFlush \/ FlushOne

\* Callbacks that bring no message of their own.
Callback == OnClosed \/ OnBufferedAmountLow \/ TimerFires \/ CloseMeshPeer

Channel == ChannelOpens \/ ChannelCloses

Next ==
  \/ RunTask
  \/ \E n \in 1..MaxMessages : Call(n)
  \/ OnOpen
  \/ Callback
  \/ Channel
  \/ Read

Spec == Init /\ [][Next]_vars

-----------------------------------------------------------------------------
(* Properties.                                                             *)

\* The queue, the timer and the tasks have their types.
QueueTypeOK ==
  /\ accepted \in Nat /\ last \in Nat
  /\ wire \in Seq(Nat) /\ queue \in Seq(Nat)
  /\ timer \in BOOLEAN /\ channelOpen \in BOOLEAN /\ gone \in BOOLEAN
  /\ channel \in {"new", "open", "closed"}
  /\ task \in Seq({"send", "flush", "loop"})

\* What waits are the latest messages, in order, and what does not wait has
\* reached the channel or was too large: no send overtakes the queue, no retry
\* loses, repeats or reorders a message in it.
QueueIsInOrder ==
  LET first == accepted - Len(queue) + 1
  IN  /\ first \in Nat
      /\ \A i \in 1..Len(queue) : queue[i] = first + i - 1
      /\ last <= first /\ last <= accepted
      /\ \A n \in last + 1..first - 1 : n \in TooLarge

\* While the channel is open, a message that waits has a timer or a flush to
\* come: the queue never stalls (p2pMeshTransport.ts:553-609).
QueueNeverStalls ==
  CanSend /\ queue # <<>> /\ ~timer => \E i \in 1..Len(task) : task[i] \in {"flush", "loop"}

Fifo == INSTANCE PeerFifo

\* The wire carries what was accepted, in order.
ImplementsFifo == Fifo!Spec
=============================================================================

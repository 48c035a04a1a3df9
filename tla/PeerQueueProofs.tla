-------------------------- MODULE PeerQueueProofs --------------------------
(***************************************************************************)
(* What is proved of the queue of messages to one peer, for any number of  *)
(* messages, any of which may be too large, and of the snapshots that go   *)
(* over it in chunks, any number of them of any length.                    *)
(***************************************************************************)
EXTENDS SnapshotChunks, TLAPS, FiniteSetTheorems

(***************************************************************************)
(* A channel counts as open only after it has opened.  QueueNeverStalls    *)
(* needs it: a channel may open by itself at any time, and what waits is   *)
(* flushed only by the call of markOpen.                                   *)
(***************************************************************************)
OpenedIsKnown == channelOpen => channel # "new"

IInv == QueueTypeOK /\ QueueIsInOrder /\ QueueNeverStalls /\ OpenedIsKnown

\* What of a task list is left after its first task: the flushes behind it.
HasFlush(t) == \E i \in 1..Len(t) : t[i] \in {"flush", "loop"}

LEMMA TailTask ==
  ASSUME NEW S, NEW t \in Seq(S), t # <<>>
  PROVE  /\ Tail(t) \in Seq(S) /\ Head(t) \in S
         /\ Len(Tail(t)) = Len(t) - 1 /\ Len(t) \in Nat \ {0}
         /\ \A i \in 1..Len(t) - 1 : Tail(t)[i] = t[i + 1]
         /\ Head(t) = t[1]
  OBVIOUS

LEMMA FlushBehind ==
  ASSUME NEW t \in Seq({"send", "flush", "loop"}), t # <<>>, Head(t) = "send", HasFlush(t)
  PROVE  HasFlush(Tail(t))
<1>1. PICK i \in 1..Len(t) : t[i] \in {"flush", "loop"}
  BY DEF HasFlush
<1>2. i - 1 \in 1..Len(Tail(t)) /\ Tail(t)[i - 1] = t[i]
  BY <1>1, TailTask
<1> QED BY <1>1, <1>2 DEF HasFlush

LEMMA FlushFirst ==
  ASSUME NEW t \in Seq({"send", "flush", "loop"}), NEW x \in {"flush", "loop"}
  PROVE  /\ <<x>> \o t \in Seq({"send", "flush", "loop"})
         /\ HasFlush(<<x>> \o t)
<1>1. Len(<<x>> \o t) \in Nat \ {0} /\ (<<x>> \o t)[1] = x
  OBVIOUS
<1> QED BY <1>1 DEF HasFlush


\* The list of n tasks of a call that only sends.
LEMMA SendTasks ==
  ASSUME NEW n \in Nat
  PROVE  [i \in 1..n |-> "send"] \in Seq({"send", "flush", "loop"})
  OBVIOUS

-----------------------------------------------------------------------------
(* Types.                                                                  *)

LEMMA TriedType ==
  ASSUME QueueTypeOK, NEW n \in Nat,
         NEW result, TrySend(n, result)
  PROVE  last' \in Nat /\ wire' \in Seq(Nat)
<1>1. Append(wire, n) \in Seq(Nat)
  BY DEF QueueTypeOK
<1> QED BY <1>1 DEF QueueTypeOK, TrySend, Takes, Leaves

LEMMA TypeStep == QueueTypeOK /\ [Next]_vars => QueueTypeOK'
<1> SUFFICES ASSUME QueueTypeOK, [Next]_vars PROVE QueueTypeOK'
  OBVIOUS
<1> DEFINE Task == {"send", "flush", "loop"}
<1> USE DEF QueueTypeOK, fifoVars, channelVars
<1>1. CASE QueueMessage
  <2>1. Tail(task) \in Seq(Task)
    BY <1>1, TailTask DEF QueueMessage
  <2> QED BY <1>1, <2>1 DEF QueueMessage
<1>2. CASE QueueMessageAndFlush
  <2>1. <<"flush">> \o Tail(task) \in Seq(Task)
    BY <1>2, TailTask, FlushFirst DEF QueueMessageAndFlush
  <2> QED BY <1>2, <2>1 DEF QueueMessageAndFlush
<1>3. CASE SendAtOnce
  <2>1. Tail(task) \in Seq(Task)
    BY <1>3, TailTask DEF SendAtOnce
  <2>2. accepted + 1 \in Nat /\ Append(queue, accepted + 1) \in Seq(Nat)
    OBVIOUS
  <2>3. queue' \in Seq(Nat)
    BY <1>3, <2>2 DEF SendAtOnce
  <2>4. \E result \in {"sent", "failed", "retry"} : TrySend(accepted + 1, result)
    BY <1>3 DEF SendAtOnce
  <2>5. last' \in Nat /\ wire' \in Seq(Nat)
    BY <2>2, <2>4, TriedType
  <2>6. timer' \in BOOLEAN
    BY <1>3 DEF SendAtOnce, TimerAfterRetry
  <2> QED BY <1>3, <2>1, <2>2, <2>3, <2>5, <2>6 DEF SendAtOnce
<1>4. CASE BeginFlush
  <2>1. Tail(task) \in Seq(Task) /\ <<"loop">> \o Tail(task) \in Seq(Task)
    BY <1>4, TailTask, FlushFirst DEF BeginFlush
  <2> QED BY <1>4, <2>1 DEF BeginFlush
<1>5. CASE EndFlush
  BY <1>5, TailTask DEF EndFlush
<1>6. CASE FlushOne
  <2>1. Tail(task) \in Seq(Task) /\ Tail(queue) \in Seq(Nat) /\ Head(queue) \in Nat
    BY <1>6, TailTask DEF FlushOne
  <2>2. \E result \in {"sent", "failed", "retry"} : TrySend(Head(queue), result)
    BY <1>6 DEF FlushOne
  <2>3. last' \in Nat /\ wire' \in Seq(Nat)
    BY <2>1, <2>2, TriedType
  <2>4. QueueAfterRetry(queue) \in Seq(Nat)
    BY <2>1 DEF QueueAfterRetry
  <2>5. queue' \in Seq(Nat) /\ task' \in Seq(Task)
    BY <1>6, <2>1, <2>4 DEF FlushOne
  <2>6. timer' \in BOOLEAN
    BY <1>6 DEF FlushOne, TimerAfterRetry
  <2> QED BY <1>6, <2>3, <2>5, <2>6 DEF FlushOne
<1>7. ASSUME NEW n \in 1..MaxMessages, Call(n) PROVE QueueTypeOK'
  <2>1. n \in Nat
    BY MessageAssumption
  <2> QED BY <1>7, <2>1, SendTasks DEF Call
<1>8. CASE OnOpen
  <2>1. <<"send", "flush">> \in Seq(Task)
    OBVIOUS
  <2> QED BY <1>8, <2>1 DEF OnOpen
<1>9. CASE Callback
  <2>1. <<"flush">> \in Seq(Task)
    OBVIOUS
  <2> QED BY <1>9, <2>1 DEF Callback, OnClosed, OnBufferedAmountLow, TimerFires, CloseMeshPeer
<1>10. CASE Channel
  BY <1>10 DEF Channel, ChannelOpens, ChannelCloses
<1>11. CASE Read
  BY <1>11 DEF Read
<1>12. CASE UNCHANGED vars
  BY <1>12 DEF vars
<1> QED
  BY <1>1, <1>2, <1>3, <1>4, <1>5, <1>6, <1>7, <1>8, <1>9, <1>10, <1>11, <1>12
  DEF Next, RunTask

-----------------------------------------------------------------------------
(* Order.                                                                  *)

\* What is known of the first message that waits, or of the next one.
LEMMA FirstWaits ==
  ASSUME QueueTypeOK, QueueIsInOrder
  PROVE  /\ queue # <<>> => /\ Head(queue) = accepted - Len(queue) + 1
                            /\ Head(queue) <= accepted
         /\ queue = <<>> => last <= accepted
  BY TailTask DEF QueueTypeOK, QueueIsInOrder

\* What an attempt to send does to the latest message on the wire.
LEMMA Tried ==
  ASSUME NEW n
  PROVE  /\ TrySend(n, "sent") => last' = n
         /\ TrySend(n, "failed") => last' = last /\ n \in TooLarge
         /\ TrySend(n, "retry") => last' = n \/ last' = last
  BY DEF TrySend, Takes, Leaves

\* A message is accepted and waits at the end.
LEMMA OrderAfterPush ==
  ASSUME QueueTypeOK, QueueIsInOrder,
         accepted' = accepted + 1, queue' = Append(queue, accepted + 1),
         last' = last \/ (queue = <<>> /\ last' = accepted + 1)
  PROVE  QueueIsInOrder'
<1>1. /\ Len(queue') = Len(queue) + 1 /\ queue'[Len(queue) + 1] = accepted + 1
      /\ \A i \in 1..Len(queue) : queue'[i] = queue[i]
  BY DEF QueueTypeOK
<1>2. accepted' - Len(queue') + 1 = accepted - Len(queue) + 1
  BY <1>1 DEF QueueTypeOK
<1>3. \A i \in 1..Len(queue') : queue'[i] = accepted' - Len(queue') + 1 + i - 1
  BY <1>1, <1>2 DEF QueueTypeOK, QueueIsInOrder
<1>4. CASE last' = last
  BY <1>2, <1>3, <1>4 DEF QueueTypeOK, QueueIsInOrder
<1>5. CASE queue = <<>> /\ last' = accepted + 1
  BY <1>2, <1>3, <1>5 DEF QueueTypeOK, QueueIsInOrder
<1> QED BY <1>4, <1>5

\* The first message leaves the queue, for the wire or because it is too large.
LEMMA OrderAfterPop ==
  ASSUME QueueTypeOK, QueueIsInOrder, queue # <<>>,
         accepted' = accepted, queue' = Tail(queue),
         last' = Head(queue) \/ (last' = last /\ Head(queue) \in TooLarge)
  PROVE  QueueIsInOrder'
<1> DEFINE first == accepted - Len(queue) + 1
<1>1. /\ Len(queue') = Len(queue) - 1 /\ Len(queue) \in Nat \ {0}
      /\ \A i \in 1..Len(queue) - 1 : queue'[i] = queue[i + 1]
      /\ Head(queue) = first /\ first <= accepted
  BY TailTask, FirstWaits DEF QueueTypeOK
<1>2. accepted' - Len(queue') + 1 = first + 1 /\ first \in Nat
  BY <1>1 DEF QueueTypeOK, QueueIsInOrder
<1>3. \A i \in 1..Len(queue') : queue'[i] = accepted' - Len(queue') + 1 + i - 1
  BY <1>1, <1>2 DEF QueueTypeOK, QueueIsInOrder
<1>4. last' \in Nat /\ last' <= first
  BY <1>1, <1>2 DEF QueueTypeOK, QueueIsInOrder
<1>5. \A n \in last' + 1..first : n \in TooLarge
  BY <1>1, <1>2 DEF QueueTypeOK, QueueIsInOrder
<1>6. accepted' - Len(queue') + 1 \in Nat /\ last' <= first + 1 /\ last' <= accepted'
  BY <1>1, <1>2, <1>4 DEF QueueTypeOK
<1> QED BY <1>2, <1>3, <1>5, <1>6 DEF QueueIsInOrder, QueueTypeOK

\* An attempt that puts no message past the first one.
LEMMA OrderAfterRetry ==
  ASSUME QueueTypeOK, QueueIsInOrder, queue # <<>>,
         accepted' = accepted, queue' = queue,
         last' = Head(queue) \/ last' = last
  PROVE  QueueIsInOrder'
  BY FirstWaits DEF QueueTypeOK, QueueIsInOrder

\* A message goes by the empty queue.
LEMMA OrderAfterSend ==
  ASSUME QueueTypeOK, QueueIsInOrder, queue = <<>>,
         accepted' = accepted + 1, queue' = queue,
         last' = accepted + 1 \/ (last' = last /\ accepted + 1 \in TooLarge)
  PROVE  QueueIsInOrder'
  BY DEF QueueTypeOK, QueueIsInOrder

LEMMA OrderStep == QueueTypeOK /\ QueueIsInOrder /\ [Next]_vars => QueueIsInOrder'
<1> SUFFICES ASSUME QueueTypeOK, QueueIsInOrder, [Next]_vars PROVE QueueIsInOrder'
  OBVIOUS
<1> USE DEF fifoVars
<1>1. CASE QueueMessage \/ QueueMessageAndFlush
  <2>1. accepted' = accepted + 1 /\ queue' = Append(queue, accepted + 1) /\ last' = last
    BY <1>1 DEF QueueMessage, QueueMessageAndFlush
  <2> QED BY <2>1, OrderAfterPush
<1>2. CASE SendAtOnce
  <2>1. queue = <<>> /\ accepted' = accepted + 1
    BY <1>2 DEF SendAtOnce, QueueBehind
  <2>2. CASE queue' = Append(queue, accepted + 1) /\ TrySend(accepted + 1, "retry")
    BY <2>1, <2>2, Tried, OrderAfterPush
  <2>3. CASE queue' = queue /\ TrySend(accepted + 1, "sent")
    BY <2>1, <2>3, Tried, OrderAfterSend
  <2>4. CASE queue' = queue /\ TrySend(accepted + 1, "failed")
    BY <2>1, <2>4, Tried, OrderAfterSend
  <2> QED BY <1>2, <2>2, <2>3, <2>4 DEF SendAtOnce
<1>3. CASE FlushOne
  <2>1. queue # <<>> /\ accepted' = accepted
    BY <1>3 DEF FlushOne
  <2>2. QueueAfterRetry(queue) = queue
    BY <2>1 DEF QueueAfterRetry, QueueTypeOK
  <2>3. CASE queue' = QueueAfterRetry(queue) /\ TrySend(Head(queue), "retry")
    BY <2>1, <2>2, <2>3, Tried, OrderAfterRetry
  <2>4. CASE queue' = Tail(queue) /\ TrySend(Head(queue), "sent")
    BY <2>1, <2>4, Tried, OrderAfterPop
  <2>5. CASE queue' = Tail(queue) /\ TrySend(Head(queue), "failed")
    BY <2>1, <2>5, Tried, OrderAfterPop
  <2> QED BY <1>3, <2>3, <2>4, <2>5 DEF FlushOne
<1>4. CASE UNCHANGED <<accepted, last, queue>>
  BY <1>4 DEF QueueIsInOrder
<1>5. CASE Read
  BY <1>4, <1>5 DEF Read
<1>6. ASSUME NEW n \in 1..MaxMessages, Call(n) PROVE QueueIsInOrder'
  BY <1>4, <1>6 DEF Call
<1>7. CASE BeginFlush \/ EndFlush \/ OnOpen
  BY <1>4, <1>7 DEF BeginFlush, EndFlush, OnOpen
<1>8. CASE Callback \/ Channel
  BY <1>4, <1>8 DEF Callback, OnClosed, OnBufferedAmountLow, TimerFires, CloseMeshPeer,
                    Channel, ChannelOpens, ChannelCloses
<1>9. CASE UNCHANGED vars
  BY <1>4, <1>9 DEF vars
<1> QED
  BY <1>1, <1>2, <1>3, <1>5, <1>6, <1>7, <1>8, <1>9 DEF Next, RunTask

-----------------------------------------------------------------------------
(* Progress.                                                               *)

\* A flush to come, an empty queue, a timer or a closed channel will do.
LEMMA NoStall ==
  ASSUME HasFlush(task)' \/ queue' = <<>> \/ timer' = TRUE \/ ~CanSend'
  PROVE  QueueNeverStalls'
  BY DEF QueueNeverStalls, HasFlush

LEMMA StallStep ==
  QueueTypeOK /\ QueueNeverStalls /\ OpenedIsKnown /\ [Next]_vars
    => QueueNeverStalls' /\ OpenedIsKnown'
<1> SUFFICES ASSUME QueueTypeOK, QueueNeverStalls, OpenedIsKnown, [Next]_vars
             PROVE  QueueNeverStalls' /\ OpenedIsKnown'
  OBVIOUS
<1> USE DEF fifoVars, channelVars, OpenedIsKnown
<1> DEFINE Task == {"send", "flush", "loop"}
<1>1. CASE QueueMessage
  <2>1. ~CanSend'
    BY <1>1 DEF QueueMessage, CanSend
  <2> QED BY <1>1, <2>1, NoStall DEF QueueMessage
<1>2. CASE QueueMessageAndFlush
  <2>1. HasFlush(task)'
    BY <1>2, TailTask, FlushFirst DEF QueueMessageAndFlush, QueueTypeOK
  <2> QED BY <1>2, <2>1, NoStall DEF QueueMessageAndFlush
<1>3. CASE SendAtOnce
  <2>1. timer' = TRUE \/ queue' = <<>>
    BY <1>3 DEF SendAtOnce, TimerAfterRetry, QueueBehind
  <2> QED BY <1>3, <2>1, NoStall DEF SendAtOnce
<1>4. CASE BeginFlush
  <2>1. CASE CanSend
    <3>1. HasFlush(task)'
      BY <1>4, <2>1, TailTask, FlushFirst DEF BeginFlush, QueueTypeOK
    <3> QED BY <1>4, <3>1, NoStall DEF BeginFlush
  <2>2. CASE ~CanSend
    <3>1. ~CanSend'
      BY <1>4, <2>2 DEF BeginFlush, CanSend
    <3> QED BY <1>4, <3>1, NoStall DEF BeginFlush
  <2> QED BY <2>1, <2>2
<1>5. CASE EndFlush
  BY <1>5, NoStall DEF EndFlush
<1>6. CASE FlushOne
  <2>1. CASE task' = task
    <3>1. HasFlush(task)
      BY <1>6, TailTask DEF FlushOne, HasFlush, QueueTypeOK
    <3> QED BY <1>6, <2>1, <3>1, NoStall DEF FlushOne, HasFlush
  <2>2. CASE timer' = TRUE
    BY <1>6, <2>2, NoStall DEF FlushOne
  <2>3. CASE task' = Tail(task) /\ timer' = TimerAfterRetry
    BY <1>6, <2>3, NoStall DEF FlushOne, TimerAfterRetry
  <2> QED BY <1>6, <2>1, <2>2, <2>3 DEF FlushOne, TimerAfterRetry
<1>7. ASSUME NEW n \in 1..MaxMessages, Call(n)
      PROVE  QueueNeverStalls' /\ OpenedIsKnown'
  <2>1. Len(task) = 0
    BY <1>7 DEF Call, MayBegin
  <2> QED BY <1>7, <2>1 DEF Call, QueueNeverStalls, CanSend
<1>8. CASE OnOpen
  <2>1. HasFlush(<<"send", "flush">>)
    BY DEF HasFlush
  <2>2. HasFlush(task)'
    BY <1>8, <2>1 DEF OnOpen
  <2> QED BY <1>8, <2>2, NoStall DEF OnOpen
<1>9. CASE OnClosed
  <2>1. ~CanSend'
    BY <1>9 DEF OnClosed, CanSend
  <2> QED BY <1>9, <2>1, NoStall DEF OnClosed
<1>10. CASE OnBufferedAmountLow \/ TimerFires
  <2>1. HasFlush(<<"flush">>)
    BY DEF HasFlush
  <2>2. HasFlush(task)'
    BY <1>10, <2>1 DEF OnBufferedAmountLow, TimerFires
  <2> QED BY <1>10, <2>2, NoStall DEF OnBufferedAmountLow, TimerFires
<1>11. CASE CloseMeshPeer \/ ChannelCloses
  <2>1. ~CanSend'
    BY <1>11 DEF CloseMeshPeer, ChannelCloses, CanSend
  <2> QED BY <1>11, <2>1, NoStall DEF CloseMeshPeer, ChannelCloses
<1>12. CASE ChannelOpens
  <2>1. ~CanSend'
    BY <1>12 DEF ChannelOpens, CanSend
  <2> QED BY <1>12, <2>1, NoStall DEF ChannelOpens
<1>13. CASE Read \/ UNCHANGED vars
  BY <1>13 DEF Read, vars, QueueNeverStalls, CanSend
<1> QED
  BY <1>1, <1>2, <1>3, <1>4, <1>5, <1>6, <1>7, <1>8, <1>9, <1>10, <1>11, <1>12, <1>13
  DEF Next, RunTask, Callback, Channel

-----------------------------------------------------------------------------
(* The theorems.                                                           *)

LEMMA IInvInit == Init => IInv
<1> SUFFICES ASSUME Init PROVE IInv
  OBVIOUS
<1>1. QueueTypeOK
  <2>1. <<>> \in Seq(Nat) /\ <<>> \in Seq({"send", "flush", "loop"})
    OBVIOUS
  <2> QED BY <2>1 DEF Init, QueueTypeOK
<1>2. QueueIsInOrder
  BY DEF Init, QueueIsInOrder
<1>3. QueueNeverStalls /\ OpenedIsKnown
  BY DEF Init, QueueNeverStalls, OpenedIsKnown
<1> QED BY <1>1, <1>2, <1>3 DEF IInv

\* Every step keeps the types, the order of the queue and its progress.
LEMMA IInvHolds == Spec => []IInv
<1>1. IInv /\ [Next]_vars => IInv'
  BY TypeStep, OrderStep, StallStep DEF IInv
<1> QED BY <1>1, IInvInit, PTL DEF Spec

\* The queue, its timer and the tasks of a call keep their types.
THEOREM QueueTypeCorrect == Spec => []QueueTypeOK
<1>1. IInv => QueueTypeOK
  BY DEF IInv
<1> QED BY <1>1, IInvHolds, PTL

\* flushPeerQueue and sendDataMessage never reorder, repeat or lose a message
\* that waits, however often the channel refuses it.
THEOREM QueueKeepsOrder == Spec => []QueueIsInOrder
<1>1. IInv => QueueIsInOrder
  BY DEF IInv
<1> QED BY <1>1, IInvHolds, PTL

\* A message that waits at an open channel always has a timer or a flush to come.
THEOREM QueueKeepsGoing == Spec => []QueueNeverStalls
<1>1. IInv => QueueNeverStalls
  BY DEF IInv
<1> QED BY <1>1, IInvHolds, PTL

\* A message that was tried reaches the wire as PeerFifo allows it: it is the
\* last one again, or the first that waits.
LEMMA TriedIsPut ==
  ASSUME IInv, NEW n \in Nat, NEW result, TrySend(n, result),
         accepted' \in {accepted, accepted + 1}, n <= accepted',
         n = accepted - Len(queue) + 1
  PROVE  Fifo!AcceptOrPut
<1>1. CASE Leaves
  BY <1>1 DEF Leaves, Fifo!AcceptOrPut
<1>2. CASE Takes(n) /\ n \notin TooLarge
  <2>1. last' = n /\ wire' = Append(wire, n)
    BY <1>2 DEF Takes
  <2>2. n = last \/ n \in last + 1..accepted'
    BY DEF IInv, QueueTypeOK, QueueIsInOrder
  <2>3. \A m \in last + 1..n - 1 : m \in TooLarge
    BY DEF IInv, QueueTypeOK, QueueIsInOrder
  <2> QED BY <1>2, <2>1, <2>2, <2>3 DEF Fifo!AcceptOrPut, Fifo!Put, Fifo!MayPut
<1> QED BY <1>1, <1>2 DEF TrySend

LEMMA FifoStep == IInv /\ [Next]_vars => [Fifo!Next]_(Fifo!vars)
<1> SUFFICES ASSUME IInv, [Next]_vars PROVE Fifo!Next \/ UNCHANGED fifoVars
  BY DEF fifoVars, Fifo!vars
<1> USE DEF fifoVars
<1>1. CASE QueueMessage \/ QueueMessageAndFlush
  BY <1>1 DEF QueueMessage, QueueMessageAndFlush, Fifo!Next, Fifo!AcceptOrPut
<1>2. CASE SendAtOnce
  <2>1. /\ accepted + 1 \in Nat /\ accepted' = accepted + 1
        /\ accepted + 1 = accepted - Len(queue) + 1
    BY <1>2 DEF SendAtOnce, QueueBehind, IInv, QueueTypeOK
  <2>2. \E result \in {"sent", "failed", "retry"} : TrySend(accepted + 1, result)
    BY <1>2 DEF SendAtOnce
  <2> QED BY <2>1, <2>2, TriedIsPut DEF Fifo!Next
<1>3. CASE FlushOne
  <2>1. accepted' = accepted /\ queue # <<>>
    BY <1>3 DEF FlushOne
  <2>2. /\ Head(queue) \in Nat /\ Head(queue) <= accepted
        /\ Head(queue) = accepted - Len(queue) + 1
    BY <2>1, FirstWaits DEF IInv, QueueTypeOK
  <2>3. \E result \in {"sent", "failed", "retry"} : TrySend(Head(queue), result)
    BY <1>3 DEF FlushOne
  <2> QED BY <2>1, <2>2, <2>3, TriedIsPut DEF Fifo!Next
<1>4. CASE Read
  BY <1>4 DEF Read, Fifo!Next, Fifo!Read
<1>5. ASSUME NEW n \in 1..MaxMessages, Call(n) PROVE UNCHANGED fifoVars
  BY <1>5 DEF Call
<1>6. CASE BeginFlush \/ EndFlush \/ OnOpen
  BY <1>6 DEF BeginFlush, EndFlush, OnOpen
<1>7. CASE Callback \/ Channel
  BY <1>7 DEF Callback, OnClosed, OnBufferedAmountLow, TimerFires, CloseMeshPeer,
              Channel, ChannelOpens, ChannelCloses
<1>8. CASE UNCHANGED vars
  BY <1>8 DEF vars
<1> QED
  BY <1>1, <1>2, <1>3, <1>4, <1>5, <1>6, <1>7, <1>8 DEF Next, RunTask

\* What reaches the wire is what sendDataMessage accepted, in that order, each
\* message perhaps more than once, and none left out but those too large.
THEOREM QueueImplementsFifo == Spec => ImplementsFifo
<1>1. Init => Fifo!Init
  BY DEF Init, Fifo!Init
<1> QED BY <1>1, IInvHolds, FifoStep, PTL DEF Spec, ImplementsFifo, Fifo!Spec

-----------------------------------------------------------------------------
(* Snapshots: the messages and their numbers.                              *)

Chunks   == UNION {{Chunk(s, i) : i \in 0..Total[s] - 1} : s \in Snapshots}
Messages == {Operation, Hello} \cup Chunks

\* Message n is chunk i of snapshot s.
IsChunk(n, s, i) == n \in 1..Len(content) /\ content[n] = Chunk(s, i)

\* What is on the wire has been accepted, in order.
NumbersInv ==
  /\ Len(queue) <= accepted
  /\ \A i \in 1..Len(wire) : wire[i] \in 1..last
  /\ \A i, j \in 1..Len(wire) : i <= j => wire[i] <= wire[j]

\* The call under way has k messages to send, perhaps behind a flush.
Sends(t, k) == \E h \in {0, 1} : /\ h + k <= Len(t)
                                 /\ \A i \in 1..Len(t) : t[i] = "send" <=> i \in h + 1..h + k

\* Every message that was accepted has its content.
TaskInv == Len(content) - accepted \in Nat /\ Sends(task, Len(content) - accepted)

\* Snapshots are sent one after another, each chunk by chunk.
ContentInv ==
  /\ content \in Seq(Messages)
  /\ \A n, s, i : s \in Snapshots /\ IsChunk(n, s, i) => \A r \in 1..s : IsSent(r)
  /\ \A n, m, s, t : \A i, j \in Nat : s \in Snapshots /\ t \in Snapshots /\ n < m /\ IsChunk(n, s, i) /\ IsChunk(m, t, j) =>
       s < t \/ (s = t /\ i < j)

SendInv == NumbersInv /\ TaskInv /\ ContentInv

LEMMA TotalsOfSnapshots ==
  /\ Len(Total) \in Nat /\ Snapshots = 1..Len(Total)
  /\ \A s \in Snapshots : s \in Nat /\ Total[s] \in Nat /\ Total[s] >= 2
  BY SnapshotAssumption DEF Snapshots

LEMMA ChunksDiffer ==
  /\ \A s, t, i, j : Chunk(s, i) = Chunk(t, j) => s = t /\ i = j
  /\ \A s, i : Chunk(s, i) # Operation /\ Chunk(s, i) # Hello
  BY DEF Chunk, Operation, Hello

\* A transfer is a run of the queue.
LEMMA TransferStep == QueueTypeOK /\ [AllNext]_allVars => [Next]_vars
<1> SUFFICES ASSUME QueueTypeOK, AllNext PROVE [Next]_vars
  BY DEF allVars, vars
<1>1. ASSUME NEW n \in Nat \ {0}, Call(n) PROVE Next
  <2>1. n <= MaxMessages /\ MaxMessages \in Nat
    BY <1>1, MessageAssumption DEF Call, QueueTypeOK
  <2>2. n \in 1..MaxMessages
    BY <2>1
  <2> QED
    BY <1>1, <2>2 DEF Next
<1>2. CASE Sender
  BY <1>2 DEF Sender, Next
<1>3. CASE SendOperation
  BY <1>1, <1>3 DEF SendOperation
<1>4. ASSUME NEW s \in Snapshots, SendSnapshot(s) PROVE Next
  BY <1>1, <1>4, TotalsOfSnapshots DEF SendSnapshot
<1>5. CASE SendHello
  BY <1>5 DEF SendHello, Next
<1>6. CASE HandleDataMessage
  BY <1>6 DEF HandleDataMessage, Next
<1> QED
  BY <1>2, <1>3, <1>4, <1>5, <1>6 DEF AllNext

\* What a try puts on the wire.
LEMMA TriedWire ==
  ASSUME NEW n, NEW result, TrySend(n, result)
  PROVE  \/ last' = n /\ wire' = Append(wire, n)
         \/ last' = last /\ wire' = wire
  BY DEF TrySend, Takes, Leaves

\* What goes on the wire is no older than what is there.
LEMMA WireAfterTry ==
  ASSUME QueueTypeOK, NumbersInv, NEW n \in Nat \ {0}, last <= n,
         \/ last' = n /\ wire' = Append(wire, n)
         \/ last' = last /\ wire' = wire
  PROVE  /\ \A i \in 1..Len(wire') : wire'[i] \in 1..last'
         /\ \A i, j \in 1..Len(wire') : i <= j => wire'[i] <= wire'[j]
<1>1. CASE last' = last /\ wire' = wire
  BY <1>1 DEF NumbersInv
<1>2. CASE last' = n /\ wire' = Append(wire, n)
  <2>1. /\ Len(wire') = Len(wire) + 1 /\ wire'[Len(wire) + 1] = n
        /\ \A i \in 1..Len(wire) : wire'[i] = wire[i]
        /\ Len(wire) \in Nat /\ last \in Nat
    BY <1>2 DEF QueueTypeOK
  <2>2. \A i \in 1..Len(wire) : wire[i] \in 1..last
    BY DEF NumbersInv
  <2>3. \A i \in 1..Len(wire') : wire'[i] \in 1..n /\ (i # Len(wire) + 1 => wire'[i] = wire[i])
    BY <2>1, <2>2
  <2>4. ASSUME NEW i \in 1..Len(wire'), NEW j \in 1..Len(wire'), i <= j PROVE wire'[i] <= wire'[j]
    <3>1. CASE j = Len(wire) + 1
      BY <2>1, <2>3, <3>1
    <3>2. CASE j # Len(wire) + 1
      <4>1. i \in 1..Len(wire) /\ j \in 1..Len(wire)
        BY <2>1, <2>4, <3>2
      <4> QED
        BY <2>1, <2>4, <4>1 DEF NumbersInv
    <3> QED
      BY <3>1, <3>2
  <2> QED
    BY <1>2, <2>3, <2>4
<1> QED
  BY <1>1, <1>2

LEMMA NumbersStep == IInv /\ NumbersInv /\ [Next]_vars => NumbersInv'
<1> SUFFICES ASSUME IInv, NumbersInv, [Next]_vars PROVE NumbersInv'
  OBVIOUS
<1>0. QueueTypeOK /\ QueueIsInOrder
  BY DEF IInv
<1> USE DEF fifoVars
<1>1. CASE QueueMessage \/ QueueMessageAndFlush
  <2>1. accepted' = accepted + 1 /\ queue' = Append(queue, accepted + 1) /\ UNCHANGED <<last, wire>>
    BY <1>1 DEF QueueMessage, QueueMessageAndFlush
  <2> QED
    BY <1>0, <2>1 DEF NumbersInv, QueueTypeOK
<1>2. CASE SendAtOnce
  <2>1. queue = <<>> /\ accepted' = accepted + 1
    BY <1>2 DEF SendAtOnce, QueueBehind
  <2>2. accepted \in Nat /\ last <= accepted /\ last \in Nat
    BY <1>0, <2>1, FirstWaits DEF QueueTypeOK
  <2>3. PICK result : TrySend(accepted + 1, result)
    BY <1>2 DEF SendAtOnce
  <2>4. Len(queue') <= accepted'
    <3>1. queue' = queue \/ queue' = Append(queue, accepted + 1)
      BY <1>2 DEF SendAtOnce
    <3>2. Len(<<>>) = 0 /\ Len(Append(<<>>, accepted + 1)) = 1
      OBVIOUS
    <3> QED
      BY <2>1, <2>2, <3>1, <3>2
  <2>5. accepted + 1 \in Nat \ {0} /\ last <= accepted + 1
    BY <2>2
  <2>6. \/ last' = accepted + 1 /\ wire' = Append(wire, accepted + 1)
        \/ last' = last /\ wire' = wire
    BY <2>3, TriedWire
  <2>7. /\ \A i \in 1..Len(wire') : wire'[i] \in 1..last'
        /\ \A i, j \in 1..Len(wire') : i <= j => wire'[i] <= wire'[j]
    BY <1>0, <2>5, <2>6, WireAfterTry
  <2> QED
    BY <2>4, <2>7 DEF NumbersInv
<1>3. CASE FlushOne
  <2>1. queue # <<>> /\ accepted' = accepted
    BY <1>3 DEF FlushOne
  <2>2. /\ Head(queue) = accepted - Len(queue) + 1 /\ Head(queue) <= accepted
        /\ accepted \in Nat /\ last \in Nat /\ Len(queue) \in Nat \ {0}
    BY <1>0, <2>1, FirstWaits, TailTask DEF QueueTypeOK
  <2>3. PICK result : TrySend(Head(queue), result)
    BY <1>3 DEF FlushOne
  <2>4. QueueAfterRetry(queue) = queue /\ Len(Tail(queue)) = Len(queue) - 1
    BY <1>0, <2>1, TailTask DEF QueueAfterRetry, QueueTypeOK
  <2>5. Len(queue') <= accepted'
    BY <1>3, <2>1, <2>2, <2>4 DEF FlushOne, NumbersInv
  <2>6. Head(queue) \in Nat \ {0} /\ last <= Head(queue)
    BY <1>0, <2>2 DEF NumbersInv, QueueIsInOrder
  <2>7. \/ last' = Head(queue) /\ wire' = Append(wire, Head(queue))
        \/ last' = last /\ wire' = wire
    BY <2>3, TriedWire
  <2>8. /\ \A i \in 1..Len(wire') : wire'[i] \in 1..last'
        /\ \A i, j \in 1..Len(wire') : i <= j => wire'[i] <= wire'[j]
    BY <1>0, <2>6, <2>7, WireAfterTry
  <2> QED
    BY <2>5, <2>8 DEF NumbersInv
<1>4. CASE Read
  <2>1. wire # <<>> /\ wire' = Tail(wire) /\ UNCHANGED <<accepted, last, queue>>
    BY <1>4 DEF Read
  <2>2. /\ Len(Tail(wire)) = Len(wire) - 1 /\ Len(wire) \in Nat \ {0}
        /\ \A i \in 1..Len(wire) - 1 : Tail(wire)[i] = wire[i + 1]
    BY <1>0, <2>1, TailTask DEF QueueTypeOK
  <2>3. \A i \in 1..Len(wire) - 1 : i + 1 \in 1..Len(wire)
    BY <2>2
  <2> QED
    BY <2>1, <2>2, <2>3 DEF NumbersInv
<1>5. CASE UNCHANGED <<accepted, last, wire, queue>>
  BY <1>5 DEF NumbersInv
<1>6. ASSUME NEW n \in 1..MaxMessages, Call(n) PROVE NumbersInv'
  BY <1>5, <1>6 DEF Call
<1>7. CASE BeginFlush \/ EndFlush \/ OnOpen
  BY <1>5, <1>7 DEF BeginFlush, EndFlush, OnOpen
<1>8. CASE Callback \/ Channel
  BY <1>5, <1>8 DEF Callback, OnClosed, OnBufferedAmountLow, TimerFires, CloseMeshPeer,
                    Channel, ChannelOpens, ChannelCloses
<1>9. CASE UNCHANGED vars
  BY <1>5, <1>9 DEF vars
<1> QED
  BY <1>1, <1>2, <1>3, <1>4, <1>6, <1>7, <1>8, <1>9 DEF Next, RunTask

-----------------------------------------------------------------------------
(* Snapshots: what the running call sends.                                 *)

LEMMA SendsAll == \A n \in Nat : Sends([i \in 1..n |-> "send"], n)
<1> TAKE n \in Nat
<1> DEFINE t == [i \in 1..n |-> "send"]
<1>1. Len(t) = n /\ \A i \in 1..n : t[i] = "send"
  OBVIOUS
<1> HIDE DEF t
<1>2. 0 + n <= Len(t) /\ \A i \in 1..Len(t) : t[i] = "send" <=> i \in 0 + 1..0 + n
  BY <1>1
<1> QED
  BY <1>2 DEF Sends, t

\* A task list without its first task, or with a flush for it.
LEMMA SendsRest ==
  ASSUME NEW t \in Seq({"send", "flush", "loop"}), t # <<>>, NEW k \in Nat, Sends(t, k),
         NEW x \in {"flush", "loop"}
  PROVE  /\ Head(t) = "send" => k - 1 \in Nat /\ Sends(Tail(t), k - 1) /\ Sends(<<x>> \o Tail(t), k - 1)
         /\ Head(t) # "send" => Sends(Tail(t), k) /\ Sends(<<x>> \o Tail(t), k)
<1> DEFINE r == Tail(t)
           f == <<x>> \o r
<1>1. /\ Len(r) = Len(t) - 1 /\ Len(t) \in Nat \ {0} /\ Head(t) = t[1]
      /\ \A i \in 1..Len(t) - 1 : r[i] = t[i + 1]
      /\ r \in Seq({"send", "flush", "loop"})
  BY TailTask
<1>2. Len(f) = Len(t) /\ f[1] = x /\ \A i \in 2..Len(t) : f[i] = t[i]
  BY <1>1
<1>3. PICK h \in {0, 1} : h + k <= Len(t) /\ \A i \in 1..Len(t) : t[i] = "send" <=> i \in h + 1..h + k
  BY DEF Sends
<1> HIDE DEF r, f
<1>4. ASSUME Head(t) = "send" PROVE k - 1 \in Nat /\ Sends(r, k - 1) /\ Sends(f, k - 1)
  <2>1. h = 0 /\ k >= 1
    BY <1>1, <1>3, <1>4
  <2>2. 0 + k - 1 <= Len(r) /\ \A i \in 1..Len(r) : r[i] = "send" <=> i \in 0 + 1..0 + k - 1
    BY <1>1, <1>3, <2>1
  <2>3. 1 + k - 1 <= Len(f) /\ \A i \in 1..Len(f) : f[i] = "send" <=> i \in 1 + 1..1 + k - 1
    BY <1>1, <1>2, <1>3, <2>1
  <2> QED
    BY <2>1, <2>2, <2>3 DEF Sends
<1>5. ASSUME Head(t) # "send" PROVE Sends(r, k) /\ Sends(f, k)
  <2>1. CASE k = 0
    <3>1. 0 + k <= Len(r) /\ \A i \in 1..Len(r) : r[i] = "send" <=> i \in 0 + 1..0 + k
      BY <1>1, <1>3, <2>1
    <3>2. 0 + k <= Len(f) /\ \A i \in 1..Len(f) : f[i] = "send" <=> i \in 0 + 1..0 + k
      BY <1>1, <1>2, <1>3, <2>1
    <3> QED
      BY <3>1, <3>2 DEF Sends
  <2>2. CASE k # 0
    <3>1. h = 1
      BY <1>1, <1>3, <1>5, <2>2
    <3>2. 0 + k <= Len(r) /\ \A i \in 1..Len(r) : r[i] = "send" <=> i \in 0 + 1..0 + k
      BY <1>1, <1>3, <3>1
    <3>3. 1 + k <= Len(f) /\ \A i \in 1..Len(f) : f[i] = "send" <=> i \in 1 + 1..1 + k
      BY <1>1, <1>2, <1>3, <3>1
    <3> QED
      BY <3>2, <3>3 DEF Sends
  <2> QED
    BY <2>1, <2>2
<1> QED
  BY <1>4, <1>5 DEF r, f

\* A call begins when the last one is done, hence with all its content before it.
LEMMA CallBegins ==
  ASSUME QueueTypeOK, TaskInv, content \in Seq(Messages), task = <<>>, NEW new \in Seq(Messages),
         content' = content \o new, accepted' = accepted, Sends(task', Len(new))
  PROVE  TaskInv'
<1>1. PICK h \in {0, 1} : h + (Len(content) - accepted) <= Len(task)
  BY DEF TaskInv, Sends
<1>2. Len(content) - accepted = 0 /\ accepted \in Nat /\ Len(content) \in Nat
  BY <1>1 DEF TaskInv, QueueTypeOK
<1>3. Len(content') = Len(content) + Len(new) /\ Len(new) \in Nat
  OBVIOUS
<1>4. Len(content) = accepted
  BY <1>2
<1>5. \A a \in Nat, n \in Nat : (a + n) - a = n
  OBVIOUS
<1>6. Len(content') - accepted' = Len(new)
  BY <1>2, <1>3, <1>4, <1>5
<1> QED
  BY <1>3, <1>6 DEF TaskInv

LEMMA SendsNoneThenFlush == Sends(<<"flush">>, 0) /\ Sends(<<"send", "flush">>, 1)
<1>1. 0 + 0 <= Len(<<"flush">>) /\ \A i \in 1..Len(<<"flush">>) : <<"flush">>[i] = "send" <=> i \in 0 + 1..0 + 0
  OBVIOUS
<1>2. 0 + 1 <= Len(<<"send", "flush">>)
      /\ \A i \in 1..Len(<<"send", "flush">>) : <<"send", "flush">>[i] = "send" <=> i \in 0 + 1..0 + 1
  OBVIOUS
<1> QED
  BY <1>1, <1>2 DEF Sends

\* The chunks of a snapshot, one after another.
LEMMA ChunksOfSnapshot ==
  ASSUME NEW s \in Snapshots
  PROVE  /\ [i \in 1..Total[s] |-> Chunk(s, i - 1)] \in Seq(Messages)
         /\ Len([i \in 1..Total[s] |-> Chunk(s, i - 1)]) = Total[s]
<1>1. Total[s] \in Nat
  BY TotalsOfSnapshots
<1>2. ASSUME NEW i \in 1..Total[s] PROVE Chunk(s, i - 1) \in Messages
  <2>1. i - 1 \in 0..Total[s] - 1
    BY <1>1
  <2> QED
    BY <2>1 DEF Messages, Chunks
<1> QED
  BY <1>1, <1>2

LEMMA TaskStep == IInv /\ TaskInv /\ content \in Seq(Messages) /\ [AllNext]_allVars => TaskInv'
<1> SUFFICES ASSUME IInv, TaskInv, content \in Seq(Messages), [AllNext]_allVars PROVE TaskInv'
  OBVIOUS
<1> USE DEF fifoVars
<1>0. QueueTypeOK /\ accepted \in Nat /\ task \in Seq({"send", "flush", "loop"}) /\ Len(content) \in Nat
  BY DEF IInv, QueueTypeOK
<1> DEFINE k == Len(content) - accepted
<1>1. k \in Nat /\ Sends(task, k)
  BY DEF TaskInv
<1>2. CASE UNCHANGED <<accepted, task, content>>
  BY <1>2 DEF TaskInv
<1>3. CASE QueueMessage /\ content' = content
  <2>1. k - 1 \in Nat /\ Sends(Tail(task), k - 1)
    BY <1>0, <1>1, <1>3, SendsRest DEF QueueMessage
  <2>2. Len(content') - accepted' = k - 1
    BY <1>0, <1>3 DEF QueueMessage
  <2> QED
    BY <1>3, <2>1, <2>2 DEF QueueMessage, TaskInv
<1>4. CASE QueueMessageAndFlush /\ content' = content
  <2>1. k - 1 \in Nat /\ Sends(<<"flush">> \o Tail(task), k - 1)
    BY <1>0, <1>1, <1>4, SendsRest DEF QueueMessageAndFlush
  <2>2. Len(content') - accepted' = k - 1
    BY <1>0, <1>4 DEF QueueMessageAndFlush
  <2> QED
    BY <1>4, <2>1, <2>2 DEF QueueMessageAndFlush, TaskInv
<1>5. CASE SendAtOnce /\ content' = content
  <2>1. k - 1 \in Nat /\ Sends(Tail(task), k - 1)
    BY <1>0, <1>1, <1>5, SendsRest DEF SendAtOnce
  <2>2. Len(content') - accepted' = k - 1
    BY <1>0, <1>5 DEF SendAtOnce
  <2> QED
    BY <1>5, <2>1, <2>2 DEF SendAtOnce, TaskInv
<1>6. CASE (BeginFlush \/ EndFlush \/ FlushOne) /\ content' = content
  <2>1. task # <<>> /\ Head(task) # "send" /\ accepted' = accepted
    BY <1>6 DEF BeginFlush, EndFlush, FlushOne
  <2>2. Sends(Tail(task), k) /\ Sends(<<"loop">> \o Tail(task), k)
    BY <1>0, <1>1, <2>1, SendsRest
  <2>3. task' \in {task, Tail(task), <<"loop">> \o Tail(task)}
    BY <1>6 DEF BeginFlush, EndFlush, FlushOne
  <2> QED
    BY <1>1, <1>6, <2>1, <2>2, <2>3 DEF TaskInv
<1>7. CASE (OnBufferedAmountLow \/ TimerFires) /\ content' = content
  <2>1. task = <<>> /\ task' = <<"flush">> /\ accepted' = accepted
    BY <1>7 DEF OnBufferedAmountLow, TimerFires, MayBegin
  <2>2. <<>> \in Seq(Messages) /\ content' = content \o <<>> /\ Len(<<>>) = 0
    BY <1>7
  <2> QED
    BY <1>0, <2>1, <2>2, SendsNoneThenFlush, CallBegins
<1>8. CASE (OnClosed \/ CloseMeshPeer \/ Channel \/ Read) /\ content' = content
  BY <1>2, <1>8 DEF OnClosed, CloseMeshPeer, Channel, ChannelOpens, ChannelCloses, Read
<1>9. CASE SendOperation
  <2>1. task = <<>> /\ task' = [i \in 1..1 |-> "send"] /\ accepted' = accepted
    BY <1>9 DEF SendOperation, Call, MayBegin
  <2>2. <<Operation>> \in Seq(Messages) /\ content' = content \o <<Operation>> /\ Len(<<Operation>>) = 1
    BY <1>9 DEF SendOperation, Messages
  <2>3. Sends(task', Len(<<Operation>>))
    BY <2>1, <2>2, SendsAll
  <2> QED
    BY <1>0, <2>1, <2>2, <2>3, CallBegins
<1>10. ASSUME NEW s \in Snapshots, SendSnapshot(s) PROVE TaskInv'
  <2>1. task = <<>> /\ task' = [i \in 1..Total[s] |-> "send"] /\ accepted' = accepted
    BY <1>10 DEF SendSnapshot, Call, MayBegin
  <2>2. Sends(task', Total[s])
    BY <2>1, TotalsOfSnapshots, SendsAll
  <2> QED
    BY <1>0, <1>10, <2>1, <2>2, ChunksOfSnapshot, CallBegins DEF SendSnapshot
<1>11. CASE SendHello
  <2>1. task = <<>> /\ task' = <<"send", "flush">> /\ accepted' = accepted
    BY <1>11 DEF SendHello, OnOpen, MayBegin
  <2>2. <<Hello>> \in Seq(Messages) /\ content' = content \o <<Hello>> /\ Len(<<Hello>>) = 1
    BY <1>11 DEF SendHello, Messages
  <2> QED
    BY <1>0, <2>1, <2>2, SendsNoneThenFlush, CallBegins
<1>12. CASE HandleDataMessage
  BY <1>8, <1>12 DEF HandleDataMessage
<1>13. CASE UNCHANGED allVars
  BY <1>2, <1>13 DEF allVars, vars
<1>14. CASE Sender /\ UNCHANGED <<content, receiverVars>>
  BY <1>3, <1>4, <1>5, <1>6, <1>7, <1>8, <1>14 DEF Sender, RunTask, Callback
<1> QED
  BY <1>9, <1>10, <1>11, <1>12, <1>13, <1>14 DEF AllNext

\* The contents grow at the end.
LEMMA ContentGrows ==
  ASSUME content \in Seq(Messages), [AllNext]_allVars
  PROVE  \E new \in Seq(Messages) : content' = content \o new
<1>1. CASE content' = content
  <2>1. <<>> \in Seq(Messages) /\ content' = content \o <<>>
    BY <1>1
  <2> QED
    BY <2>1
<1>2. CASE SendOperation \/ SendHello
  <2>1. <<Operation>> \in Seq(Messages) /\ <<Hello>> \in Seq(Messages)
    BY DEF Messages
  <2>2. \A m \in Messages : Append(content, m) = content \o <<m>>
    OBVIOUS
  <2>3. content' = content \o <<Operation>> \/ content' = content \o <<Hello>>
    BY <1>2, <2>2 DEF SendOperation, SendHello, Messages
  <2> QED
    BY <2>1, <2>3
<1>3. ASSUME NEW s \in Snapshots, SendSnapshot(s)
      PROVE  \E new \in Seq(Messages) : content' = content \o new
  BY <1>3, ChunksOfSnapshot DEF SendSnapshot
<1> QED
  BY <1>1, <1>2, <1>3 DEF AllNext, allVars, HandleDataMessage

\* What a message is never changes.
LEMMA ContentStays ==
  ASSUME content \in Seq(Messages), [AllNext]_allVars
  PROVE  /\ content' \in Seq(Messages) /\ Len(content) \in Nat /\ Len(content') \in Nat
         /\ Len(content) <= Len(content')
         /\ \A n \in 1..Len(content) : content'[n] = content[n]
         /\ \A n, s, i : IsChunk(n, s, i) => IsChunk(n, s, i)'
<1>1. PICK new \in Seq(Messages) : content' = content \o new
  BY ContentGrows
<1>2. /\ content' \in Seq(Messages) /\ Len(content) \in Nat /\ Len(content') \in Nat
      /\ Len(content) <= Len(content')
      /\ \A n \in 1..Len(content) : content'[n] = content[n]
  BY <1>1
<1>3. \A n \in 1..Len(content) : n \in 1..Len(content')
  BY <1>2
<1> QED
  BY <1>2, <1>3 DEF IsChunk, Chunk

-----------------------------------------------------------------------------
(* Snapshots: the order of the chunks.                                     *)

LEMMA SentStays ==
  ASSUME content \in Seq(Messages), [AllNext]_allVars, NEW s, IsSent(s)
  PROVE  IsSent(s)'
<1>1. PICK n \in 1..Len(content) : content[n] = Chunk(s, 0)
  BY DEF IsSent
<1>2. n \in 1..Len(content') /\ content'[n] = Chunk(s, 0) /\ DOMAIN content' = 1..Len(content')
  BY <1>1, ContentStays
<1> QED
  BY <1>2 DEF IsSent, Chunk

\* A step that sends no snapshot adds no chunk.
LEMMA ContentKeeps ==
  ASSUME ContentInv, [AllNext]_allVars, \A n, s, i : IsChunk(n, s, i)' => IsChunk(n, s, i)
  PROVE  ContentInv'
<1>1. content \in Seq(Messages) /\ content' \in Seq(Messages)
  BY ContentStays DEF ContentInv
<1>2. Messages' = Messages
  BY DEF Messages, Chunks, Chunk, Snapshots, Operation, Hello
<1>3. \A n, s, i : s \in Snapshots /\ IsChunk(n, s, i)' => \A r \in 1..s : IsSent(r)'
  BY <1>1, SentStays DEF ContentInv
<1>4. \A n, m, s, t : \A i, j \in Nat :
        s \in Snapshots /\ t \in Snapshots /\ n < m /\ IsChunk(n, s, i)' /\ IsChunk(m, t, j)'
          => s < t \/ (s = t /\ i < j)
  BY DEF ContentInv
<1> QED
  BY <1>1, <1>2, <1>3, <1>4 DEF ContentInv, Snapshots

LEMMA ContentStep == QueueTypeOK /\ ContentInv /\ [AllNext]_allVars => ContentInv'
<1> SUFFICES ASSUME QueueTypeOK, ContentInv, [AllNext]_allVars PROVE ContentInv'
  OBVIOUS
<1>0. content \in Seq(Messages) /\ Len(content) \in Nat
  BY DEF ContentInv
<1>1. CASE content' = content
  BY <1>1, ContentKeeps DEF IsChunk, Chunk
<1>2. ASSUME NEW m \in {Operation, Hello}, content' = Append(content, m) PROVE ContentInv'
  <2>1. m \in Messages
    BY <1>2 DEF Messages
  <2>2. /\ Len(content') = Len(content) + 1 /\ content'[Len(content) + 1] = m
        /\ \A n \in 1..Len(content) : content'[n] = content[n]
    BY <1>0, <1>2, <2>1
  <2>3. \A s, i : m # Chunk(s, i)
    BY <1>2, ChunksDiffer
  <2>4. \A n, s, i : IsChunk(n, s, i)' => IsChunk(n, s, i)
    <3> SUFFICES ASSUME NEW n, NEW s, NEW i, n \in 1..Len(content'), content'[n] = Chunk(s, i)
                 PROVE  n \in 1..Len(content) /\ content[n] = Chunk(s, i)
      BY DEF IsChunk, Chunk
    <3>1. n # Len(content) + 1
      BY <2>2, <2>3
    <3>2. n \in 1..Len(content)
      BY <1>0, <2>2, <3>1
    <3> QED
      BY <2>2, <3>2
  <2> QED
    BY <2>4, ContentKeeps
<1>3. ASSUME NEW s \in Snapshots, SendSnapshot(s) PROVE ContentInv'
  <2> DEFINE new == [i \in 1..Total[s] |-> Chunk(s, i - 1)]
             old == Len(content)
  <2>0. s \in Nat /\ Total[s] \in Nat /\ Total[s] >= 2
    BY TotalsOfSnapshots
  <2>1. new \in Seq(Messages) /\ Len(new) = Total[s] /\ content' = content \o new
        /\ \A i \in 1..Total[s] : new[i] = Chunk(s, i - 1)
    BY <1>3, ChunksOfSnapshot DEF SendSnapshot
  <2> HIDE DEF new
  <2>2. /\ Len(content') = old + Total[s] /\ content' \in Seq(Messages)
        /\ \A n \in 1..old : content'[n] = content[n]
        /\ \A n \in old + 1..old + Total[s] : content'[n] = new[n - old]
    BY <1>0, <2>1
  <2>3. \A n \in old + 1..old + Total[s] : content'[n] = Chunk(s, n - old - 1)
    <3> TAKE n \in old + 1..old + Total[s]
    <3>1. n - old \in 1..Total[s]
      BY <1>0, <2>0
    <3> QED
      BY <2>1, <2>2, <3>1
  <2>4. ASSUME NEW n, NEW t, NEW i, IsChunk(n, t, i)'
        PROVE  \/ n \in 1..old /\ IsChunk(n, t, i)
               \/ n \in old + 1..old + Total[s] /\ t = s /\ i = n - old - 1
    <3>1. n \in 1..old + Total[s] /\ content'[n] = Chunk(t, i)
      BY <2>2, <2>4 DEF IsChunk, Chunk
    <3>2. CASE n \in 1..old
      BY <2>2, <3>1, <3>2 DEF IsChunk
    <3>3. CASE n \notin 1..old
      <4>1. n \in old + 1..old + Total[s]
        BY <1>0, <2>0, <3>1, <3>3
      <4> QED
        BY <2>3, <3>1, <4>1, ChunksDiffer
    <3> QED
      BY <3>2, <3>3
  <2>5. ~IsSent(s) /\ \A r \in 1..s - 1 : IsSent(r)
    BY <1>3 DEF SendSnapshot
  <2>6. IsSent(s)'
    <3>1. old + 1 \in old + 1..old + Total[s] /\ old + 1 \in 1..Len(content') /\ (old + 1) - old - 1 = 0
      BY <1>0, <2>0, <2>2
    <3>2. content'[old + 1] = Chunk(s, 0) /\ DOMAIN content' = 1..Len(content')
      BY <2>2, <2>3, <3>1
    <3> QED
      BY <3>1, <3>2 DEF IsSent, Chunk
  <2>7. \A n, t, i : t \in Snapshots /\ IsChunk(n, t, i)' => \A r \in 1..t : IsSent(r)'
    <3> SUFFICES ASSUME NEW n, NEW t \in Snapshots, NEW i, IsChunk(n, t, i)', NEW r \in 1..t
                 PROVE  IsSent(r)'
      OBVIOUS
    <3>1. CASE IsChunk(n, t, i)
      BY <1>0, <3>1, SentStays DEF ContentInv
    <3>2. CASE t = s
      <4>1. r = s \/ r \in 1..s - 1
        BY <2>0, <3>2
      <4> QED
        BY <1>0, <2>5, <2>6, <4>1, SentStays
    <3> QED
      BY <2>4, <3>1, <3>2
  <2>8. ASSUME NEW n, NEW m, NEW t \in Snapshots, NEW u \in Snapshots, NEW i \in Nat, NEW j \in Nat,
               n < m, IsChunk(n, t, i)', IsChunk(m, u, j)'
        PROVE  t < u \/ (t = u /\ i < j)
    <3>1. CASE m \in 1..old
      <4>1. n \in 1..old /\ IsChunk(n, t, i) /\ IsChunk(m, u, j)
        BY <1>0, <2>0, <2>4, <2>8, <3>1
      <4> QED
        BY <2>8, <4>1 DEF ContentInv
    <3>2. CASE n \in 1..old /\ m \notin 1..old
      <4>1. IsChunk(n, t, i) /\ u = s
        BY <1>0, <2>0, <2>4, <2>8, <3>2
      <4>2. \A r \in 1..t : IsSent(r)
        BY <4>1 DEF ContentInv
      <4>3. s \notin 1..t /\ t \in Nat /\ s \in Nat \ {0}
        BY <2>5, <4>2, TotalsOfSnapshots
      <4> QED
        BY <4>1, <4>3
    <3>3. CASE n \notin 1..old /\ m \notin 1..old
      <4>1. n \in old + 1..old + Total[s] /\ t = s /\ i = n - old - 1
        BY <2>4, <2>8, <3>3
      <4>2. m \in old + 1..old + Total[s] /\ u = s /\ j = m - old - 1
        BY <2>4, <2>8, <3>3
      <4> QED
        BY <1>0, <2>0, <2>8, <4>1, <4>2
    <3> QED
      BY <3>1, <3>2, <3>3
  <2>9. Messages' = Messages /\ Snapshots' = Snapshots
    BY DEF Messages, Chunks, Chunk, Snapshots, Operation, Hello
  <2> QED
    BY <2>2, <2>7, <2>8, <2>9 DEF ContentInv
<1> QED
  BY <1>1, <1>2, <1>3 DEF AllNext, allVars, HandleDataMessage, SendOperation, SendHello

\* Every step keeps the numbers, the calls and the contents.
LEMMA SendStep == IInv /\ SendInv /\ [AllNext]_allVars => SendInv'
<1> SUFFICES ASSUME IInv, SendInv, [AllNext]_allVars PROVE SendInv'
  OBVIOUS
<1>1. QueueTypeOK /\ content \in Seq(Messages)
  BY DEF IInv, SendInv, ContentInv
<1>2. [Next]_vars
  BY <1>1, TransferStep
<1> QED
  BY <1>1, <1>2, NumbersStep, TaskStep, ContentStep DEF SendInv

-----------------------------------------------------------------------------
(* Snapshots: the receiver.                                                *)

\* The number of the message that is read next, or was read last.
Reading == IF wire = <<>> THEN last ELSE Head(wire)

\* Chunk i of snapshot s may have been read.
WasRead(s, i) == \E n \in 1..Reading : IsChunk(n, s, i)

Buffers == [snapshotId : Snapshots, chunks : SUBSET (Snapshots \X Nat), received : Nat, total : Nat]

\* A buffer has what it counts, it was sent, and it is not complete; of a snapshot
\* that was handed over it has the last chunk at most.
IsPart(b, hs) ==
  LET s == b.snapshotId
  IN  /\ b.total = Total[s]
      /\ b.chunks \subseteq AllChunks(s)
      /\ b.received = Cardinality(b.chunks) /\ b.received < Total[s]
      /\ \A i \in Nat : <<s, i>> \in b.chunks => WasRead(s, i)
      /\ (\E j \in 1..Len(hs) : hs[j] = AllChunks(s)) => b.chunks \subseteq {<<s, Total[s] - 1>>}

OfDifferentSnapshots(bs) ==
  \A k, l \in 1..Len(bs) : k # l => bs[k].snapshotId # bs[l].snapshotId

AreParts(bs, hs) ==
  /\ bs \in Seq(Buffers)
  /\ \A k \in 1..Len(bs) : IsPart(bs[k], hs)
  /\ OfDifferentSnapshots(bs)

\* What was handed over was read to its end.
WereRead(hs) ==
  /\ hs \in Seq(SUBSET (Snapshots \X Nat))
  /\ \A k \in 1..Len(hs) : \E s \in Snapshots : hs[k] = AllChunks(s) /\ WasRead(s, Total[s] - 1)

ReceiveInv == AreParts(buffers, handed) /\ WereRead(handed) /\ SnapshotsAreWhole

LEMMA ChunkSets ==
  ASSUME NEW s \in Snapshots
  PROVE  /\ IsFiniteSet(AllChunks(s)) /\ Cardinality(AllChunks(s)) = Total[s]
         /\ AllChunks(s) \subseteq Snapshots \X Nat
         /\ <<s, Total[s] - 1>> \in AllChunks(s)
         /\ ~(AllChunks(s) \subseteq {<<s, Total[s] - 1>>})
         /\ \A t \in Snapshots : AllChunks(s) = AllChunks(t) => s = t
<1>0. s \in Nat /\ Total[s] \in Nat /\ Total[s] >= 2
  BY TotalsOfSnapshots
<1> DEFINE I == 0..Total[s] - 1
           f == [i \in I |-> <<s, i>>]
<1>1. IsFiniteSet(I) /\ Cardinality(I) = Total[s]
  <2>1. 0 \in Int /\ Total[s] - 1 \in Int /\ ~(0 > Total[s] - 1) /\ (Total[s] - 1) - 0 + 1 = Total[s]
    BY <1>0
  <2> QED
    BY <2>1, FS_Interval
<1>2. f \in Surjection(I, AllChunks(s)) /\ f \in Injection(I, AllChunks(s))
  BY DEF AllChunks, Surjection, Injection, IsInjective
<1>3. IsFiniteSet(AllChunks(s)) /\ Cardinality(AllChunks(s)) = Total[s]
  BY <1>1, <1>2, FS_Surjection
<1>4. AllChunks(s) \subseteq Snapshots \X Nat
  BY <1>0 DEF AllChunks
<1>5. 0 \in 0..Total[s] - 1 /\ Total[s] - 1 \in 0..Total[s] - 1 /\ Total[s] - 1 # 0
  BY <1>0
<1>6. <<s, 0>> \in AllChunks(s) /\ <<s, Total[s] - 1>> \in AllChunks(s)
  BY <1>5 DEF AllChunks
<1>7. \A t \in Snapshots : AllChunks(s) = AllChunks(t) => s = t
  <2> TAKE t \in Snapshots
  <2>1. <<s, 0>> \in AllChunks(t) => \E i \in 0..Total[t] - 1 : <<s, 0>> = <<t, i>>
    BY DEF AllChunks
  <2> QED
    BY <1>6, <2>1
<1> QED
  BY <1>3, <1>4, <1>5, <1>6, <1>7

\* Later messages are read later.
LEMMA ReadingGrows ==
  ASSUME IInv, SendInv, [AllNext]_allVars
  PROVE  /\ Reading \in Nat /\ Reading' \in Nat /\ Reading <= Reading'
         /\ \A s, i : WasRead(s, i) => WasRead(s, i)'
<1>0. QueueTypeOK /\ QueueTypeOK' /\ NumbersInv /\ NumbersInv' /\ content \in Seq(Messages)
  <2>1. QueueTypeOK /\ [Next]_vars
    BY TransferStep DEF IInv
  <2> QED
    BY <2>1, TypeStep, NumbersStep DEF IInv, SendInv, ContentInv
<1>1. Reading \in Nat /\ Reading' \in Nat /\ (wire # <<>> => Reading <= last)
  BY <1>0, TailTask DEF Reading, QueueTypeOK, NumbersInv
<1>2. ASSUME wire' = wire, last' = last PROVE Reading <= Reading'
  BY <1>1, <1>2 DEF Reading
<1>3. ASSUME NEW n \in Nat \ {0}, last <= n, last' = n, wire' = Append(wire, n)
      PROVE  Reading <= Reading'
  <2>1. CASE wire = <<>>
    <3>1. wire' # <<>> /\ Head(wire') = n
      BY <1>3, <2>1
    <3> QED
      BY <1>3, <2>1, <3>1 DEF Reading
  <2>2. CASE wire # <<>>
    <3>1. Len(wire) \in Nat \ {0} /\ Head(wire) = wire[1]
      BY <1>0, <2>2, TailTask DEF QueueTypeOK
    <3>2. Len(wire') = Len(wire) + 1 /\ wire'[1] = wire[1] /\ wire' \in Seq(Nat)
      BY <1>0, <1>3, <3>1 DEF QueueTypeOK
    <3>3. wire' # <<>> /\ Head(wire') = Head(wire)
      BY <3>1, <3>2
    <3> QED
      BY <1>1, <1>3, <2>2, <3>3 DEF Reading
  <2> QED
    BY <2>1, <2>2
<1>4. ASSUME Read PROVE Reading <= Reading'
  <2>1. /\ wire # <<>> /\ wire' = Tail(wire) /\ last' = last
        /\ Head(wire) = wire[1] /\ Len(wire) \in Nat \ {0}
        /\ Len(Tail(wire)) = Len(wire) - 1
        /\ \A i \in 1..Len(wire) - 1 : Tail(wire)[i] = wire[i + 1]
    BY <1>0, <1>4, TailTask DEF Read, QueueTypeOK
  <2>2. CASE wire' = <<>>
    BY <1>1, <2>1, <2>2 DEF Reading
  <2>3. CASE wire' # <<>>
    <3>1. Len(wire) >= 2
      BY <1>0, <2>1, <2>3, TailTask DEF QueueTypeOK
    <3>2. Head(wire') = wire[2]
      BY <1>0, <2>1, <2>3, <3>1, TailTask DEF QueueTypeOK
    <3>3. wire[1] <= wire[2]
      BY <1>0, <3>1 DEF NumbersInv
    <3> QED
      BY <2>1, <2>3, <3>2, <3>3 DEF Reading
  <2> QED
    BY <2>2, <2>3
<1>5. ASSUME SendAtOnce PROVE Reading <= Reading'
  <2>1. queue = <<>> /\ accepted \in Nat /\ last <= accepted /\ last \in Nat
    BY <1>5, FirstWaits DEF SendAtOnce, QueueBehind, IInv, QueueTypeOK
  <2>2. PICK result : TrySend(accepted + 1, result)
    BY <1>5 DEF SendAtOnce
  <2>3. accepted + 1 \in Nat \ {0} /\ last <= accepted + 1
    BY <2>1
  <2> QED
    BY <1>2, <1>3, <2>2, <2>3, TriedWire
<1>6. ASSUME FlushOne PROVE Reading <= Reading'
  <2>1. queue # <<>>
    BY <1>6 DEF FlushOne
  <2>2. /\ Head(queue) = accepted - Len(queue) + 1
        /\ accepted \in Nat /\ last \in Nat /\ Len(queue) \in Nat \ {0}
    BY <2>1, FirstWaits, TailTask DEF IInv, QueueTypeOK
  <2>3. PICK result : TrySend(Head(queue), result)
    BY <1>6 DEF FlushOne
  <2>4. Head(queue) \in Nat \ {0} /\ last <= Head(queue)
    BY <1>0, <2>2 DEF NumbersInv, IInv, QueueIsInOrder
  <2> QED
    BY <1>2, <1>3, <2>3, <2>4, TriedWire
<1>7. Reading <= Reading'
  <2> USE DEF fifoVars
  <2>1. CASE QueueMessage \/ QueueMessageAndFlush \/ BeginFlush \/ EndFlush
    BY <1>2, <2>1 DEF QueueMessage, QueueMessageAndFlush, BeginFlush, EndFlush
  <2>2. CASE Callback \/ Channel
    BY <1>2, <2>2 DEF Callback, OnClosed, OnBufferedAmountLow, TimerFires, CloseMeshPeer,
                      Channel, ChannelOpens, ChannelCloses
  <2>3. ASSUME NEW n, Call(n) PROVE Reading <= Reading'
    BY <1>2, <2>3 DEF Call
  <2>4. CASE SendHello
    BY <1>2, <2>4 DEF SendHello, OnOpen
  <2>5. CASE UNCHANGED allVars
    BY <1>2, <2>5 DEF allVars, vars
  <2> QED
    BY <1>4, <1>5, <1>6, <2>1, <2>2, <2>3, <2>4, <2>5
    DEF AllNext, Sender, RunTask, SendOperation, SendSnapshot, HandleDataMessage
<1>8. \A s, i : WasRead(s, i) => WasRead(s, i)'
  <2>1. \A n \in 1..Reading : n \in 1..Reading'
    BY <1>1, <1>7
  <2> QED
    BY <1>0, <2>1, ContentStays DEF WasRead
<1> QED
  BY <1>1, <1>7, <1>8

\* What are parts stay parts, as what was read stays read.
LEMMA PartsStay ==
  ASSUME \A s, i : WasRead(s, i) => WasRead(s, i)', NEW bs, NEW hs
  PROVE  /\ AreParts(bs, hs) /\ buffers' = bs /\ handed' = hs => AreParts(buffers, handed)'
         /\ WereRead(hs) /\ handed' = hs => WereRead(handed)'
<1>1. ASSUME AreParts(bs, hs), buffers' = bs, handed' = hs PROVE AreParts(buffers, handed)'
  <2>1. ASSUME NEW k \in 1..Len(bs) PROVE IsPart(buffers[k], handed)'
    <3>1. IsPart(bs[k], hs)
      BY <1>1 DEF AreParts
    <3> QED
      BY <1>1, <3>1 DEF IsPart, AllChunks
  <2>2. Buffers' = Buffers
    BY DEF Buffers, Snapshots
  <2>3. OfDifferentSnapshots(buffers)'
    BY <1>1 DEF AreParts, OfDifferentSnapshots
  <2> QED
    BY <1>1, <2>1, <2>2, <2>3 DEF AreParts
<1>2. ASSUME WereRead(hs), handed' = hs PROVE WereRead(handed)'
  BY <1>2 DEF WereRead, Snapshots, AllChunks
<1> QED
  BY <1>1, <1>2

LEMMA KeptParts ==
  ASSUME NEW hs, AreParts(buffers, hs), NEW kept \in Kept
  PROVE  AreParts(kept, hs)
<1>1. CASE ~SlowTransfer
  BY <1>1 DEF Kept
<1>2. CASE SlowTransfer
  <2>1. PICK k \in 1..Len(buffers) + 1 : kept = SubSeq(buffers, k, Len(buffers))
    BY <1>2 DEF Kept
  <2>2. Len(buffers) \in Nat /\ buffers \in Seq(Buffers)
    BY DEF AreParts
  <2>3. /\ kept \in Seq(Buffers) /\ Len(kept) = Len(buffers) - k + 1
        /\ \A i \in 1..Len(kept) : kept[i] = buffers[k + i - 1]
    BY <2>1, <2>2
  <2>4. \A i \in 1..Len(kept) : k + i - 1 \in 1..Len(buffers)
    BY <2>2, <2>3
  <2>5. \A i \in 1..Len(kept) : IsPart(kept[i], hs)
    BY <2>3, <2>4 DEF AreParts
  <2>6. OfDifferentSnapshots(kept)
    <3> SUFFICES ASSUME NEW i \in 1..Len(kept), NEW j \in 1..Len(kept), i # j
                 PROVE  kept[i].snapshotId # kept[j].snapshotId
      BY DEF OfDifferentSnapshots
    <3>1. k + i - 1 # k + j - 1
      BY <2>2, <2>3
    <3> QED
      BY <2>3, <2>4, <3>1 DEF AreParts, OfDifferentSnapshots
  <2> QED
    BY <2>3, <2>5, <2>6 DEF AreParts
<1> QED
  BY <1>1, <1>2

LEMMA ChunkFields ==
  ASSUME NEW s, NEW i
  PROVE  /\ Chunk(s, i).type = "snapshot-chunk" /\ Chunk(s, i).snapshotId = s
         /\ Chunk(s, i).index = i /\ Chunk(s, i).total = Total[s]
  BY DEF Chunk

\* There is a buffer for the message, and one only.
LEMMA BufferForMessage ==
  ASSUME NEW hs, NEW kept, AreParts(kept, hs), NEW s \in Snapshots, NEW i
  PROVE  /\ AreParts(WithBuffer(kept, Chunk(s, i)), hs)
         /\ \E j \in DOMAIN WithBuffer(kept, Chunk(s, i)) : IsOf(WithBuffer(kept, Chunk(s, i))[j], Chunk(s, i))
<1> DEFINE m == Chunk(s, i)
           before == WithBuffer(kept, m)
<1>0. /\ kept \in Seq(Buffers) /\ Len(kept) \in Nat /\ DOMAIN kept = 1..Len(kept)
      /\ m.snapshotId = s /\ m.total = Total[s]
  BY ChunkFields DEF AreParts
<1> HIDE DEF m
<1>1. CASE \E j \in DOMAIN kept : IsOf(kept[j], m)
  BY <1>1 DEF WithBuffer, m
<1>2. CASE ~\E j \in DOMAIN kept : IsOf(kept[j], m)
  <2> DEFINE b == NewBuffer(m)
  <2>1. /\ b.snapshotId = s /\ b.chunks = {} /\ b.received = 0 /\ b.total = Total[s]
        /\ b \in Buffers
    BY <1>0, TotalsOfSnapshots DEF NewBuffer, Buffers
  <2>2. IsPart(b, hs)
    BY <2>1, TotalsOfSnapshots, FS_EmptySet DEF IsPart
  <2> HIDE DEF b
  <2>3. /\ before \in Seq(Buffers) /\ Len(before) = Len(kept) + 1 /\ before[Len(kept) + 1] = b
        /\ \A j \in 1..Len(kept) : before[j] = kept[j]
    BY <1>0, <1>2, <2>1 DEF WithBuffer, b
  <2>4. \A j \in 1..Len(before) : j \in 1..Len(kept) \/ j = Len(kept) + 1
    BY <1>0, <2>3
  <2>5. \A j \in 1..Len(kept) : kept[j].snapshotId # s
    BY <1>0, <1>2 DEF AreParts, IsPart, IsOf
  <2>6. \A j \in 1..Len(before) : IsPart(before[j], hs)
    BY <2>2, <2>3, <2>4 DEF AreParts
  <2>7. OfDifferentSnapshots(before)
    BY <2>1, <2>3, <2>4, <2>5 DEF AreParts, OfDifferentSnapshots
  <2>8. IsOf(before[Len(kept) + 1], m) /\ Len(kept) + 1 \in DOMAIN before
    BY <1>0, <2>1, <2>3 DEF IsOf
  <2> QED
    BY <2>3, <2>6, <2>7, <2>8 DEF AreParts, m
<1> QED
  BY <1>1, <1>2

\* A chunk makes of a part a greater part, or the whole.
LEMMA FilledBuffer ==
  ASSUME NEW hs, NEW s \in Snapshots, NEW i \in 0..Total[s] - 1, WasRead(s, i),
         NEW b \in Buffers, IsPart(b, hs), b.snapshotId = s,
         (\E j \in 1..Len(hs) : hs[j] = AllChunks(s)) => i = Total[s] - 1
  PROVE  LET c == Filled(b, Chunk(s, i))
         IN  /\ c \in Buffers /\ c.snapshotId = s /\ c.total = Total[s] /\ c.chunks \subseteq Snapshots \X Nat
             /\ c.received < c.total => IsPart(c, hs)
             /\ ~(c.received < c.total) =>
                  /\ c.chunks = AllChunks(s) /\ WasRead(s, Total[s] - 1)
                  /\ \A j \in 1..Len(hs) : hs[j] # AllChunks(s)
<1> DEFINE m == Chunk(s, i)
           c == Filled(b, m)
           x == <<s, i>>
<1>0. s \in Nat /\ Total[s] \in Nat /\ Total[s] >= 2 /\ i \in Nat
  BY TotalsOfSnapshots
<1>1. m.snapshotId = s /\ m.index = i
  BY ChunkFields
<1> HIDE DEF m
<1>2. b.chunks \subseteq AllChunks(s) /\ b.total = Total[s] /\ b.received = Cardinality(b.chunks)
      /\ b.received < Total[s] /\ b.received \in Nat
  BY DEF IsPart, Buffers
<1>3. x \in AllChunks(s) /\ x \in Snapshots \X Nat
  BY <1>0 DEF AllChunks
<1>4. IsFiniteSet(b.chunks) /\ IsFiniteSet(AllChunks(s)) /\ Cardinality(AllChunks(s)) = Total[s]
  BY <1>2, ChunkSets, FS_Subset
<1>5. /\ c.snapshotId = s /\ c.total = Total[s] /\ c.chunks = b.chunks \cup {x}
      /\ c.received = (IF x \in b.chunks THEN b.received ELSE b.received + 1)
      /\ c \in Buffers
  <2> DEFINE n == IF x \in b.chunks THEN b.received ELSE b.received + 1
             d == b.chunks \cup {x}
  <2>1. c = [[b EXCEPT !.received = n] EXCEPT !.chunks = d]
    BY <1>1 DEF Filled
  <2>2. n \in Nat /\ d \in SUBSET (Snapshots \X Nat)
    BY <1>2, <1>3 DEF Buffers
  <2> HIDE DEF n, d, c
  <2>3. c.snapshotId = b.snapshotId /\ c.total = b.total /\ c.chunks = d /\ c.received = n /\ c \in Buffers
    BY <2>1, <2>2 DEF Buffers
  <2> QED
    BY <1>2, <2>3 DEF n, d
<1> HIDE DEF c
<1>6. c.received = Cardinality(c.chunks) /\ c.chunks \subseteq AllChunks(s)
  BY <1>2, <1>3, <1>4, <1>5, FS_AddElement
<1>7. c.received \in Nat /\ c.received <= Total[s] /\ (c.received = Total[s] => c.chunks = AllChunks(s))
  BY <1>4, <1>5, <1>6, FS_Subset DEF Buffers
<1>8. \A j \in Nat : <<s, j>> \in c.chunks => WasRead(s, j)
  BY <1>5 DEF IsPart
<1>9. (\E j \in 1..Len(hs) : hs[j] = AllChunks(s)) => c.chunks \subseteq {<<s, Total[s] - 1>>}
  BY <1>5 DEF IsPart
<1>10. c.received < c.total => IsPart(c, hs)
  BY <1>5, <1>6, <1>8, <1>9 DEF IsPart
<1>11. ASSUME ~(c.received < c.total)
       PROVE  /\ c.chunks = AllChunks(s) /\ WasRead(s, Total[s] - 1)
              /\ \A j \in 1..Len(hs) : hs[j] # AllChunks(s)
  <2>1. c.chunks = AllChunks(s)
    BY <1>0, <1>5, <1>7, <1>11
  <2>2. Total[s] - 1 \in Nat /\ <<s, Total[s] - 1>> \in c.chunks
    BY <1>0, <2>1, ChunkSets
  <2>3. \A j \in 1..Len(hs) : hs[j] # AllChunks(s)
    BY <1>9, <2>1, ChunkSets
  <2> QED
    BY <1>8, <2>1, <2>2, <2>3
<1> QED
  BY <1>5, <1>10, <1>11 DEF c, m, Buffers

\* Chunks that are read are no older than what was handed over.
LEMMA ReadInOrder ==
  ASSUME ContentInv, Reading \in Nat, NEW hs, WereRead(hs),
         NEW s \in Snapshots, NEW i \in 0..Total[s] - 1, IsChunk(Reading, s, i),
         NEW j \in 1..Len(hs), NEW t \in Snapshots, hs[j] = AllChunks(t)
  PROVE  t < s \/ (t = s /\ i = Total[s] - 1)
<1>0. Total[s] \in Nat /\ Total[s] >= 2 /\ Total[t] \in Nat /\ Total[t] >= 2
  BY TotalsOfSnapshots
<1>1. WasRead(t, Total[t] - 1)
  BY ChunkSets DEF WereRead
<1>2. PICK n \in 1..Reading : IsChunk(n, t, Total[t] - 1)
  BY <1>1 DEF WasRead
<1>3. CASE n = Reading
  <2>1. Chunk(t, Total[t] - 1) = Chunk(s, i)
    BY <1>2, <1>3 DEF IsChunk
  <2> QED
    BY <2>1, ChunksDiffer
<1>4. CASE n # Reading
  <2>1. n < Reading /\ i \in Nat /\ Total[t] - 1 \in Nat
    BY <1>0, <1>2, <1>4
  <2>2. t < s \/ (t = s /\ Total[t] - 1 < i)
    BY <1>2, <2>1 DEF ContentInv
  <2> QED
    BY <1>0, <2>2
<1> QED
  BY <1>3, <1>4

LEMMA JoinedLists ==
  ASSUME NEW S, NEW a \in Seq(S), NEW b \in Seq(S)
  PROVE  /\ a \o b \in Seq(S) /\ Len(a \o b) = Len(a) + Len(b) /\ Len(a) \in Nat /\ Len(b) \in Nat
         /\ \A k \in 1..Len(a) + Len(b) : (a \o b)[k] = IF k <= Len(a) THEN a[k] ELSE b[k - Len(a)]
  OBVIOUS

LEMMA Removed ==
  ASSUME NEW S, NEW q \in Seq(S), NEW i \in 1..Len(q)
  PROVE  /\ RemoveAt(q, i) \in Seq(S) /\ Len(RemoveAt(q, i)) = Len(q) - 1
         /\ \A k \in 1..Len(q) - 1 : RemoveAt(q, i)[k] = q[IF k < i THEN k ELSE k + 1]
<1> DEFINE a == SubSeq(q, 1, i - 1)
           b == SubSeq(q, i + 1, Len(q))
<1>1. /\ a \in Seq(S) /\ Len(a) = i - 1 /\ \A k \in 1..i - 1 : a[k] = q[k]
      /\ b \in Seq(S) /\ Len(b) = Len(q) - i /\ \A k \in 1..Len(q) - i : b[k] = q[k + i]
  OBVIOUS
<1> HIDE DEF a, b
<1>2. /\ a \o b \in Seq(S) /\ Len(a \o b) = Len(q) - 1
      /\ \A k \in 1..Len(q) - 1 : (a \o b)[k] = IF k < i THEN a[k] ELSE b[k - (i - 1)]
  <2>1. /\ a \o b \in Seq(S) /\ Len(a \o b) = Len(a) + Len(b)
        /\ \A k \in 1..Len(a) + Len(b) : (a \o b)[k] = IF k <= Len(a) THEN a[k] ELSE b[k - Len(a)]
    BY <1>1, JoinedLists
  <2>2. Len(q) \in Nat /\ Len(a) + Len(b) = Len(q) - 1
    BY <1>1
  <2> HIDE DEF a, b
  <2>3. \A k \in 1..Len(q) - 1 : k <= Len(a) <=> k < i
    BY <1>1, <2>2
  <2> QED
    BY <1>1, <2>1, <2>2, <2>3
<1>3. ASSUME NEW k \in 1..Len(q) - 1 PROVE (a \o b)[k] = q[IF k < i THEN k ELSE k + 1]
  <2>1. CASE k < i
    BY <1>1, <1>2, <2>1
  <2>2. CASE ~(k < i)
    <3>1. k - (i - 1) \in 1..Len(q) - i /\ (k - (i - 1)) + i = k + 1
      BY <2>2
    <3> QED
      BY <1>1, <1>2, <2>2, <3>1
  <2> QED
    BY <2>1, <2>2
<1> QED
  BY <1>2, <1>3 DEF RemoveAt, a, b

\* A snapshot that is handed over has no buffer afterwards.
LEMMA PartsOfOthers ==
  ASSUME NEW hs \in Seq(SUBSET (Snapshots \X Nat)), NEW s \in Snapshots, NEW b \in Buffers, IsPart(b, hs), b.snapshotId # s
  PROVE  IsPart(b, Append(hs, AllChunks(s)))
<1> DEFINE gs == Append(hs, AllChunks(s))
<1>1. b.snapshotId \in Snapshots /\ AllChunks(s) \in SUBSET (Snapshots \X Nat)
  BY ChunkSets DEF Buffers
<1>2. AllChunks(b.snapshotId) # AllChunks(s)
  BY <1>1, ChunkSets
<1>3. /\ Len(hs) \in Nat /\ Len(gs) = Len(hs) + 1 /\ gs[Len(hs) + 1] = AllChunks(s)
      /\ \A j \in 1..Len(hs) : gs[j] = hs[j]
  BY <1>1
<1> HIDE DEF gs
<1>4. (\E j \in 1..Len(gs) : gs[j] = AllChunks(b.snapshotId)) => \E j \in 1..Len(hs) : hs[j] = AllChunks(b.snapshotId)
  <2> SUFFICES ASSUME NEW j \in 1..Len(gs), gs[j] = AllChunks(b.snapshotId)
               PROVE  j \in 1..Len(hs) /\ hs[j] = AllChunks(b.snapshotId)
    OBVIOUS
  <2>1. j # Len(hs) + 1
    BY <1>2, <1>3
  <2> QED
    BY <1>3, <2>1
<1>5. IsPart(b, gs)
  BY <1>4 DEF IsPart
<1> QED
  BY <1>5 DEF gs

\* A chunk is put into its buffer, which is handed over when it is whole.
LEMMA ChunkHandled ==
  ASSUME IInv, SendInv, ReceiveInv, Reading \in Nat \ {0}, NEW s \in Snapshots, NEW i \in 0..Total[s] - 1,
         IsChunk(Reading, s, i), HandleSnapshotChunk(Chunk(s, i))
  PROVE  \E bs, hs : /\ buffers' = bs /\ handed' = hs
                     /\ AreParts(bs, hs) /\ WereRead(hs) /\ SnapshotsAreWhole'
<1> DEFINE m == Chunk(s, i)
<1>1. PICK kept \in Kept :
        LET before == WithBuffer(kept, m)
            k      == CHOOSE j \in DOMAIN before : IsOf(before[j], m)
            b      == Filled(before[k], m)
            filled == [before EXCEPT ![k] = b]
        IN  IF b.received < b.total
            THEN buffers' = filled /\ handed' = handed
            ELSE buffers' = RemoveAt(filled, k) /\ handed' = Append(handed, b.chunks)
  BY DEF HandleSnapshotChunk
<1> DEFINE before == WithBuffer(kept, m)
           k      == CHOOSE j \in DOMAIN before : IsOf(before[j], m)
           b      == Filled(before[k], m)
           filled == [before EXCEPT ![k] = b]
<1>2. AreParts(before, handed) /\ \E j \in DOMAIN before : IsOf(before[j], m)
  BY KeptParts, BufferForMessage DEF ReceiveInv
<1>3. k \in DOMAIN before /\ IsOf(before[k], m)
  BY <1>2
<1>4. IF b.received < b.total THEN buffers' = filled /\ handed' = handed
      ELSE buffers' = RemoveAt(filled, k) /\ handed' = Append(handed, b.chunks)
  BY <1>1
<1> DEFINE old == before[k]
<1>5. /\ before \in Seq(Buffers) /\ Len(before) \in Nat /\ DOMAIN before = 1..Len(before) /\ k \in 1..Len(before)
      /\ old \in Buffers /\ IsPart(old, handed) /\ old.snapshotId = s
  <2>1. before \in Seq(Buffers) /\ Len(before) \in Nat /\ DOMAIN before = 1..Len(before)
    BY <1>2 DEF AreParts
  <2> HIDE DEF before, k
  <2>2. k \in 1..Len(before) /\ old \in Buffers
    BY <1>3, <2>1
  <2>3. IsPart(old, handed) /\ old.snapshotId = s
    BY <1>2, <1>3, <2>1, <2>2, ChunkFields DEF AreParts, IsOf
  <2> QED
    BY <2>1, <2>2, <2>3
<1>6. WasRead(s, i) /\ ContentInv /\ WereRead(handed)
  BY DEF WasRead, SendInv, ReceiveInv
<1>7. (\E j \in 1..Len(handed) : handed[j] = AllChunks(s)) => i = Total[s] - 1
  BY <1>6, ReadInOrder, TotalsOfSnapshots
<1>8. /\ b \in Buffers /\ b.snapshotId = s /\ b.total = Total[s]
      /\ b.received < b.total => IsPart(b, handed)
      /\ ~(b.received < b.total) =>
           /\ b.chunks = AllChunks(s) /\ WasRead(s, Total[s] - 1)
           /\ \A j \in 1..Len(handed) : handed[j] # AllChunks(s)
  BY <1>5, <1>6, <1>7, FilledBuffer
<1>9. OfDifferentSnapshots(before) /\ \A j \in 1..Len(before) : IsPart(before[j], handed)
  BY <1>2 DEF AreParts
<1> HIDE DEF m, before, k, b, old
<1>10. /\ filled \in Seq(Buffers) /\ Len(filled) = Len(before) /\ filled[k] = b
       /\ \A j \in 1..Len(before) : j # k => filled[j] = before[j]
  BY <1>5, <1>8
<1> HIDE DEF filled
<1>11. \A j \in 1..Len(before) : filled[j].snapshotId = before[j].snapshotId
                                 /\ (j # k => filled[j].snapshotId # s)
  BY <1>5, <1>8, <1>9, <1>10 DEF OfDifferentSnapshots, old
<1>12. CASE b.received < b.total
  <2>1. \A j \in 1..Len(filled) : IsPart(filled[j], handed)
    BY <1>8, <1>9, <1>10, <1>12
  <2>2. OfDifferentSnapshots(filled)
    BY <1>9, <1>10, <1>11 DEF OfDifferentSnapshots
  <2>3. AreParts(filled, handed)
    BY <1>10, <2>1, <2>2 DEF AreParts
  <2>4. SnapshotsAreWhole'
    BY <1>4, <1>12 DEF ReceiveInv, SnapshotsAreWhole, AllChunks, Snapshots
  <2> QED
    BY <1>4, <1>6, <1>12, <2>3, <2>4
<1>13. CASE ~(b.received < b.total)
  <2> DEFINE rest == RemoveAt(filled, k)
             hs   == Append(handed, AllChunks(s))
  <2>1. buffers' = rest /\ handed' = hs
    BY <1>4, <1>8, <1>13
  <2>2. /\ rest \in Seq(Buffers) /\ Len(rest) = Len(filled) - 1
        /\ \A j \in 1..Len(filled) - 1 : rest[j] = filled[IF j < k THEN j ELSE j + 1]
    BY <1>5, <1>10, Removed
  <2>3. handed \in Seq(SUBSET (Snapshots \X Nat)) /\ AllChunks(s) \in SUBSET (Snapshots \X Nat)
    BY <1>6, ChunkSets DEF WereRead
  <2>4. /\ hs \in Seq(SUBSET (Snapshots \X Nat)) /\ Len(hs) = Len(handed) + 1 /\ Len(handed) \in Nat
        /\ hs[Len(handed) + 1] = AllChunks(s) /\ \A j \in 1..Len(handed) : hs[j] = handed[j]
        /\ DOMAIN hs = 1..Len(hs) /\ DOMAIN handed = 1..Len(handed)
    BY <2>3
  <2>5. \A j \in 1..Len(rest) : (IF j < k THEN j ELSE j + 1) \in 1..Len(before) \ {k}
    BY <1>5, <1>10, <2>2
  <2>6. \A j \in 1..Len(rest) : IsPart(rest[j], hs)
    <3> TAKE j \in 1..Len(rest)
    <3> DEFINE l == IF j < k THEN j ELSE j + 1
    <3>1. l \in 1..Len(before) \ {k} /\ rest[j] = filled[l]
      BY <2>2, <2>5
    <3> HIDE DEF l, hs, rest
    <3>2. filled[l] = before[l] /\ filled[l].snapshotId # s /\ filled[l] \in Buffers
      BY <1>5, <1>10, <1>11, <3>1
    <3>3. IsPart(filled[l], handed)
      BY <1>9, <3>1, <3>2
    <3> QED
      BY <2>3, <3>1, <3>2, <3>3, PartsOfOthers DEF hs
  <2>7. OfDifferentSnapshots(rest)
    <3> SUFFICES ASSUME NEW j \in 1..Len(rest), NEW l \in 1..Len(rest), j # l
                 PROVE  rest[j].snapshotId # rest[l].snapshotId
      BY DEF OfDifferentSnapshots
    <3> DEFINE jj == IF j < k THEN j ELSE j + 1
               ll == IF l < k THEN l ELSE l + 1
    <3>1. jj # ll /\ jj \in 1..Len(before) /\ ll \in 1..Len(before)
      BY <1>5, <2>2, <2>5
    <3>2. rest[j] = filled[jj] /\ rest[l] = filled[ll]
      BY <2>2
    <3> HIDE DEF jj, ll, rest
    <3> QED
      BY <1>9, <1>11, <3>1, <3>2 DEF OfDifferentSnapshots
  <2> HIDE DEF rest, hs
  <2>8. AreParts(rest, hs)
    BY <2>2, <2>6, <2>7 DEF AreParts
  <2>9. WereRead(hs)
    <3>1. ASSUME NEW j \in 1..Len(hs)
          PROVE  \E t \in Snapshots : hs[j] = AllChunks(t) /\ WasRead(t, Total[t] - 1)
      <4>1. CASE j = Len(handed) + 1
        BY <1>8, <1>13, <2>4, <4>1
      <4>2. CASE j # Len(handed) + 1
        BY <1>6, <2>4, <4>2 DEF WereRead
      <4> QED
        BY <4>1, <4>2
    <3> QED
      BY <2>4, <3>1 DEF WereRead
  <2>10. \A j \in 1..Len(handed) : \E t \in 1..s - 1 : handed[j] = AllChunks(t)
    <3> TAKE j \in 1..Len(handed)
    <3>1. PICK t \in Snapshots : handed[j] = AllChunks(t)
      BY <1>6 DEF WereRead
    <3>2. t # s
      BY <1>8, <1>13, <3>1
    <3>3. t < s
      BY <1>6, <3>1, <3>2, ReadInOrder
    <3>4. t \in 1..s - 1
      BY <3>3, TotalsOfSnapshots
    <3> QED
      BY <3>1, <3>4
  <2>11. SnapshotsAreWhole'
    <3>1. SnapshotsAreWhole
      BY DEF ReceiveInv
    <3>2. ASSUME NEW j \in DOMAIN hs
          PROVE  \E t \in Snapshots : /\ hs[j] = AllChunks(t)
                                      /\ \A l \in 1..j - 1 : \E r \in 1..t - 1 : hs[l] = AllChunks(r)
      <4>1. CASE j = Len(handed) + 1
        <5>1. \A l \in 1..j - 1 : hs[l] = handed[l] /\ l \in 1..Len(handed)
          BY <2>4, <4>1
        <5> QED
          BY <2>4, <2>10, <4>1, <5>1
      <4>2. CASE j # Len(handed) + 1
        <5>1. j \in DOMAIN handed /\ hs[j] = handed[j] /\ \A l \in 1..j - 1 : hs[l] = handed[l]
          BY <2>4, <4>2
        <5> QED
          BY <3>1, <5>1 DEF SnapshotsAreWhole
      <4> QED
        BY <4>1, <4>2
    <3> QED
      BY <2>1, <3>2 DEF SnapshotsAreWhole, AllChunks, Snapshots
  <2> QED
    BY <2>1, <2>8, <2>9, <2>11
<1> QED
  BY <1>12, <1>13

LEMMA ReceiveStep == IInv /\ SendInv /\ ReceiveInv /\ [AllNext]_allVars => ReceiveInv'
<1> SUFFICES ASSUME IInv, SendInv, ReceiveInv, [AllNext]_allVars PROVE ReceiveInv'
  OBVIOUS
<1>1. \A s, i : WasRead(s, i) => WasRead(s, i)'
  BY ReadingGrows
<1>2. CASE buffers' = buffers /\ handed' = handed
  <2>1. SnapshotsAreWhole'
    BY <1>2 DEF ReceiveInv, SnapshotsAreWhole, AllChunks, Snapshots
  <2> QED
    BY <1>1, <1>2, <2>1, PartsStay DEF ReceiveInv
<1>3. CASE HandleDataMessage /\ ~(buffers' = buffers /\ handed' = handed)
  <2> DEFINE m == content[Head(wire)]
  <2>1. wire # <<>> /\ m.type = "snapshot-chunk" /\ HandleSnapshotChunk(m)
    BY <1>3 DEF HandleDataMessage, Read, receiverVars
  <2>2. Reading = Head(wire) /\ Reading \in 1..Len(content) /\ Reading \in Nat \ {0}
    <3>1. Reading = wire[1] /\ Reading = Head(wire) /\ Len(wire) \in Nat \ {0} /\ last <= accepted
          /\ accepted \in Nat /\ last \in Nat
      BY <2>1, TailTask DEF Reading, IInv, QueueTypeOK, QueueIsInOrder
    <3>2. Reading \in 1..last
      BY <3>1 DEF SendInv, NumbersInv
    <3>3. Len(content) - accepted \in Nat /\ Len(content) \in Nat
      BY DEF SendInv, TaskInv, ContentInv
    <3> QED
      BY <3>1, <3>2, <3>3
  <2>3. m \in Messages
    BY <2>2 DEF SendInv, ContentInv
  <2>4. PICK s \in Snapshots : \E i \in 0..Total[s] - 1 : m = Chunk(s, i)
    BY <2>1, <2>3 DEF Messages, Chunks, Operation, Hello
  <2>5. PICK i \in 0..Total[s] - 1 : m = Chunk(s, i)
    BY <2>4
  <2>6. IsChunk(Reading, s, i)
    BY <2>2, <2>5 DEF IsChunk
  <2>7. \E bs, hs : /\ buffers' = bs /\ handed' = hs
                    /\ AreParts(bs, hs) /\ WereRead(hs) /\ SnapshotsAreWhole'
    BY <2>1, <2>2, <2>5, <2>6, ChunkHandled
  <2> QED
    BY <1>1, <2>7, PartsStay DEF ReceiveInv
<1> QED
  BY <1>2, <1>3 DEF AllNext, allVars, receiverVars

-----------------------------------------------------------------------------
(* Snapshots: the theorems.                                                *)

LEMMA TransferInit == AllInit => IInv /\ SendInv /\ ReceiveInv
<1> SUFFICES ASSUME AllInit PROVE IInv /\ SendInv /\ ReceiveInv
  OBVIOUS
<1>1. /\ accepted = 0 /\ last = 0 /\ wire = <<>> /\ queue = <<>> /\ task = <<>>
      /\ content = <<>> /\ buffers = <<>> /\ handed = <<>>
  BY DEF AllInit, Init
<1>2. Len(<<>>) = 0 /\ DOMAIN <<>> = {} /\ 1..Len(<<>>) = {} /\ \A S : <<>> \in Seq(S)
  OBVIOUS
<1>3. IInv
  BY IInvInit DEF AllInit
<1>4. NumbersInv
  BY <1>1, <1>2 DEF NumbersInv
<1>5. Sends(<<>>, 0)
  <2>1. 0 + 0 <= Len(<<>>) /\ \A i \in 1..Len(<<>>) : <<>>[i] = "send" <=> i \in 0 + 1..0 + 0
    BY <1>2
  <2> QED
    BY <2>1 DEF Sends
<1>6. TaskInv
  BY <1>1, <1>2, <1>5 DEF TaskInv
<1>7. ContentInv
  BY <1>1, <1>2 DEF ContentInv, IsChunk
<1>8. ReceiveInv
  BY <1>1, <1>2 DEF ReceiveInv, AreParts, WereRead, OfDifferentSnapshots, SnapshotsAreWhole
<1> QED
  BY <1>3, <1>4, <1>6, <1>7, <1>8 DEF SendInv

LEMMA TransferInvariant == AllSpec => [](IInv /\ SendInv /\ ReceiveInv)
<1>1. IInv /\ [AllNext]_allVars => IInv'
  BY TransferStep, TypeStep, OrderStep, StallStep DEF IInv
<1> QED
  BY <1>1, TransferInit, SendStep, ReceiveStep, PTL DEF AllSpec

\* The snapshots of a transfer go over the queue as any messages do, so what was
\* proved of sendDataMessage and flushPeerQueue holds for them.
THEOREM TransferIsQueue == AllSpec => Spec
<1>1. AllInit => Init
  BY DEF AllInit
<1>2. IInv /\ [AllNext]_allVars => [Next]_vars
  BY TransferStep DEF IInv
<1> QED
  BY <1>1, <1>2, TransferInvariant, PTL DEF AllSpec, Spec

\* handleSnapshotChunk hands a snapshot over whole or not at all, none twice and
\* in the order in which they were sent, whatever was repeated or thrown away.
THEOREM SnapshotsComeWhole == AllSpec => []SnapshotsAreWhole
<1>1. ReceiveInv => SnapshotsAreWhole
  BY DEF ReceiveInv
<1> QED
  BY <1>1, TransferInvariant, PTL
=============================================================================

--------------------------- MODULE SnapshotChunks ---------------------------
(***************************************************************************)
(* Snapshots over a data channel: sendSnapshot cuts them into chunks, the  *)
(* queue of PeerQueue carries them among the other messages, possibly      *)
(* twice, and handleSnapshotChunk of the peer puts them together.  What is *)
(* not complete after a minute is thrown away.                             *)
(***************************************************************************)
EXTENDS PeerQueue, SequencesExt

CONSTANTS Total,       \* Total[s]: the chunks of snapshot s
          SlowTransfer \* a transfer may take longer than the time it is given

ASSUME SnapshotAssumption ==
  /\ Total \in Seq(Nat \ {0, 1})
  /\ SlowTransfer \in BOOLEAN

VARIABLES content,     \* the messages by number: what each one is
          buffers,     \* snapshotChunks, oldest first
          handed,      \* history: the snapshots handed over, as sets of chunks
          expired      \* history: snapshots some chunk of which was thrown away

receiverVars == <<buffers, handed, expired>>
allVars      == <<vars, content, receiverVars>>

Snapshots == DOMAIN Total
Operation == [type |-> "operation"]
Hello     == [type |-> "hello"]
Chunk(s, i) == [type |-> "snapshot-chunk", snapshotId |-> s, index |-> i, total |-> Total[s]]

IsSent(s) == \E n \in DOMAIN content : content[n] = Chunk(s, 0)

-----------------------------------------------------------------------------
(* The sender.                                                             *)

SendOperation == Call(1) /\ content' = Append(content, Operation)

\* Snapshots have ids of their own, so each s is sent once; a chunk is never too
\* large.
SendSnapshot(s) ==
  /\ ~IsSent(s)
  /\ \A r \in 1..s - 1 : IsSent(r)
  /\ Call(Total[s])
  /\ (Len(content) + 1..Len(content) + Total[s]) \cap TooLarge = {}
  /\ content' = content \o [i \in 1..Total[s] |-> Chunk(s, i - 1)]

\* Nor is the hello.
SendHello == OnOpen /\ accepted + 1 \notin TooLarge /\ content' = Append(content, Hello)

-----------------------------------------------------------------------------
(* The receiver.                                                           *)

NewBuffer(m) == [snapshotId |-> m.snapshotId, chunks |-> {}, received |-> 0, total |-> m.total]

\* cleanupSnapshotChunks: the oldest buffers may have had their time.
Kept ==
  IF SlowTransfer THEN {SubSeq(buffers, k, Len(buffers)) : k \in 1..Len(buffers) + 1}
                  ELSE {buffers}

IsOf(b, m) == b.snapshotId = m.snapshotId /\ b.total = m.total

\* The buffers with one for m, last if it is new.
WithBuffer(kept, m) ==
  IF \E i \in DOMAIN kept : IsOf(kept[i], m) THEN kept ELSE Append(kept, NewBuffer(m))

Filled_EveryTime(b, m) ==   \* mutant: a repeated chunk counts
  [b EXCEPT !.received = @ + 1, !.chunks = @ \cup {<<m.snapshotId, m.index>>}]

Filled(b, m) ==
  [b EXCEPT !.received = IF <<m.snapshotId, m.index>> \in b.chunks THEN @ ELSE @ + 1,
            !.chunks = @ \cup {<<m.snapshotId, m.index>>}]

HandleSnapshotChunk(m) ==
  \E kept \in Kept :
    LET before == WithBuffer(kept, m)
        i      == CHOOSE j \in DOMAIN before : IsOf(before[j], m)
        b      == Filled(before[i], m)
        filled == [before EXCEPT ![i] = b]
    IN  /\ expired' = expired \cup ({buffers[j].snapshotId : j \in DOMAIN buffers}
                                     \ {kept[j].snapshotId : j \in DOMAIN kept})
        /\ IF b.received < b.total
           THEN /\ buffers' = filled
                /\ UNCHANGED handed
           ELSE /\ buffers' = RemoveAt(filled, i)
                /\ handed' = Append(handed, b.chunks)

\* isP2PDataMessage, as far as it looks at numbers.
IsP2PDataMessage(m) ==
  m.type = "snapshot-chunk" => m.total > 0 /\ m.index \in 0..m.total - 1

\* The other messages are the subject of P2PSession.
HandleDataMessage ==
  /\ Read
  /\ LET m == content[Head(wire)]
     IN  IF IsP2PDataMessage(m) /\ m.type = "snapshot-chunk"
         THEN HandleSnapshotChunk(m)
         ELSE UNCHANGED receiverVars
  /\ UNCHANGED content

-----------------------------------------------------------------------------
AllInit == Init /\ content = <<>> /\ buffers = <<>> /\ handed = <<>> /\ expired = {}

Sender == RunTask \/ Callback \/ Channel

AllNext ==
  \/ Sender /\ UNCHANGED <<content, receiverVars>>
  \/ (SendOperation \/ SendHello \/ \E s \in Snapshots : SendSnapshot(s))
       /\ UNCHANGED receiverVars
  \/ HandleDataMessage

AllSpec == AllInit /\ [][AllNext]_allVars

\* JavaScript runs what it has begun, timers and callbacks come, messages are
\* delivered; the channel that is asked again and again takes a message.
Progress == FlushOne /\ queue' = Tail(queue) /\ last' = Head(queue)

Fairness ==
  /\ WF_allVars(RunTask /\ UNCHANGED <<content, receiverVars>>)
  /\ WF_allVars(TimerFires /\ UNCHANGED <<content, receiverVars>>)
  /\ WF_allVars(SendHello /\ UNCHANGED receiverVars)
  /\ WF_allVars(HandleDataMessage)
  /\ SF_allVars(Progress /\ UNCHANGED <<content, receiverVars>>)

FairSpec == AllSpec /\ Fairness

-----------------------------------------------------------------------------
(* Properties.                                                             *)

AllChunks(s) == {<<s, i>> : i \in 0..Total[s] - 1}

\* A snapshot is handed over whole or not at all, none twice, and in the order in
\* which they were sent: repeated, interleaved and expired chunks never make up a
\* snapshot, and a session never goes back to an earlier one.
SnapshotsAreWhole ==
  \A k \in DOMAIN handed : \E s \in Snapshots :
    /\ handed[k] = AllChunks(s)
    /\ \A j \in 1..k - 1 : \E r \in 1..s - 1 : handed[j] = AllChunks(r)

\* A snapshot that is sent arrives, unless the channel closes or time runs out.
SnapshotsArrive ==
  \A s \in Snapshots :
    IsSent(s) ~> \/ \E k \in DOMAIN handed : handed[k] = AllChunks(s)
                 \/ channel # "open" \/ s \in expired
=============================================================================

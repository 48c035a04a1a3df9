------------------------------ MODULE PeerFifo ------------------------------
(***************************************************************************)
(* What the messages to one peer are promised: they are numbered in the    *)
(* order in which they were accepted and reach the wire in that order.  A  *)
(* message may be repeated before the next one follows, and only one that  *)
(* is too large is left out.                                               *)
(***************************************************************************)
EXTENDS Integers, Sequences

CONSTANTS TooLarge     \* the numbers of messages that exceed the limit

VARIABLES accepted,    \* messages accepted so far
          last,        \* the latest message that reached the wire, or 0
          wire         \* what is on the wire and not yet read

vars == <<accepted, last, wire>>

Init == accepted = 0 /\ last = 0 /\ wire = <<>>

Read == wire # <<>> /\ wire' = Tail(wire) /\ UNCHANGED <<accepted, last>>

\* The next message, or the last one once more.
MayPut(n) == \/ n = last
             \/ /\ n \in last + 1..accepted'
                /\ \A m \in last + 1..n - 1 : m \in TooLarge

Put == /\ last' \notin TooLarge
       /\ MayPut(last')
       /\ wire' = Append(wire, last')

AcceptOrPut == /\ accepted' \in {accepted, accepted + 1}
               /\ Put \/ UNCHANGED <<last, wire>>

Next == Read \/ AcceptOrPut

Spec == Init /\ [][Next]_vars
=============================================================================

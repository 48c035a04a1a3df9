-------------------------------- MODULE OpSet --------------------------------
(***************************************************************************)
(* What crates/crdt-core promises of a replica: it is the set of           *)
(* operations it knows and nothing else.  Its content is a function of     *)
(* that set, so neither order nor repetition of deliveries can be told     *)
(* from it.  Replication.tla implements this specification.                *)
(***************************************************************************)
EXTENDS TextCrdt

VARIABLES issued,   \* all operations issued by anyone
          known,    \* known[r]: the operations r has been told of
          content   \* content[r]: the characters and the deleted ones among them

\* A character counts when its chain of anchors back to the root is known.
Content(ops) ==
  LET chars == Drained({}, Inserts(ops))
  IN  [chars |-> chars, deleted |-> {o.dep : o \in {d \in Deletes(ops) : HasDep(chars, d)}}]

Init ==
  /\ issued  = {}
  /\ known   = [r \in Replica |-> {}]
  /\ content = [r \in Replica |-> Content({})]

Knows(r, ops) ==
  /\ known'   = [known EXCEPT ![r] = ops]
  /\ content' = [content EXCEPT ![r] = Content(ops)]

\* A local edit: new operations, with ids no other operation has.
Issue(r) ==
  /\ issued \subseteq issued'
  /\ \A o, p \in issued' : o.opId = p.opId => o = p
  /\ Knows(r, known[r] \cup (issued' \ issued))

Learn(r, op) ==
  /\ Knows(r, known[r] \cup {op})
  /\ UNCHANGED issued

\* A new life of r: from nothing, or from what another replica knows.
Reset(r)   == Knows(r, {}) /\ UNCHANGED issued
Copy(r, s) == Knows(r, known[s]) /\ UNCHANGED issued

Next ==
  \E r \in Replica :
    \/ Issue(r)
    \/ \E op \in issued : Learn(r, op)
    \/ Reset(r)
    \/ \E s \in Replica : Copy(r, s)

Spec == Init /\ [][Next]_<<issued, known, content>>
=============================================================================

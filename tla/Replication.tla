---------------------------- MODULE Replication ----------------------------
(***************************************************************************)
(* A set of replicas of one text (struct TextCrdt of text_crdt.rs), each   *)
(* with one variable per field of the struct, and the operations they have *)
(* issued.  The network is the least the transports promise: an issued     *)
(* operation may reach a replica at any time, in any order, any number of  *)
(* times or never.                                                         *)
(*                                                                         *)
(* A replica also restarts: the extension builds a new TextCrdt under the  *)
(* same replica id every time it connects, and lets the user type again    *)
(* after it has replayed operations (relay) or adopted the snapshot of     *)
(* another replica (peer-to-peer).  The code does not look at what the     *)
(* replay or the snapshot brought; FullReplay is the assumption that it    *)
(* brought all that the replica ever wrote, and that none of it waits.     *)
(***************************************************************************)
EXTENDS TextCrdt

CONSTANTS FullReplay,    \* a replica is given all it wrote before it may edit again
          MaxOps,        \* bound: operations issued in a behaviour
          MaxChars,      \* bound: characters of one insert or delete call
          MaxRestarts    \* bound: restarts in a behaviour

ASSUME ReplayAssumption == FullReplay \in BOOLEAN

ASSUME BoundsAssumption == /\ MaxOps \in Nat
                           /\ MaxChars \in Nat
                           /\ MaxRestarts \in Nat

VARIABLES counter,         \* counter[r]
          elements,        \* the insert operations r has applied
          deleted,         \* ids of r's elements whose deleted flag is set
          children,        \* r's index from a parent to its sorted children
          seen,            \* seen_op_ids
          pendingInserts,
          pendingDeletes,
          ready,           \* replicas whose user may edit
          restarts,        \* restarts so far
          issued           \* every operation a local edit has returned

crdtVars == <<counter, elements, deleted, children, seen, pendingInserts, pendingDeletes>>
vars == <<crdtVars, ready, restarts, issued>>

-----------------------------------------------------------------------------
Visible(r)   == VisibleIds(children[r], deleted[r])
Alive(r)     == Ids(elements[r]) \ deleted[r]
IssuedBy(r)  == {o \in issued : o.opId.replica = r}
Pending(r)   == pendingInserts[r] \cup pendingDeletes[r]
SeenOps(r)   == {o \in issued : o.opId \in seen[r]}

\* The ids next_operation_id hands out to a call of n characters.
NextId(r, k) == Id(counter[r] + k, r)

Init ==
  /\ counter        = [r \in Replica |-> 0]
  /\ elements       = [r \in Replica |-> {}]
  /\ deleted        = [r \in Replica |-> {}]
  /\ children       = [r \in Replica |-> NoChildren]
  /\ seen           = [r \in Replica |-> {}]
  /\ pendingInserts = [r \in Replica |-> {}]
  /\ pendingDeletes = [r \in Replica |-> {}]
  /\ ready          = Replica
  /\ restarts       = 0
  /\ issued         = {}

-----------------------------------------------------------------------------
(* Local edits.                                                            *)

\* Mutant: every character is anchored to the left neighbour of the first.
InsertChain_SameAnchor(r, anchor, n) ==
  {[type |-> "insert", opId |-> NextId(r, k), dep |-> anchor] : k \in 1..n}

\* The operations of insert: each character is anchored to the one before it.
InsertChain(r, anchor, n) ==
  {[type |-> "insert",
    opId |-> NextId(r, k),
    dep  |-> IF k = 1 THEN anchor ELSE NextId(r, k - 1)] : k \in 1..n}

\* visible holds clones of entries of elements, so the anchor is one of them.
Insert(r, index, n) ==
  /\ r \in ready
  /\ Cardinality(issued) + n <= MaxOps
  /\ index <= Len(Visible(r))
  /\ \E anchor \in {Root} \cup Alive(r) :
       /\ anchor = IF index = 0 THEN Root ELSE Visible(r)[index]
       /\ LET ops   == InsertChain(r, anchor, n)
              added == AddElements(elements[r], ops) \ elements[r]
          IN  /\ issued'   = issued \cup ops
              /\ seen'     = [seen EXCEPT ![r] = @ \cup Ids(ops)]
              /\ elements' = [elements EXCEPT ![r] = @ \cup added]
              /\ children' = [children EXCEPT ![r] = IndexChildren(@, added)]
  /\ counter' = [counter EXCEPT ![r] = @ + n]
  /\ UNCHANGED <<deleted, pendingInserts, pendingDeletes, ready, restarts>>

\* One operation per character; targets are again clones of elements.
Delete(r, index, n) ==
  /\ r \in ready
  /\ Cardinality(issued) + n <= MaxOps
  /\ index + n <= Len(Visible(r))
  /\ \E target \in [1..n -> Alive(r)] :
       /\ \A k \in 1..n : target[k] = Visible(r)[index + k]
       /\ LET ops == {[type |-> "delete", opId |-> NextId(r, k), dep |-> target[k]] : k \in 1..n}
          IN  /\ issued'  = issued \cup ops
              /\ seen'    = [seen EXCEPT ![r] = @ \cup Ids(ops)]
              /\ deleted' = [deleted EXCEPT ![r] = @ \cup Deps(ops)]
  /\ counter' = [counter EXCEPT ![r] = @ + n]
  /\ UNCHANGED <<elements, children, pendingInserts, pendingDeletes, ready, restarts>>

-----------------------------------------------------------------------------
(* Remote operations: the three outcomes of apply_operation.               *)

ApplyDuplicate(r, op) ==
  /\ op.opId \in seen[r]
  /\ UNCHANGED vars

\* Mutants: a queued operation is not marked seen; a queued delete is not kept.
ApplyQueued_NotSeen(r, op) ==
  /\ op.opId \notin seen[r]
  /\ ~HasDep(elements[r], op)
  /\ pendingInserts' = [pendingInserts EXCEPT ![r] = @ \cup Inserts({op})]
  /\ pendingDeletes' = [pendingDeletes EXCEPT ![r] = @ \cup Deletes({op})]
  /\ UNCHANGED <<seen, counter, elements, deleted, children, ready, restarts, issued>>

ApplyQueued_LosesDelete(r, op) ==
  /\ op.opId \notin seen[r]
  /\ ~HasDep(elements[r], op)
  /\ seen' = [seen EXCEPT ![r] = @ \cup {op.opId}]
  /\ pendingInserts' = [pendingInserts EXCEPT ![r] = @ \cup Inserts({op})]
  /\ UNCHANGED <<pendingDeletes, counter, elements, deleted, children, ready, restarts, issued>>

ApplyQueued(r, op) ==
  /\ op.opId \notin seen[r]
  /\ ~HasDep(elements[r], op)
  /\ seen' = [seen EXCEPT ![r] = @ \cup {op.opId}]
  /\ pendingInserts' = [pendingInserts EXCEPT ![r] = @ \cup Inserts({op})]
  /\ pendingDeletes' = [pendingDeletes EXCEPT ![r] = @ \cup Deletes({op})]
  /\ UNCHANGED <<counter, elements, deleted, children, ready, restarts, issued>>

\* apply_*_inner for op, then drain_pending.
ApplyNow(r, op) ==
  /\ op.opId \notin seen[r]
  /\ HasDep(elements[r], op)
  /\ LET base    == AddElements(elements[r], Inserts({op}))
         drained == Drained(base, pendingInserts[r])
         all     == AddElements(base, drained)
         marked  == Deletes({op}) \cup ReadyDeletes(all, pendingDeletes[r])
         applied == {op} \cup drained \cup marked
     IN  /\ elements'       = [elements EXCEPT ![r] = all]
         /\ children'       = [children EXCEPT ![r] = IndexChildren(@, all \ elements[r])]
         /\ deleted'        = [deleted EXCEPT ![r] = @ \cup Deps(marked)]
         /\ pendingInserts' = [pendingInserts EXCEPT ![r] = @ \ drained]
         /\ pendingDeletes' = [pendingDeletes EXCEPT ![r] = @ \ marked]
         /\ counter'        = [counter EXCEPT ![r] = Max({@, MaxCounterFor(r, Ids(applied))})]
  /\ seen' = [seen EXCEPT ![r] = @ \cup {op.opId}]
  /\ UNCHANGED <<ready, restarts, issued>>

Apply(r, op) ==
  /\ op \in issued
  /\ ApplyDuplicate(r, op) \/ ApplyQueued(r, op) \/ ApplyNow(r, op)

-----------------------------------------------------------------------------
(* Restart and catching up.                                                *)

\* TextCrdt::new under the same replica id.
Restart(r) ==
  /\ r \in ready
  /\ restarts < MaxRestarts
  /\ restarts'       = restarts + 1
  /\ ready'          = ready \ {r}
  /\ counter'        = [counter EXCEPT ![r] = 0]
  /\ elements'       = [elements EXCEPT ![r] = {}]
  /\ deleted'        = [deleted EXCEPT ![r] = {}]
  /\ children'       = [children EXCEPT ![r] = NoChildren]
  /\ seen'           = [seen EXCEPT ![r] = {}]
  /\ pendingInserts' = [pendingInserts EXCEPT ![r] = {}]
  /\ pendingDeletes' = [pendingDeletes EXCEPT ![r] = {}]
  /\ UNCHANGED issued

\* The end of handleTransportJoined: some log has been replayed, as deliveries,
\* and the user may edit.
CaughtUp(r) ==
  /\ r \notin ready
  /\ FullReplay => Ids(IssuedBy(r)) \subseteq seen[r] /\ Pending(r) = {}
  /\ ready' = ready \cup {r}
  /\ UNCHANGED <<crdtVars, restarts, issued>>

\* The ids that max_counter_for_replica looks at in a snapshot of s.
SnapshotIds(s) == Ids(elements[s]) \cup Ids(Pending(s)) \cup seen[s]

\* handleSnapshot: from_snapshot, of whatever replica has answered.
FromSnapshot(r, s) ==
  /\ r \notin ready
  /\ s \in ready
  /\ FullReplay => Ids(IssuedBy(r)) \subseteq seen[s]
  /\ counter'        = [counter EXCEPT ![r] = MaxCounterFor(r, SnapshotIds(s))]
  /\ elements'       = [elements EXCEPT ![r] = elements[s]]
  /\ deleted'        = [deleted EXCEPT ![r] = deleted[s]]
  /\ children'       = [children EXCEPT ![r] = IndexChildren(NoChildren, elements[s])]
  /\ seen'           = [seen EXCEPT ![r] = seen[s]]
  /\ pendingInserts' = [pendingInserts EXCEPT ![r] = pendingInserts[s]]
  /\ pendingDeletes' = [pendingDeletes EXCEPT ![r] = pendingDeletes[s]]
  /\ ready'          = ready \cup {r}
  /\ UNCHANGED <<restarts, issued>>

Next ==
  \E r \in Replica :
    \/ \E index \in 0..MaxOps, n \in 1..MaxChars : Insert(r, index, n) \/ Delete(r, index, n)
    \/ \E op \in issued : Apply(r, op)
    \/ Restart(r)
    \/ CaughtUp(r)
    \/ \E s \in Replica : FromSnapshot(r, s)

Spec == Init /\ [][Next]_vars

\* The transport keeps delivering what a replica has not seen, and the
\* extension resumes an editor that has caught up.
Fairness == \A r \in Replica : /\ WF_vars(\E op \in issued : Apply(r, op))
                              /\ WF_vars(CaughtUp(r))

FairSpec == Spec /\ Fairness

-----------------------------------------------------------------------------
(* Invariants.                                                             *)

\* The fields hold values of the types text_crdt.rs declares for them.
TypeOK ==
  /\ counter \in [Replica -> Nat]
  /\ elements \in [Replica -> SUBSET InsertOp]
  /\ deleted \in [Replica -> SUBSET ElementId]
  /\ seen \in [Replica -> SUBSET ElementId]
  /\ pendingInserts \in [Replica -> SUBSET InsertOp]
  /\ pendingDeletes \in [Replica -> SUBSET DeleteOp]
  /\ ready \in SUBSET Replica
  /\ restarts \in Nat
  /\ issued \in SUBSET Operation

\* The id the next local edit takes was never given to another operation,
\* also after restarts, replays and snapshots (id.rs: "never reused").
NextIdIsFresh ==
  \A r \in ready : \A op \in IssuedBy(r) : op.opId.counter <= counter[r]

\* Replicas that have seen the same operations hold the same state, whatever
\* the order, the duplicates and the way each one came by them.
StrongConvergence ==
  \A r, s \in Replica :
    seen[r] = seen[s] => /\ elements[r] = elements[s]
                         /\ deleted[r] = deleted[s]
                         /\ Pending(r) = Pending(s)

\* Nothing that was seen is lost or left waiting for what is already there: a
\* seen operation is waiting exactly when its dependency is missing, and in
\* force otherwise.
SeenIsAppliedOrWaiting ==
  \A r \in Replica : \A op \in SeenOps(r) :
    IF HasDep(elements[r], op)
    THEN /\ op \notin Pending(r)
         /\ IF op.type = "insert" THEN op \in elements[r] ELSE op.dep \in deleted[r]
    ELSE /\ op \in Pending(r)
         /\ op \notin elements[r]

\* The set that a delivery takes out of the pending inserts is the one the
\* rounds of drain_pending arrive at, whatever is waiting.
DrainIsTheLoop ==
  \A r \in Replica : \A op \in Inserts(issued) :
    op.opId \notin seen[r] /\ HasDep(elements[r], op)
      => Drained(elements[r] \cup {op}, pendingInserts[r])
           = DrainLoop(elements[r] \cup {op}, pendingInserts[r])

\* A replica that has seen everything has nothing left waiting.
AllSeenNothingWaits ==
  \A r \in Replica : Ids(issued) \subseteq seen[r] => Pending(r) = {}

\* The children index that inserts keep up one by one is the one that
\* rebuild_children makes from scratch, and the walk over it shows every
\* character that is not deleted exactly once.
IndexIsExact ==
  \A r \in Replica :
    /\ \A k \in {Root} \cup Ids(elements[r]) :
         children[r][k] = SortSiblings(Ids({e \in elements[r] : e.dep = k}))
    /\ ToSet(Visible(r)) = Alive(r)
    /\ Len(Visible(r)) = Cardinality(Alive(r))

\* The parts of the inductive invariant behind the ones above.  An id names one
\* operation, an operation depends on an insert that was issued, ids come from
\* issued operations, the fields are a function of what was seen, and the
\* counter covers the replica's own operations that it has applied.
IdsAreUnique  == \A o, p \in issued : o.opId = p.opId => o = p
DepsAreIssued == \A o \in issued : o.dep = Root \/ o.dep \in Ids(Inserts(issued))
IssuedIsRooted == Drained({}, Inserts(issued)) = Inserts(issued)
SeenIsIssued  == \A r \in Replica : seen[r] \subseteq Ids(issued)

FollowsSeen(r) ==
  /\ elements[r]       = Drained({}, Inserts(SeenOps(r)))
  /\ pendingInserts[r] = Inserts(SeenOps(r)) \ elements[r]
  /\ pendingDeletes[r] = {d \in Deletes(SeenOps(r)) : ~HasDep(elements[r], d)}
  /\ deleted[r]        = Deps({d \in Deletes(SeenOps(r)) : HasDep(elements[r], d)})

CounterCovers(r) ==
  \A op \in SeenOps(r) :
    op.opId.replica = r /\ op \notin Pending(r) => op.opId.counter <= counter[r]

\* The state of a replica is a function of the operations it has seen, and its
\* next id is new; every issued insert has a chain of issued anchors.
Consistent ==
  /\ TypeOK
  /\ IdsAreUnique
  /\ DepsAreIssued
  /\ IssuedIsRooted
  /\ SeenIsIssued
  /\ \A r \in Replica : FollowsSeen(r)
  /\ \A r \in Replica : CounterCovers(r)
  /\ NextIdIsFresh

Position(seq, id) == CHOOSE i \in DOMAIN seq : seq[i] = id

\* Two replicas never show two characters in opposite orders, also while one
\* of them lacks operations that the other has.
OrderAgreement ==
  \A r, s \in Replica :
    LET v == Visible(r)
        w == Visible(s)
    IN  \A a, b \in ToSet(v) \cap ToSet(w) :
          Position(v, a) < Position(v, b) => Position(w, a) < Position(w, b)

-----------------------------------------------------------------------------
(* Action properties.                                                      *)

Spliced(seq, index, ids) == SubSeq(seq, 1, index) \o ids \o SubSeq(seq, index + 1, Len(seq))

NewIds(r, n) == [k \in 1..n |-> NextId(r, k)]

\* insert puts the text at the visible position it is given (text_crdt.rs:84).
InsertAtPosition ==
  [][\A r \in Replica, index \in 0..MaxOps, n \in 1..MaxChars :
       Insert(r, index, n) => Visible(r)' = Spliced(Visible(r), index, NewIds(r, n))]_vars

\* What holds instead: it does when no element is newer than the replica's own
\* counter; and always the text is in one piece, not before that position, and
\* nothing else moves.
InsertStaysTogether(r, index, n) ==
  Insert(r, index, n) =>
    \E at \in index..Len(Visible(r)) :
      /\ Visible(r)' = Spliced(Visible(r), at, NewIds(r, n))
      /\ (\A e \in elements[r] : e.opId.counter <= counter[r]) => at = index

\* delete takes away the characters of the range it is given and no other.
DeleteAtPosition(r, index, n) ==
  Delete(r, index, n) =>
    Visible(r)' = SubSeq(Visible(r), 1, index)
                  \o SubSeq(Visible(r), index + n + 1, Len(Visible(r)))

\* An edit changes its place in the text the user sees and no other, whatever
\* was received before and whatever is waiting.
EditsStayInPlace ==
  [][\A r \in Replica, index \in 0..MaxOps, n \in 1..MaxChars :
       InsertStaysTogether(r, index, n) /\ DeleteAtPosition(r, index, n)]_vars

-----------------------------------------------------------------------------
(* Liveness.                                                               *)

\* When everything issued is eventually delivered, all replicas end up with
\* the same text and with nothing waiting.
EventualConvergence ==
  <>[](\A r, s \in Replica : Visible(r) = Visible(s) /\ Pending(r) = {})

-----------------------------------------------------------------------------
(* Refinement.                                                             *)

OpSet == INSTANCE OpSet WITH
  known   <- [r \in Replica |-> SeenOps(r)],
  content <- [r \in Replica |-> [chars |-> elements[r], deleted |-> deleted[r]]]

\* A replica shows exactly what the operations it has seen determine.
ImplementsOpSet == OpSet!Spec
=============================================================================

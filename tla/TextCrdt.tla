------------------------------ MODULE TextCrdt ------------------------------
(***************************************************************************)
(* The data of crates/crdt-core: identifiers, operations and the pure      *)
(* functions of the replicated text of text_crdt.rs.  The state machine    *)
(* that owns the data of each replica is in Replication.tla.               *)
(*                                                                         *)
(* A character is known by its ElementId; its value plays no part in any   *)
(* decision of the code and is left out.  Replica ids are compared as      *)
(* strings in the code; here they are numbers, compared as numbers.        *)
(***************************************************************************)
EXTENDS Naturals, Sequences, FiniteSets, FiniteSetsExt, SequencesExt

CONSTANT Replica
ASSUME ReplicaAssumption == Replica \subseteq Nat

-----------------------------------------------------------------------------
(* Identifiers and operations (id.rs, operation.rs).                       *)

\* next_operation_id increments before it returns: no id has counter 0.
ElementId == [counter : Nat \ {0}, replica : Replica]

\* ParentId::Root: the anchor of a character with no left neighbour.
Root == [counter |-> 0, replica |-> 0]

Id(c, r) == [counter |-> c, replica |-> r]

\* dep is what the operation needs to be applied: parent_id of an InsertOp,
\* target_id of a DeleteOp.
InsertOp  == [type : {"insert"}, opId : ElementId, dep : ElementId \cup {Root}]
DeleteOp  == [type : {"delete"}, opId : ElementId, dep : ElementId]
Operation == InsertOp \cup DeleteOp

Inserts(ops) == {o \in ops : o.type = "insert"}
Deletes(ops) == {o \in ops : o.type = "delete"}
Ids(ops)     == {o.opId : o \in ops}
Deps(ops)    == {o.dep : o \in ops}

\* compare_element_id_descending: the greater (counter, replica) comes first.
ComesFirst(a, b) == \/ a.counter > b.counter
                    \/ a.counter = b.counter /\ a.replica > b.replica

-----------------------------------------------------------------------------
(* The elements of a replica are the insert operations it has applied.     *)

HasDep(E, op) == op.dep = Root \/ op.dep \in Ids(E)

\* apply_insert_inner does nothing for an id that is already an element.
AddElements(E, ops) == E \cup {o \in ops : o.opId \notin Ids(E)}

\* A set D of pending inserts that the loop of drain_pending may stop at.
DrainMayStop(E, P, D) == \A p \in P : HasDep(E \cup D, p) => p \in D

\* Mutant: only the inserts that are ready when drain_pending starts.
Drained_OneRound(E, P) == {p \in P : HasDep(E, p)}

\* drain_pending repeats until no pending insert has its parent: it applies
\* the least such set.  DrainLoop below is the loop itself; the two agree
\* (DrainIsTheLoop, checked and proved).
Drained(E, P) == {p \in P : \A D \in SUBSET P : DrainMayStop(E, P, D) => p \in D}

\* Mutant: drain_pending forgets the buffered deletes.
ReadyDeletes_None(E, P) == {}

\* The buffered deletes whose target is there once the inserts are drained.
ReadyDeletes(E, P) == {d \in P : HasDep(E, d)}

\* The rounds of the loop: each applies the inserts that were ready at its
\* start.  Every round but the last applies one, so |P| rounds are enough.
DrainRound(E, P, prev) == prev \cup {p \in P \ prev : HasDep(E \cup prev, p)}

DrainLoop(E, P) ==
  LET round[n \in 0..Cardinality(P)] ==
        IF n = 0 THEN {} ELSE DrainRound(E, P, round[n - 1])
  IN  round[Cardinality(P)]

\* max_counter_for_replica, over the ids a snapshot mentions.
MaxCounterFor(r, ids) == Max({0} \cup {id.counter : id \in {i \in ids : i.replica = r}})

-----------------------------------------------------------------------------
(* The children index and the document order.                              *)

\* siblings.sort_by(compare_element_id_descending), on a list without doubles.
SortSiblings(ids) ==
  [i \in 1..Cardinality(ids) |->
     CHOOSE x \in ids : Cardinality({y \in ids : ComesFirst(y, x)}) = i - 1]

\* Mutants: the new child stays where it was pushed, or is put first.
AddSiblings_Push(siblings, ids)    == siblings \o SortSiblings(ids)
AddSiblings_Unshift(siblings, ids) == SortSiblings(ids) \o siblings

\* Pushing ids to a list of siblings and sorting it.
AddSiblings(siblings, ids) == SortSiblings(ToSet(siblings) \cup ids)

\* apply_insert_inner for every operation of ops, on the index ch.
IndexChildren(ch, ops) ==
  [k \in DOMAIN ch \cup Ids(ops) |->
     AddSiblings(IF k \in DOMAIN ch THEN ch[k] ELSE <<>>,
                 {o.opId : o \in {x \in ops : x.dep = k}})]

NoChildren == [k \in {Root} |-> <<>>]

\* One turn of the loop of visible_elements: it pops an id off the stack, outputs
\* it unless it is deleted, and pushes its children, last first.
WalkStart(ch) == [stack |-> Reverse(ch[Root]), output |-> <<>>]

WalkTurn(ch, tombstones, prev) ==
  LET id == Last(prev.stack)
  IN  [stack  |-> Front(prev.stack) \o Reverse(ch[id]),
       output |-> IF id \in tombstones THEN prev.output ELSE Append(prev.output, id)]

\* The turns, until the stack is empty: every id is popped once.
Walk(ch, tombstones) ==
  LET turn[n \in 0..Cardinality(DOMAIN ch \ {Root})] ==
        IF n = 0
        THEN WalkStart(ch)
        ELSE IF turn[n - 1].stack = <<>>
             THEN turn[n - 1]
             ELSE WalkTurn(ch, tombstones, turn[n - 1])
  IN  turn

VisibleIds(ch, tombstones) == Walk(ch, tombstones)[Cardinality(DOMAIN ch \ {Root})].output
=============================================================================

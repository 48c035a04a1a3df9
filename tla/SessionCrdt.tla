----------------------------- MODULE SessionCrdt -----------------------------
(***************************************************************************)
(* What a session manager has of the text CRDT (text_crdt.rs), as far as   *)
(* ids and waiting operations go; TextCrdt.tla has the rest of it.  An     *)
(* operation [id, dep, ...] puts one character after the one whose id is   *)
(* dep; a deletion differs only in that nothing is put after it.  A CRDT   *)
(* is the set K of operations it has seen and the set E of those it has    *)
(* applied, which are its text.                                            *)
(***************************************************************************)
EXTENDS Naturals, Sequences, FiniteSets, FiniteSetsExt

\* ParentId::Root.
Root == <<>>

OpIds(ops) == {o.id : o \in ops}

\* The counters of the ids of client cl.
Numbers(cl, ops) == {o.id[2] : o \in {x \in ops : x.id[1] = cl}}

Seen(K, op)      == op.id \in OpIds(K)
HasParent(E, op) == op.dep = Root \/ op.dep \in OpIds(E)

\* apply_operation marks an id as seen; one that was seen is a duplicate,
\* whatever it names.
Learn(K, op) == IF Seen(K, op) THEN K ELSE K \cup {op}

\* pending_inserts and pending_deletes, without those whose id was given to a
\* local edit meanwhile: apply_insert_inner does nothing for them.
Waiting(K, E) == {p \in K : p.id \notin OpIds(E)}

\* A set D of waiting operations that the loop of drain_pending may stop at.
DrainMayStop(E, P, D) == \A p \in P : HasParent(E \cup D, p) => p \in D

Drained(E, P) == {p \in P : \A D \in SUBSET P : DrainMayStop(E, P, D) => p \in D}

\* apply_operation applies an operation that has its parent, and then what
\* waited for it.
Apply(K, E, op) ==
  IF Seen(K, op) \/ ~HasParent(E, op)
  THEN E
  ELSE E \cup {op} \cup Drained(E \cup {op}, Waiting(K, E \cup {op}))
=============================================================================

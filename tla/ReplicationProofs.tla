------------------------- MODULE ReplicationProofs -------------------------
(***************************************************************************)
(* Proofs about Replication, for any set of replicas and any bounds.       *)
(* First, for any set of inserts: what drain_pending applies, the tree     *)
(* that anchors make of inserts, the order of the text and the walk that   *)
(* shows it.  Then the replicas, and last the text that they show: the     *)
(* index of children, the order of the characters and the loop of          *)
(* drain_pending.                                                          *)
(***************************************************************************)
EXTENDS Replication, TLAPS, WellFoundedInduction, FiniteSetTheorems, SequenceTheorems

-----------------------------------------------------------------------------
(* The closure of a set of inserts: those whose chain of anchors is there.  *)

Closure(I) == Drained({}, I)

\* What drain_pending applies is a place where its loop may stop...
LEMMA DrainedMayStop ==
  ASSUME NEW E, NEW P
  PROVE  DrainMayStop(E, P, Drained(E, P))
  BY DEF DrainMayStop, Drained, HasDep, Ids

\* ... and the least one.
LEMMA DrainedIsLeast ==
  ASSUME NEW E, NEW P, NEW D \in SUBSET P, DrainMayStop(E, P, D)
  PROVE  Drained(E, P) \subseteq D
  BY DEF Drained

\* The closure of a larger set contains that of a smaller one.
LEMMA ClosureMonotone ==
  ASSUME NEW I, NEW J, NEW D \in SUBSET J, I \subseteq J, DrainMayStop({}, J, D)
  PROVE  Closure(I) \subseteq D
<1>1. DrainMayStop({}, I, D \cap I)
  BY DEF DrainMayStop, HasDep, Ids
<1> QED
  BY <1>1, DrainedIsLeast DEF Closure

\* An insert whose anchor is missing does not change the closure.
LEMMA ClosureQueued ==
  ASSUME NEW I, NEW op, ~HasDep(Closure(I), op)
  PROVE  Closure(I \cup {op}) = Closure(I)
<1> DEFINE J == I \cup {op}
<1>1. DrainMayStop({}, I, Closure(I)) /\ Closure(I) \subseteq I
  BY DrainedMayStop DEF Closure, Drained
<1>2. DrainMayStop({}, J, Closure(I))
  BY <1>1 DEF DrainMayStop, HasDep, Ids
<1>3. Closure(J) \subseteq Closure(I)
  BY <1>1, <1>2, DrainedIsLeast DEF Closure
<1>4. DrainMayStop({}, J, Closure(J)) /\ Closure(J) \subseteq J
  BY DrainedMayStop DEF Closure, Drained
<1>5. Closure(I) \subseteq Closure(J)
  BY <1>4, ClosureMonotone
<1> QED
  BY <1>3, <1>5

\* An insert whose anchor is there joins the closure together with what
\* drain_pending finds among the inserts outside it.
LEMMA ClosureApplied ==
  ASSUME NEW I, NEW op, HasDep(Closure(I), op)
  PROVE  LET base == Closure(I) \cup {op}
         IN  Closure(I \cup {op}) = base \cup Drained(base, I \ Closure(I))
<1> DEFINE J     == I \cup {op}
           C     == Closure(I)
           base  == C \cup {op}
           P     == I \ C
           whole == base \cup Drained(base, P)
<1>1. DrainMayStop({}, I, C) /\ C \subseteq I
  BY DrainedMayStop DEF Closure, Drained
<1>2. DrainMayStop(base, P, Drained(base, P)) /\ Drained(base, P) \subseteq P
  BY DrainedMayStop DEF Drained
<1>3. DrainMayStop({}, J, whole)
  BY <1>2 DEF DrainMayStop, HasDep, Ids
<1>4. Closure(J) \subseteq whole
  BY <1>1, <1>2, <1>3, DrainedIsLeast DEF Closure
<1>5. DrainMayStop({}, J, Closure(J)) /\ Closure(J) \subseteq J
  BY DrainedMayStop DEF Closure, Drained
<1>6. C \subseteq Closure(J)
  BY <1>5, ClosureMonotone
<1>7. op \in Closure(J)
  BY <1>5, <1>6 DEF DrainMayStop, HasDep, Ids
<1>8. DrainMayStop(base, P, Closure(J) \cap P)
  BY <1>5, <1>6, <1>7 DEF DrainMayStop, HasDep, Ids
<1>9. Drained(base, P) \subseteq Closure(J)
  BY <1>8, DrainedIsLeast
<1> QED
  BY <1>4, <1>6, <1>7, <1>9

\* Nothing is drained out of nothing.
LEMMA ClosureOfNothing == Closure({}) = {}
  BY DEF Closure, Drained

\* Where ids are unique, the early return of apply_insert_inner changes nothing.
LEMMA AddElementsIsUnion ==
  ASSUME NEW E, NEW ops, \A o, p \in E \cup ops : o.opId = p.opId => o = p
  PROVE  AddElements(E, ops) = E \cup ops
  BY DEF AddElements, Ids

-----------------------------------------------------------------------------
(* A chain of inserts, as a local edit makes it.                           *)

ChainOp(c, r, anchor, k) ==
  [type |-> "insert", opId |-> Id(c + k, r), dep |-> IF k = 1 THEN anchor ELSE Id(c + k - 1, r)]

Chain(c, r, anchor, n) == {ChainOp(c, r, anchor, k) : k \in 1..n}

\* A non-empty set of numbers has a least element.
LEMMA LeastNumber ==
  ASSUME NEW T \in SUBSET Nat, T # {}
  PROVE  \E x \in T : \A y \in T : x <= y
<1>1. PICK x \in T : \A y \in T : <<y, x>> \notin OpToRel(<, Nat)
  BY NatLessThanWellFounded, WFMin
<1>2. \A y \in T : ~(y < x)
  BY <1>1 DEF OpToRel
<1> QED
  BY <1>2

\* A set with the anchor that is closed under "its anchor is there" has the
\* whole chain: there is no first operation of the chain that it lacks.
LEMMA ChainIsReached ==
  ASSUME NEW c \in Nat, NEW r, NEW anchor, NEW n \in Nat, NEW D, NEW J,
         Chain(c, r, anchor, n) \subseteq J,
         DrainMayStop({}, J, D),
         anchor = Root \/ anchor \in Ids(D)
  PROVE  Chain(c, r, anchor, n) \subseteq D
<1> DEFINE Lacking == {k \in 1..n : ChainOp(c, r, anchor, k) \notin D}
<1>1. SUFFICES ASSUME Lacking # {} PROVE FALSE
  BY DEF Chain
<1>2. PICK k \in Lacking : \A j \in Lacking : k <= j
  <2>1. Lacking \in SUBSET Nat
    OBVIOUS
  <2> QED
    BY <2>1, <1>1, LeastNumber
<1>3. ChainOp(c, r, anchor, k) \in J
  BY DEF Chain
<1>4. HasDep(D, ChainOp(c, r, anchor, k))
  <2>1. CASE k = 1
    BY <2>1 DEF HasDep, ChainOp
  <2>2. CASE k # 1
    <3>1. k - 1 \in 1..n /\ k - 1 \notin Lacking
      BY <2>2, <1>2
    <3>2. ChainOp(c, r, anchor, k - 1) \in D
      BY <3>1
    <3>3. ChainOp(c, r, anchor, k - 1).opId = Id(c + k - 1, r)
      BY <3>1 DEF ChainOp, Id
    <3>4. ChainOp(c, r, anchor, k).dep = Id(c + k - 1, r)
      BY <2>2 DEF ChainOp
    <3> QED
      BY <3>2, <3>3, <3>4 DEF HasDep, Ids
  <2> QED
    BY <2>1, <2>2
<1>5. HasDep({} \cup D, ChainOp(c, r, anchor, k))
  BY <1>4
<1> QED
  BY <1>2, <1>3, <1>5 DEF DrainMayStop

\* A chain hung on a character of the closure joins the closure as it is, when
\* no other insert is anchored to one of its characters.
LEMMA ClosureOfLocalInsert ==
  ASSUME NEW I, NEW c \in Nat, NEW r, NEW anchor, NEW n \in Nat,
         anchor = Root \/ anchor \in Ids(Closure(I)),
         \A p \in I : p.dep = Root \/ p.dep \notin Ids(Chain(c, r, anchor, n))
  PROVE  Closure(I \cup Chain(c, r, anchor, n)) = Closure(I) \cup Chain(c, r, anchor, n)
<1> DEFINE ops   == Chain(c, r, anchor, n)
           J     == I \cup ops
           whole == Closure(I) \cup ops
<1>1. DrainMayStop({}, I, Closure(I)) /\ Closure(I) \subseteq I
  BY DrainedMayStop DEF Closure, Drained
<1>2. DrainMayStop({}, J, whole)
  <2> SUFFICES ASSUME NEW p \in I, HasDep(whole, p) PROVE p \in whole
    BY DEF DrainMayStop
  <2>1. HasDep(Closure(I), p)
    BY DEF HasDep, Ids
  <2> QED
    BY <2>1, <1>1 DEF DrainMayStop, HasDep, Ids
<1>3. Closure(J) \subseteq whole
  BY <1>1, <1>2, DrainedIsLeast DEF Closure
<1>4. DrainMayStop({}, J, Closure(J)) /\ Closure(J) \subseteq J
  BY DrainedMayStop DEF Closure, Drained
<1>5. Closure(I) \subseteq Closure(J)
  BY <1>4, ClosureMonotone
<1>6. anchor = Root \/ anchor \in Ids(Closure(J))
  BY <1>5 DEF Ids
<1>7. ops \subseteq Closure(J)
  BY <1>4, <1>6, ChainIsReached
<1> QED
  BY <1>3, <1>5, <1>7

-----------------------------------------------------------------------------
(* The greatest number of a bounded set.                                   *)

LEMMA MaxOfBounded ==
  ASSUME NEW S \in SUBSET Nat, S # {}, NEW b \in Nat, \A x \in S : x <= b
  PROVE  Max(S) \in S /\ \A x \in S : x <= Max(S)
<1> DEFINE Bounds == {u \in Nat : \A x \in S : x <= u}
<1>1. PICK u \in Bounds : \A v \in Bounds : u <= v
  BY LeastNumber
<1>2. u \in S
  <2> SUFFICES ASSUME u \notin S PROVE FALSE
    OBVIOUS
  <2>1. PICK x \in S : TRUE
    OBVIOUS
  <2>2. u # 0
    BY <2>1, <1>1
  <2>3. u - 1 \in Bounds
    BY <2>2, <1>1
  <2> QED
    BY <2>3, <1>1
<1>3. \E m \in S : \A y \in S : m >= y
  BY <1>1, <1>2
<1> QED
  BY <1>3 DEF Max

LEMMA MaxCounterForBounds ==
  ASSUME NEW r, NEW ids, \A id \in ids : id.counter \in Nat,
         NEW b \in Nat, \A id \in ids : id.counter <= b
  PROVE  /\ MaxCounterFor(r, ids) \in Nat
         /\ MaxCounterFor(r, ids) <= b
         /\ \A id \in ids : id.replica = r => id.counter <= MaxCounterFor(r, ids)
<1> DEFINE S == {0} \cup {id.counter : id \in {i \in ids : i.replica = r}}
<1>1. S \in SUBSET Nat /\ S # {} /\ \A x \in S : x <= b
  OBVIOUS
<1>2. Max(S) \in S /\ \A x \in S : x <= Max(S)
  BY <1>1, MaxOfBounded
<1>3. MaxCounterFor(r, ids) = Max(S)
  BY DEF MaxCounterFor
<1> QED
  BY <1>1, <1>2, <1>3

-----------------------------------------------------------------------------
(* The tree of inserts: each hangs on the one it is anchored to.           *)

\* Inserts as a replica holds them: no id twice, and each has its chain of
\* anchors down to the root.
IsTree(E) ==
  /\ \A p, q \in E : p.opId = q.opId => p = q
  /\ Root \notin Ids(E)
  /\ Closure(E) = E

HoldsBelow(E, a, D) == a \in D /\ \A p \in E : p.dep \in D => p.opId \in D

\* What hangs on a, directly or not, and a itself.
Below(E, a) == {x \in Ids(E) \cup {a} : \A D \in SUBSET (Ids(E) \cup {a}) : HoldsBelow(E, a, D) => x \in D}

LEMMA BelowIsClosed ==
  ASSUME NEW E, NEW a
  PROVE  /\ HoldsBelow(E, a, Below(E, a))
         /\ Below(E, a) \subseteq Ids(E) \cup {a}
  BY DEF HoldsBelow, Below, Ids

LEMMA BelowIsLeast ==
  ASSUME NEW E, NEW a, NEW D, HoldsBelow(E, a, D)
  PROVE  Below(E, a) \subseteq D
<1>1. HoldsBelow(E, a, D \cap (Ids(E) \cup {a}))
  BY DEF HoldsBelow, Ids
<1> QED
  BY <1>1 DEF Below

LEMMA BelowIsTransitive ==
  ASSUME NEW E, NEW a, NEW x \in Below(E, a)
  PROVE  Below(E, x) \subseteq Below(E, a)
<1>1. HoldsBelow(E, x, Below(E, a))
  BY BelowIsClosed DEF HoldsBelow
<1> QED
  BY <1>1, BelowIsLeast

\* Everything below a but a itself hangs on something below a.
LEMMA BelowHangs ==
  ASSUME NEW E, NEW a, NEW x \in Below(E, a), x # a
  PROVE  \E p \in E : p.opId = x /\ p.dep \in Below(E, a)
<1> DEFINE D == {a} \cup {p.opId : p \in {q \in E : q.dep \in Below(E, a)}}
<1>1. HoldsBelow(E, a, D)
  <2>1. D \subseteq Below(E, a)
    BY BelowIsClosed DEF HoldsBelow
  <2> QED
    BY <2>1 DEF HoldsBelow
<1>2. x \in D
  BY <1>1, BelowIsLeast
<1> QED
  BY <1>2

\* ... and is below a child of a.
LEMMA BelowThroughChild ==
  ASSUME NEW E, NEW a, NEW x \in Below(E, a), x # a
  PROVE  \E p \in E : p.dep = a /\ x \in Below(E, p.opId)
<1> DEFINE D == {a} \cup UNION {Below(E, p.opId) : p \in {q \in E : q.dep = a}}
<1>1. HoldsBelow(E, a, D)
  <2>1. a \in D
    OBVIOUS
  <2>2. ASSUME NEW p \in E, p.dep \in D PROVE p.opId \in D
    <3>1. CASE p.dep = a
      BY <3>1, BelowIsClosed DEF HoldsBelow
    <3>2. CASE p.dep # a
      <4>1. PICK q \in E : q.dep = a /\ p.dep \in Below(E, q.opId)
        BY <3>2, <2>2
      <4>2. p.opId \in Below(E, q.opId)
        BY <4>1, BelowIsClosed DEF HoldsBelow
      <4> QED
        BY <4>1, <4>2
    <3> QED
      BY <3>1, <3>2
  <2> QED
    BY <2>1, <2>2 DEF HoldsBelow
<1>2. x \in D
  BY <1>1, BelowIsLeast
<1> QED
  BY <1>2

LEMMA BelowMonotone ==
  ASSUME NEW E, NEW I, E \subseteq I, NEW a
  PROVE  Below(E, a) \subseteq Below(I, a)
<1>1. HoldsBelow(E, a, Below(I, a))
  BY BelowIsClosed DEF HoldsBelow
<1> QED
  BY <1>1, BelowIsLeast

\* No insert is below what hangs on it: chains of anchors end at the root.
LEMMA NoCycle ==
  ASSUME NEW E, IsTree(E), NEW p \in E
  PROVE  p.dep \notin Below(E, p.opId)
<1> DEFINE D == {q \in E : q.dep \notin Below(E, q.opId)}
<1>1. ASSUME NEW q \in E, HasDep({} \cup D, q) PROVE q \in D
  <2>1. CASE q.dep = Root
    BY <2>1, BelowIsClosed DEF IsTree, Ids
  <2>2. CASE q.dep # Root
    <3>1. PICK o \in D : q.dep = o.opId
      BY <2>2, <1>1 DEF HasDep, Ids
    <3>2. SUFFICES ASSUME o.opId \in Below(E, q.opId) PROVE q \in D
      BY <3>1
    <3>3. CASE o.opId = q.opId
      BY <3>1, <3>3 DEF IsTree
    <3>4. CASE o.opId # q.opId
      <4>1. o.dep \in Below(E, q.opId)
        BY <3>2, <3>4, BelowHangs DEF IsTree
      <4>2. q.opId \in Below(E, o.opId)
        BY <3>1, BelowIsClosed DEF HoldsBelow
      <4>3. o.dep \in Below(E, o.opId)
        BY <4>1, <4>2, BelowIsTransitive
      <4> QED
        BY <4>3
    <3> QED
      BY <3>3, <3>4
  <2> QED
    BY <2>1, <2>2
<1>2. DrainMayStop({}, E, D)
  BY <1>1 DEF DrainMayStop
<1>3. E \subseteq D
  BY <1>2, DrainedIsLeast DEF IsTree, Closure
<1> QED
  BY <1>3

LEMMA BelowAntisymmetric ==
  ASSUME NEW E, IsTree(E), NEW x, NEW y \in Below(E, x), x \in Below(E, y)
  PROVE  x = y
<1> SUFFICES ASSUME x # y PROVE FALSE
  OBVIOUS
<1>1. PICK p \in E : p.dep = x /\ y \in Below(E, p.opId)
  BY BelowThroughChild
<1>2. x \in Below(E, p.opId)
  BY <1>1, BelowIsTransitive
<1> QED
  BY <1>1, <1>2, NoCycle

\* Of two that have something below both, one is below the other.
LEMMA BelowIsChain ==
  ASSUME NEW E, IsTree(E), NEW x, NEW y, NEW z \in Below(E, x) \cap Below(E, y)
  PROVE  x \in Below(E, y) \/ y \in Below(E, x)
<1> SUFFICES ASSUME y \notin Below(E, x) PROVE x \in Below(E, y)
  OBVIOUS
<1> DEFINE D == {w \in Below(E, x) : w \in Below(E, y) => x \in Below(E, y)}
<1>1. ASSUME NEW p \in E, p.dep \in D PROVE p.opId \in D
  <2>1. p.opId \in Below(E, x)
    BY <1>1, BelowIsClosed DEF HoldsBelow
  <2>2. ASSUME p.opId \in Below(E, y) PROVE x \in Below(E, y)
    <3>1. p.opId # y
      BY <2>1
    <3>2. p.dep \in Below(E, y)
      BY <2>2, <3>1, BelowHangs DEF IsTree
    <3> QED
      BY <3>2, <1>1
  <2> QED
    BY <2>1, <2>2
<1>2. x \in D
  BY BelowIsClosed DEF HoldsBelow
<1>3. HoldsBelow(E, x, D)
  BY <1>1, <1>2 DEF HoldsBelow
<1> QED
  BY <1>3, BelowIsLeast

\* Nothing is below two siblings.
LEMMA SiblingsAreApart ==
  ASSUME NEW E, IsTree(E), NEW u \in E, NEW v \in E, u.dep = v.dep,
         NEW z \in Below(E, u.opId) \cap Below(E, v.opId)
  PROVE  u = v
<1>1. ASSUME NEW p \in E, NEW q \in E, p.dep = q.dep, p.opId \in Below(E, q.opId)
      PROVE  p = q
  <2> SUFFICES ASSUME p.opId # q.opId PROVE FALSE
    BY <1>1 DEF IsTree
  <2>1. p.dep \in Below(E, q.opId)
    BY <1>1, BelowHangs DEF IsTree
  <2> QED
    BY <2>1, <1>1, NoCycle
<1>2. u.opId \in Below(E, v.opId) \/ v.opId \in Below(E, u.opId)
  BY BelowIsChain
<1> QED
  BY <1>1, <1>2

-----------------------------------------------------------------------------
(* The order of the text: a character comes before what hangs on it, and   *)
(* everything that hangs on it before its lesser siblings.                 *)

Before(E, a, b) ==
  \/ b \in Below(E, a) /\ a # b
  \/ \E u, v \in E : /\ u.dep = v.dep
                     /\ ComesFirst(u.opId, v.opId)
                     /\ a \in Below(E, u.opId)
                     /\ b \in Below(E, v.opId)

HasNumbers(E) == \A p \in E : p.opId \in [counter : Nat, replica : Nat]

LEMMA ComesFirstIsOrder ==
  ASSUME NEW S, \A x \in S : x \in [counter : Nat, replica : Nat]
  PROVE  /\ \A x \in S : ~ComesFirst(x, x)
         /\ \A x, y \in S : ~(ComesFirst(x, y) /\ ComesFirst(y, x))
         /\ \A x, y, z \in S : ComesFirst(x, y) /\ ComesFirst(y, z) => ComesFirst(x, z)
         /\ \A x, y \in S : x # y => ComesFirst(x, y) \/ ComesFirst(y, x)
  BY DEF ComesFirst

LEMMA BeforeMonotone ==
  ASSUME NEW E, NEW I, E \subseteq I, NEW a, NEW b, Before(E, a, b)
  PROVE  Before(I, a, b)
  BY BelowMonotone DEF Before

\* The order has no two sides: this is what makes texts of replicas agree.
LEMMA BeforeAsymmetric ==
  ASSUME NEW E, IsTree(E), HasNumbers(E), NEW a, NEW b, Before(E, a, b), Before(E, b, a)
  PROVE  FALSE
<1>1. \A u, v \in E : ComesFirst(u.opId, v.opId) => u # v /\ ~ComesFirst(v.opId, u.opId)
  BY DEF HasNumbers, ComesFirst
<1>2. ASSUME NEW x, NEW y, NEW u \in E, NEW v \in E, u.dep = v.dep, u # v,
             x \in Below(E, u.opId), y \in Below(E, v.opId), y \in Below(E, x)
      PROVE  FALSE
  <2>1. y \in Below(E, u.opId)
    BY <1>2, BelowIsTransitive
  <2> QED
    BY <2>1, <1>2, SiblingsAreApart
<1>3. CASE b \in Below(E, a) /\ a # b
  BY <1>1, <1>2, <1>3, BelowAntisymmetric DEF Before
<1>4. CASE a \in Below(E, b) /\ a # b
  BY <1>1, <1>2, <1>4, BelowAntisymmetric DEF Before
<1>5. ASSUME NEW u \in E, NEW v \in E, NEW s \in E, NEW t \in E,
             u.dep = v.dep, ComesFirst(u.opId, v.opId),
             a \in Below(E, u.opId), b \in Below(E, v.opId),
             s.dep = t.dep, ComesFirst(s.opId, t.opId),
             b \in Below(E, s.opId), a \in Below(E, t.opId)
      PROVE  FALSE
  \* a is below u and t, so one of these is below the other.
  <2>1. CASE u = t
    <3>1. v = s
      BY <2>1, <1>5, SiblingsAreApart
    <3> QED
      BY <2>1, <3>1, <1>1, <1>5
  <2>2. ASSUME NEW p \in E, NEW q \in E, NEW m \in E, NEW n \in E,
               p.dep = q.dep, m.dep = n.dep, m # n, p # n,
               p.opId \in Below(E, n.opId),
               b \in Below(E, q.opId), b \in Below(E, m.opId)
        PROVE  FALSE
    <3>1. p.opId # n.opId
      BY <2>2 DEF IsTree
    <3>2. p.dep \in Below(E, n.opId)
      BY <3>1, <2>2, BelowHangs DEF IsTree
    <3>3. q.opId \in Below(E, n.opId)
      BY <3>2, <2>2, BelowIsClosed DEF HoldsBelow
    <3>4. b \in Below(E, n.opId)
      BY <3>3, <2>2, BelowIsTransitive
    <3> QED
      BY <3>4, <2>2, SiblingsAreApart
  <2>3. CASE u # t /\ u.opId \in Below(E, t.opId)
    BY <2>3, <2>2, <1>1, <1>5
  <2>4. CASE u # t /\ t.opId \in Below(E, u.opId)
    BY <2>4, <2>2, <1>1, <1>5
  <2> QED
    BY <2>1, <2>3, <2>4, <1>5, BelowIsChain
<1> QED
  BY <1>3, <1>4, <1>5 DEF Before

-----------------------------------------------------------------------------
(* Sorting siblings.                                                       *)

Ahead(ids, x) == {y \in ids : ComesFirst(y, x)}

\* The number of ids ahead of x tells the ids apart, and each number up to the
\* number of ids is that of one of them.
LEMMA RankIsBijection ==
  ASSUME NEW ids, IsFiniteSet(ids), \A x \in ids : x \in [counter : Nat, replica : Nat]
  PROVE  /\ Cardinality(ids) \in Nat
         /\ \A x \in ids : Cardinality(Ahead(ids, x)) \in 0..Cardinality(ids) - 1
         /\ \A x, y \in ids : ComesFirst(x, y) => Cardinality(Ahead(ids, x)) < Cardinality(Ahead(ids, y))
         /\ \A i \in 1..Cardinality(ids) : \E x \in ids : Cardinality(Ahead(ids, x)) = i - 1
<1> DEFINE n == Cardinality(ids)
           rank == [x \in ids |-> Cardinality(Ahead(ids, x)) + 1]
<1>1. n \in Nat
  BY FS_CardinalityType
<1>2. ASSUME NEW x \in ids
      PROVE  IsFiniteSet(Ahead(ids, x)) /\ Cardinality(Ahead(ids, x)) \in 0..n - 1
  <2>1. Ahead(ids, x) \in SUBSET (ids \ {x})
    BY ComesFirstIsOrder DEF Ahead
  <2>2. IsFiniteSet(ids \ {x}) /\ Cardinality(ids \ {x}) = n - 1
    BY FS_RemoveElement
  <2>3. IsFiniteSet(Ahead(ids, x)) /\ Cardinality(Ahead(ids, x)) <= n - 1
    BY <2>1, <2>2, FS_Subset
  <2>4. Cardinality(Ahead(ids, x)) \in Nat
    BY <2>3, FS_CardinalityType
  <2> QED
    BY <1>1, <2>3, <2>4
<1>3. ASSUME NEW x \in ids, NEW y \in ids, ComesFirst(x, y)
      PROVE  Cardinality(Ahead(ids, x)) < Cardinality(Ahead(ids, y))
  <2>1. Ahead(ids, x) \cup {x} \in SUBSET Ahead(ids, y) /\ x \notin Ahead(ids, x)
    BY <1>3, ComesFirstIsOrder DEF Ahead
  <2>2. Cardinality(Ahead(ids, x) \cup {x}) = Cardinality(Ahead(ids, x)) + 1
    BY <2>1, <1>2, FS_AddElement
  <2>3. Cardinality(Ahead(ids, x) \cup {x}) <= Cardinality(Ahead(ids, y))
    BY <2>1, <1>2, FS_Subset
  <2>4. Cardinality(Ahead(ids, x)) \in Nat /\ Cardinality(Ahead(ids, y)) \in Nat
    BY <1>2, <1>1
  <2> QED
    BY <2>2, <2>3, <2>4
<1>4. rank \in Injection(ids, 1..n)
  <2>1. rank \in [ids -> 1..n]
    BY <1>1, <1>2
  <2>2. ASSUME NEW x \in ids, NEW y \in ids, rank[x] = rank[y] PROVE x = y
    <3>1. Cardinality(Ahead(ids, x)) = Cardinality(Ahead(ids, y))
      BY <2>2, <1>1, <1>2
    <3>2. ~ComesFirst(x, y) /\ ~ComesFirst(y, x)
      BY <3>1, <1>1, <1>2, <1>3
    <3> QED
      BY <3>2, ComesFirstIsOrder
  <2> QED
    BY <2>1, <2>2 DEF Injection, IsInjective
<1>5. IsFiniteSet(1..n) /\ Cardinality(1..n) = n
  <2>1. 1 \in Int /\ n \in Int
    BY <1>1
  <2> HIDE DEF n
  <2>2. IsFiniteSet(1..n) /\ Cardinality(1..n) = IF 1 > n THEN 0 ELSE n - 1 + 1
    BY <2>1, FS_Interval
  <2> QED
    BY <1>1, <2>2
<1>6. rank \in Surjection(ids, 1..n)
  BY <1>4, <1>5, FS_Injection
<1>7. ASSUME NEW i \in 1..n PROVE \E x \in ids : Cardinality(Ahead(ids, x)) = i - 1
  <2>1. PICK x \in ids : rank[x] = i
    BY <1>6 DEF Surjection
  <2> QED
    BY <2>1, <1>2, <1>1
<1> QED
  BY <1>1, <1>2, <1>3, <1>7

\* The sorted siblings are the ids, each once, the first first.
LEMMA SortSiblingsSorts ==
  ASSUME NEW ids, IsFiniteSet(ids), \A x \in ids : x \in [counter : Nat, replica : Nat]
  PROVE  /\ Cardinality(ids) \in Nat
         /\ SortSiblings(ids) \in [1..Cardinality(ids) -> ids]
         /\ SortSiblings(ids) \in Seq(ids)
         /\ Len(SortSiblings(ids)) = Cardinality(ids)
         /\ ToSet(SortSiblings(ids)) = ids
         /\ \A i, j \in 1..Cardinality(ids) : i < j => ComesFirst(SortSiblings(ids)[i], SortSiblings(ids)[j])
<1> DEFINE n == Cardinality(ids)
           s == SortSiblings(ids)
<1>1. n \in Nat
  BY RankIsBijection
<1>2. ASSUME NEW i \in 1..n PROVE s[i] \in ids /\ Cardinality(Ahead(ids, s[i])) = i - 1
  <2>1. \E x \in ids : Cardinality(Ahead(ids, x)) = i - 1
    BY RankIsBijection
  <2> QED
    BY <2>1 DEF SortSiblings, Ahead
<1>3. s \in [1..n -> ids]
  BY <1>2 DEF SortSiblings
<1>4. s \in Seq(ids) /\ Len(s) = n
  BY <1>1, <1>3
<1>5. ASSUME NEW x \in ids PROVE \E i \in 1..n : s[i] = x
  <2>1. Cardinality(Ahead(ids, x)) \in 0..n - 1
    BY RankIsBijection
  <2> DEFINE i == Cardinality(Ahead(ids, x)) + 1
  <2>2. i \in 1..n
    BY <1>1, <2>1
  <2>3. s[i] \in ids /\ Cardinality(Ahead(ids, s[i])) = Cardinality(Ahead(ids, x))
    BY <1>2, <2>1, <2>2
  <2>4. ~ComesFirst(x, s[i]) /\ ~ComesFirst(s[i], x)
    <3> HIDE DEF i
    <3> QED
      BY <2>1, <2>3, RankIsBijection
  <2>5. s[i] = x
    BY <2>3, <2>4, ComesFirstIsOrder
  <2> QED
    BY <2>2, <2>5
<1>6. ASSUME NEW i \in 1..n, NEW j \in 1..n, i < j PROVE ComesFirst(s[i], s[j])
  <2>1. s[i] # s[j]
    BY <1>1, <1>2, <1>6
  <2>2. ~ComesFirst(s[j], s[i])
    BY <1>1, <1>2, <1>6, RankIsBijection
  <2> QED
    BY <2>1, <2>2, <1>2, ComesFirstIsOrder
<1> QED
  BY <1>1, <1>3, <1>4, <1>5, <1>6 DEF ToSet

-----------------------------------------------------------------------------
(* The walk over the children index.                                       *)

\* The turns are what they are defined to be: the recursion has a solution.
LEMMA WalkTurns ==
  ASSUME NEW ch, NEW dead, Cardinality(DOMAIN ch \ {Root}) \in Nat
  PROVE  /\ Walk(ch, dead)[0] = WalkStart(ch)
         /\ \A n \in 1..Cardinality(DOMAIN ch \ {Root}) :
              Walk(ch, dead)[n] = IF Walk(ch, dead)[n - 1].stack = <<>>
                                  THEN Walk(ch, dead)[n - 1]
                                  ELSE WalkTurn(ch, dead, Walk(ch, dead)[n - 1])
<1> DEFINE size == Cardinality(DOMAIN ch \ {Root})
           step(st) == IF st.stack = <<>> THEN st ELSE WalkTurn(ch, dead, st)
           solves(t, m) == t = [n \in 0..m |-> IF n = 0 THEN WalkStart(ch) ELSE step(t[n - 1])]
           unsolved == {m \in 0..size : ~\E t : solves(t, m)}
<1>1. unsolved = {}
  <2> SUFFICES ASSUME unsolved # {} PROVE FALSE
    OBVIOUS
  <2>1. PICK m \in unsolved : \A k \in unsolved : m <= k
    <3> HIDE DEF solves
    <3>1. unsolved \in SUBSET Nat
      OBVIOUS
    <3> HIDE DEF unsolved
    <3> QED
      BY <3>1, LeastNumber
  <2>2. CASE m = 0
    <3>1. solves([n \in 0..0 |-> WalkStart(ch)], 0)
      OBVIOUS
    <3> QED
      BY <3>1, <2>1, <2>2
  <2>3. CASE m # 0
    <3>1. m - 1 \in 0..size /\ m - 1 \notin unsolved
      <4> HIDE DEF solves
      <4> QED
        BY <2>1, <2>3
    <3>2. PICK t : solves(t, m - 1)
      BY <3>1
    <3> DEFINE u == [n \in 0..m |-> IF n <= m - 1 THEN t[n] ELSE step(t[m - 1])]
    <3>3. ASSUME NEW n \in 0..m
          PROVE  u[n] = IF n = 0 THEN WalkStart(ch) ELSE step(u[n - 1])
      <4> HIDE DEF step
      <4>1. CASE n = m
        BY <2>1, <2>3, <4>1
      <4>2. CASE n # m
        BY <2>1, <2>3, <3>2, <4>2
      <4> QED
        BY <4>1, <4>2
    <3>4. solves(u, m)
      <4> HIDE DEF step
      <4> QED
        BY <3>3
    <3> QED
      BY <2>1, <3>4
  <2> QED
    BY <2>2, <2>3
<1>2. \E t : solves(t, size)
  <2> HIDE DEF solves
  <2> QED
    BY <1>1
<1>3. solves(Walk(ch, dead), size)
  BY <1>2 DEF Walk
<1> HIDE DEF step
<1>4. \A n \in 0..size : Walk(ch, dead)[n] = IF n = 0 THEN WalkStart(ch) ELSE step(Walk(ch, dead)[n - 1])
  BY <1>3
<1>5. Walk(ch, dead)[0] = WalkStart(ch)
  <2>1. 0 \in 0..size
    OBVIOUS
  <2> QED
    BY <1>4, <2>1
<1>6. \A n \in 1..size : Walk(ch, dead)[n] = step(Walk(ch, dead)[n - 1])
  BY <1>4
<1> QED
  BY <1>5, <1>6 DEF step

\* The index of children that belongs to the inserts of E.
ChildIds(E, k) == Ids({e \in E : e.dep = k})

IsIndex(E, ch) ==
  /\ DOMAIN ch = {Root} \cup Ids(E)
  /\ \A k \in {Root} \cup Ids(E) : ch[k] = SortSiblings(ChildIds(E, k))

\* What the walk has still to pop: all that is below an id on the stack.
Rest(E, stack) == UNION {Below(E, stack[i]) : i \in DOMAIN stack}

\* The ids popped so far were output unless they are deleted, in order, and come
\* before the rest; and so does all below an id on the stack before all below the
\* ids under it.
WalkInv(E, dead, st) ==
  /\ st.stack \in Seq(Ids(E))
  /\ st.output \in Seq(Ids(E))
  /\ ToSet(st.output) = (Ids(E) \ Rest(E, st.stack)) \ dead
  /\ \A i, j \in DOMAIN st.output : i < j => Before(E, st.output[i], st.output[j])
  /\ \A i \in DOMAIN st.output : \A y \in Rest(E, st.stack) : Before(E, st.output[i], y)
  /\ \A i, j \in DOMAIN st.stack : i < j =>
       \A x \in Below(E, st.stack[j]), y \in Below(E, st.stack[i]) : Before(E, x, y)

\* The children of k as the walk pushes them.
LEMMA PushedChildren ==
  ASSUME NEW E, IsTree(E), HasNumbers(E), IsFiniteSet(Ids(E)),
         NEW ch, IsIndex(E, ch), NEW k \in {Root} \cup Ids(E)
  PROVE  LET kids == Reverse(ch[k])
         IN  /\ kids \in Seq(Ids(E))
             /\ ToSet(kids) = ChildIds(E, k)
             /\ \A i, j \in DOMAIN kids : i < j =>
                  \A x \in Below(E, kids[j]), y \in Below(E, kids[i]) : Before(E, x, y)
<1> DEFINE ids  == ChildIds(E, k)
           n    == Cardinality(ids)
           s    == SortSiblings(ids)
           kids == Reverse(ch[k])
<1>1. ids \in SUBSET Ids(E) /\ IsFiniteSet(ids)
  <2>1. ids \in SUBSET Ids(E)
    BY DEF ChildIds, Ids
  <2> QED
    BY <2>1, FS_Subset
<1>2. \A x \in ids : x \in [counter : Nat, replica : Nat]
  BY DEF ChildIds, Ids, HasNumbers
<1>3. /\ n \in Nat /\ s \in [1..n -> ids] /\ Len(s) = n /\ ToSet(s) = ids
      /\ \A i, j \in 1..n : i < j => ComesFirst(s[i], s[j])
  BY <1>1, <1>2, SortSiblingsSorts
<1>4. ch[k] = s
  BY DEF IsIndex
<1> HIDE DEF n, s, ids
<1>5. kids \in [1..n -> ids] /\ DOMAIN kids = 1..n /\ \A i \in 1..n : kids[i] = s[n - i + 1] /\ n - i + 1 \in 1..n
  BY <1>3, <1>4 DEF Reverse
<1>6. kids \in Seq(Ids(E))
  BY <1>1, <1>3, <1>5
<1>7. ToSet(kids) = ids
  <2>1. ASSUME NEW x \in ids PROVE \E i \in 1..n : kids[i] = x
    <3>1. PICK j \in 1..n : s[j] = x
      BY <1>3 DEF ToSet
    <3>2. n - j + 1 \in 1..n /\ n - (n - j + 1) + 1 = j
      BY <1>3
    <3> QED
      BY <1>5, <3>1, <3>2
  <2> QED
    BY <1>5, <2>1 DEF ToSet
<1>8. ASSUME NEW i \in DOMAIN kids, NEW j \in DOMAIN kids, i < j,
             NEW x \in Below(E, kids[j]), NEW y \in Below(E, kids[i])
      PROVE  Before(E, x, y)
  <2>1. ComesFirst(kids[j], kids[i]) /\ kids[i] \in ids /\ kids[j] \in ids
    BY <1>3, <1>5, <1>8
  <2> HIDE DEF kids
  <2>2. PICK u \in E : u.dep = k /\ u.opId = kids[j]
    BY <2>1 DEF ids, ChildIds, Ids
  <2>3. PICK v \in E : v.dep = k /\ v.opId = kids[i]
    BY <2>1 DEF ids, ChildIds, Ids
  <2> QED
    BY <2>1, <2>2, <2>3, <1>8 DEF Before
<1> QED
  BY <1>6, <1>7, <1>8 DEF ids

\* All ids are below the children of the root.
LEMMA AllBelowRoot ==
  ASSUME NEW E, IsTree(E), NEW x \in Ids(E)
  PROVE  \E c \in ChildIds(E, Root) : x \in Below(E, c)
<1> DEFINE D == {p \in E : \E c \in ChildIds(E, Root) : p.opId \in Below(E, c)}
<1>1. ASSUME NEW p \in E, HasDep({} \cup D, p) PROVE p \in D
  <2>1. CASE p.dep = Root
    <3>1. p.opId \in ChildIds(E, Root)
      BY <2>1 DEF ChildIds, Ids
    <3> QED
      BY <3>1, BelowIsClosed DEF HoldsBelow
  <2>2. CASE p.dep # Root
    <3>1. PICK q \in D : q.opId = p.dep
      BY <1>1, <2>2 DEF HasDep, Ids
    <3>2. PICK c \in ChildIds(E, Root) : p.dep \in Below(E, c)
      BY <3>1
    <3>3. p.opId \in Below(E, c)
      BY <3>2, BelowIsClosed DEF HoldsBelow
    <3> QED
      BY <3>3
  <2> QED
    BY <2>1, <2>2
<1>2. DrainMayStop({}, E, D)
  BY <1>1 DEF DrainMayStop
<1>3. E \subseteq D
  BY <1>2, DrainedIsLeast DEF IsTree, Closure
<1> QED
  BY <1>3 DEF Ids

LEMMA WalkInvStart ==
  ASSUME NEW E, IsTree(E), HasNumbers(E), IsFiniteSet(Ids(E)), NEW dead,
         NEW ch, IsIndex(E, ch)
  PROVE  /\ WalkInv(E, dead, WalkStart(ch))
         /\ Rest(E, WalkStart(ch).stack) = Ids(E)
<1> DEFINE kids == Reverse(ch[Root])
<1>1. /\ kids \in Seq(Ids(E)) /\ ToSet(kids) = ChildIds(E, Root)
      /\ \A i, j \in DOMAIN kids : i < j =>
           \A x \in Below(E, kids[j]), y \in Below(E, kids[i]) : Before(E, x, y)
  BY PushedChildren
<1> HIDE DEF kids
<1>2. Rest(E, kids) = Ids(E)
  <2>1. ASSUME NEW x \in Ids(E) PROVE x \in Rest(E, kids)
    <3>1. PICK c \in ToSet(kids) : x \in Below(E, c)
      BY <1>1, AllBelowRoot
    <3> QED
      BY <3>1 DEF Rest, ToSet
  <2>2. ASSUME NEW i \in DOMAIN kids PROVE Below(E, kids[i]) \subseteq Ids(E)
    BY <1>1, BelowIsClosed
  <2> QED
    BY <2>1, <2>2 DEF Rest
<1>3. WalkStart(ch) = [stack |-> kids, output |-> <<>>]
  BY DEF WalkStart, kids
<1>4. <<>> \in Seq(Ids(E)) /\ ToSet(<<>>) = {} /\ DOMAIN <<>> = {}
  BY DEF ToSet
<1> QED
  BY <1>1, <1>2, <1>3, <1>4 DEF WalkInv

LEMMA WalkInvTurn ==
  ASSUME NEW E, IsTree(E), HasNumbers(E), IsFiniteSet(Ids(E)), NEW dead,
         NEW ch, IsIndex(E, ch),
         NEW st, WalkInv(E, dead, st), st.stack # <<>>
  PROVE  /\ WalkInv(E, dead, WalkTurn(ch, dead, st))
         /\ Rest(E, WalkTurn(ch, dead, st).stack) = Rest(E, st.stack) \ {Last(st.stack)}
         /\ Last(st.stack) \in Rest(E, st.stack)
<1> DEFINE m     == Len(st.stack)
           id    == Last(st.stack)
           front == Front(st.stack)
           kids  == Reverse(ch[id])
           next  == front \o kids
           out   == IF id \in dead THEN st.output ELSE Append(st.output, id)
<1>1. m \in Nat /\ m > 0 /\ id \in Ids(E) /\ id = st.stack[m]
  BY DEF WalkInv, Last
<1>2. /\ kids \in Seq(Ids(E)) /\ ToSet(kids) = ChildIds(E, id)
      /\ \A i, j \in DOMAIN kids : i < j =>
           \A x \in Below(E, kids[j]), y \in Below(E, kids[i]) : Before(E, x, y)
  <2> HIDE DEF id
  <2>1. id \in {Root} \cup Ids(E)
    BY <1>1
  <2> QED
    BY <2>1, PushedChildren
<1>3. front \in Seq(Ids(E)) /\ Len(front) = m - 1 /\ \A i \in 1..m - 1 : front[i] = st.stack[i]
  BY <1>1 DEF WalkInv, Front
<1>4. WalkTurn(ch, dead, st) = [stack |-> next, output |-> out]
  BY DEF WalkTurn
<1> HIDE DEF kids, front, id, m
<1> DEFINE n == Len(kids)
<1>5. /\ n \in Nat /\ DOMAIN kids = 1..n /\ next \in Seq(Ids(E)) /\ DOMAIN next = 1..m - 1 + n
      /\ \A i \in 1..m - 1 : next[i] = st.stack[i]
      /\ \A i \in m..m - 1 + n : next[i] = kids[i - (m - 1)] /\ i - (m - 1) \in 1..n
  BY <1>1, <1>2, <1>3
<1>6. DOMAIN st.stack = 1..m /\ st.stack \in Seq(Ids(E))
  BY DEF WalkInv, m
<1> HIDE DEF next, n
\* Nothing below the ids under it on the stack is below id.
<1>7. ASSUME NEW i \in 1..m - 1, NEW x \in Below(E, id), NEW y \in Below(E, st.stack[i])
      PROVE  Before(E, x, y)
  <2>1. i \in DOMAIN st.stack /\ m \in DOMAIN st.stack /\ i < m
    BY <1>1, <1>6
  <2>2. x \in Below(E, st.stack[m])
    BY <1>1, <1>7
  <2> QED
    BY <2>1, <2>2, <1>7 DEF WalkInv
<1>8. ASSUME NEW i \in 1..n PROVE /\ id \notin Below(E, kids[i])
                                  /\ Below(E, kids[i]) \subseteq Below(E, id) \ {id}
  <2>1. PICK p \in E : p.opId = kids[i] /\ p.dep = id
    <3>1. kids[i] \in ChildIds(E, id)
      BY <1>2, <1>5 DEF ToSet
    <3> QED
      BY <3>1 DEF ChildIds, Ids
  <2>2. id \notin Below(E, kids[i])
    BY <2>1, NoCycle
  <2>3. kids[i] \in Below(E, id)
    BY <2>1, BelowIsClosed DEF HoldsBelow
  <2> QED
    BY <2>2, <2>3, BelowIsTransitive
<1>9. ASSUME NEW x \in Below(E, id), x # id PROVE \E i \in 1..n : x \in Below(E, kids[i])
  <2>1. PICK p \in E : p.dep = id /\ x \in Below(E, p.opId)
    BY <1>9, BelowThroughChild
  <2>2. p.opId \in ToSet(kids)
    BY <2>1, <1>2 DEF ChildIds, Ids
  <2> QED
    BY <2>1, <2>2, <1>5 DEF ToSet
<1>10. id \in Below(E, id) /\ id \in Rest(E, st.stack)
  <2>1. id \in Below(E, id)
    BY BelowIsClosed DEF HoldsBelow
  <2> QED
    BY <2>1, <1>1, <1>6 DEF Rest
<1>11. Rest(E, next) = Rest(E, st.stack) \ {id}
  <2>1. ASSUME NEW x \in Rest(E, next) PROVE x \in Rest(E, st.stack) /\ x # id
    <3>1. PICK i \in 1..m - 1 + n : x \in Below(E, next[i])
      BY <2>1, <1>5 DEF Rest
    <3>2. CASE i \in 1..m - 1
      <4>1. x \in Below(E, st.stack[i])
        BY <3>1, <3>2, <1>5
      <4>2. ~Before(E, x, x)
        BY BeforeAsymmetric
      <4>3. x # id
        BY <4>1, <4>2, <1>7, <1>10, <3>2
      <4> QED
        BY <4>1, <4>3, <1>1, <1>6, <3>2 DEF Rest
    <3>3. CASE i \in m..m - 1 + n
      <4>1. x \in Below(E, id) /\ x # id
        BY <3>1, <3>3, <1>5, <1>8
      <4> QED
        BY <4>1, <1>1, <1>6 DEF Rest
    <3> QED
      BY <3>2, <3>3, <1>1, <1>5
  <2>2. ASSUME NEW x \in Rest(E, st.stack), x # id PROVE x \in Rest(E, next)
    <3>1. PICK i \in 1..m : x \in Below(E, st.stack[i])
      BY <2>2, <1>6 DEF Rest
    <3>2. CASE i = m
      <4>1. PICK k \in 1..n : x \in Below(E, kids[k])
        BY <3>1, <3>2, <1>1, <1>9, <2>2
      <4>2. k + (m - 1) \in m..m - 1 + n /\ next[k + (m - 1)] = kids[k]
        BY <1>1, <1>5
      <4>3. k + (m - 1) \in DOMAIN next
        BY <4>2, <1>1, <1>5
      <4> QED
        BY <4>1, <4>2, <4>3 DEF Rest
    <3>3. CASE i # m
      <4>1. i \in 1..m - 1 /\ i \in 1..m - 1 + n
        BY <3>3, <1>1, <1>5
      <4>2. i \in DOMAIN next /\ next[i] = st.stack[i]
        BY <4>1, <1>5
      <4> QED
        BY <3>1, <4>2 DEF Rest
    <3> QED
      BY <3>2, <3>3
  <2> QED
    BY <2>1, <2>2, <1>10
<1>12. ASSUME NEW i \in DOMAIN next, NEW j \in DOMAIN next, i < j,
              NEW x \in Below(E, next[j]), NEW y \in Below(E, next[i])
       PROVE  Before(E, x, y)
  <2>1. CASE j \in 1..m - 1
    <3>1. i \in DOMAIN st.stack /\ j \in DOMAIN st.stack /\ next[i] = st.stack[i] /\ next[j] = st.stack[j]
      BY <2>1, <1>1, <1>5, <1>6, <1>12
    <3> QED
      BY <3>1, <1>12 DEF WalkInv
  <2>2. CASE i \in 1..m - 1 /\ j \in m..m - 1 + n
    <3>1. x \in Below(E, id) /\ y \in Below(E, st.stack[i])
      BY <2>2, <1>5, <1>8, <1>12
    <3> QED
      BY <3>1, <2>2, <1>7
  <2>3. CASE i \in m..m - 1 + n /\ j \in m..m - 1 + n
    <3>1. next[i] = kids[i - (m - 1)] /\ next[j] = kids[j - (m - 1)]
      BY <2>3, <1>5
    <3>2. i - (m - 1) \in DOMAIN kids /\ j - (m - 1) \in DOMAIN kids /\ i - (m - 1) < j - (m - 1)
      BY <2>3, <1>1, <1>5, <1>12
    <3> QED
      BY <3>1, <3>2, <1>2, <1>12
  <2> QED
    BY <2>1, <2>2, <2>3, <1>1, <1>5, <1>12
<1>13. /\ out \in Seq(Ids(E))
       /\ ToSet(out) = (Ids(E) \ Rest(E, next)) \ dead
       /\ \A i, j \in DOMAIN out : i < j => Before(E, out[i], out[j])
       /\ \A i \in DOMAIN out : \A y \in Rest(E, next) : Before(E, out[i], y)
  <2> DEFINE k == Len(st.output)
  <2>1. k \in Nat /\ st.output \in Seq(Ids(E)) /\ DOMAIN st.output = 1..k
    BY DEF WalkInv
  <2>2. CASE id \in dead
    <3>1. out = st.output
      BY <2>2
    <3> QED
      BY <3>1, <2>1, <2>2, <1>1, <1>10, <1>11 DEF WalkInv
  <2>3. CASE id \notin dead
    <3>1. out = Append(st.output, id)
      BY <2>3
    <3> HIDE DEF out, k
    <3>2. /\ out \in Seq(Ids(E)) /\ DOMAIN out = 1..k + 1 /\ out[k + 1] = id
          /\ \A i \in 1..k : out[i] = st.output[i]
      BY <3>1, <2>1, <1>1 DEF k
    <3>3. ToSet(out) = ToSet(st.output) \cup {id}
      BY <3>2, <2>1 DEF ToSet
    <3>4. ToSet(out) = (Ids(E) \ Rest(E, next)) \ dead
      BY <3>3, <2>3, <1>1, <1>10, <1>11 DEF WalkInv
    <3>5. ASSUME NEW y \in Rest(E, next) PROVE Before(E, id, y)
      <4>1. PICK i \in 1..m : y \in Below(E, st.stack[i])
        BY <3>5, <1>6, <1>11 DEF Rest
      <4>2. y # id
        BY <3>5, <1>11
      <4>3. CASE i = m
        BY <4>1, <4>2, <4>3, <1>1 DEF Before
      <4>4. CASE i # m
        BY <4>1, <4>4, <1>1, <1>7, <1>10
      <4> QED
        BY <4>3, <4>4
    <3>6. ASSUME NEW i \in 1..k, NEW y \in Rest(E, st.stack) PROVE Before(E, out[i], y)
      BY <3>2, <3>6, <2>1 DEF WalkInv
    <3>7. ASSUME NEW i \in DOMAIN out, NEW j \in DOMAIN out, i < j
          PROVE  Before(E, out[i], out[j])
      <4>1. CASE j = k + 1
        BY <4>1, <3>2, <3>6, <3>7, <1>10, <2>1
      <4>2. CASE j # k + 1
        BY <4>2, <3>2, <3>7, <2>1 DEF WalkInv
      <4> QED
        BY <4>1, <4>2
    <3>8. ASSUME NEW i \in DOMAIN out, NEW y \in Rest(E, next) PROVE Before(E, out[i], y)
      <4>1. y \in Rest(E, st.stack)
        BY <1>11
      <4> QED
        BY <4>1, <3>2, <3>5, <3>6, <2>1
    <3> QED
      BY <3>2, <3>4, <3>7, <3>8
  <2> QED
    BY <2>2, <2>3
<1> HIDE DEF out
<1>14. WalkInv(E, dead, [stack |-> next, output |-> out])
  BY <1>5, <1>12, <1>13 DEF WalkInv
<1> QED
  BY <1>4, <1>10, <1>11, <1>14 DEF id

\* The walk shows every character that is not deleted once, in the order of the
\* text.
LEMMA WalkShows ==
  ASSUME NEW E, IsTree(E), HasNumbers(E), IsFiniteSet(Ids(E)), NEW dead,
         NEW ch, IsIndex(E, ch)
  PROVE  /\ VisibleIds(ch, dead) \in Seq(Ids(E))
         /\ ToSet(VisibleIds(ch, dead)) = Ids(E) \ dead
         /\ \A i, j \in DOMAIN VisibleIds(ch, dead) :
              i < j => Before(E, VisibleIds(ch, dead)[i], VisibleIds(ch, dead)[j])
<1> DEFINE size == Cardinality(DOMAIN ch \ {Root})
           W    == Walk(ch, dead)
           Good(n) == /\ WalkInv(E, dead, W[n])
                      /\ IsFiniteSet(Rest(E, W[n].stack))
                      /\ Cardinality(Rest(E, W[n].stack)) + n <= size \/ W[n].stack = <<>>
           bad == {n \in 0..size : ~Good(n)}
<1>1. DOMAIN ch \ {Root} = Ids(E)
  BY DEF IsIndex, IsTree
<1>2. size \in Nat /\ size = Cardinality(Ids(E))
  BY <1>1, FS_CardinalityType
<1>3. /\ W[0] = WalkStart(ch)
      /\ \A n \in 1..size : W[n] = IF W[n - 1].stack = <<>> THEN W[n - 1] ELSE WalkTurn(ch, dead, W[n - 1])
  BY <1>2, WalkTurns
<1> HIDE DEF W, size
<1>4. bad = {}
  <2> SUFFICES ASSUME bad # {} PROVE FALSE
    OBVIOUS
  <2>1. PICK n \in bad : \A k \in bad : n <= k
    <3> HIDE DEF Good
    <3>1. bad \in SUBSET Nat
      BY <1>2
    <3> HIDE DEF bad
    <3> QED
      BY <3>1, LeastNumber
  <2>2. n # 0
    <3>1. WalkInv(E, dead, W[0]) /\ Rest(E, W[0].stack) = Ids(E)
      BY <1>3, WalkInvStart
    <3>2. Good(0)
      BY <3>1, <1>2
    <3> HIDE DEF Good
    <3> QED
      BY <2>1, <3>2
  <2>3. n \in 1..size /\ n - 1 \in 0..size
    <3> HIDE DEF Good
    <3> QED
      BY <2>1, <2>2, <1>2
  <2>4. Good(n - 1)
    <3> HIDE DEF Good
    <3> QED
      BY <2>1, <2>3
  <2>5. CASE W[n - 1].stack = <<>>
    <3>1. W[n] = W[n - 1]
      BY <2>3, <2>5, <1>3
    <3>2. Good(n)
      BY <3>1, <2>4, <2>5
    <3> HIDE DEF Good
    <3> QED
      BY <3>2, <2>1
  <2>6. CASE W[n - 1].stack # <<>>
    <3> DEFINE st == W[n - 1]
               rest == Rest(E, st.stack)
    <3>1. W[n] = WalkTurn(ch, dead, st)
      BY <2>3, <2>6, <1>3
    <3>2. /\ WalkInv(E, dead, W[n]) /\ Rest(E, W[n].stack) = rest \ {Last(st.stack)}
          /\ Last(st.stack) \in rest
      <4>1. WalkInv(E, dead, st) /\ st.stack # <<>>
        BY <2>4, <2>6
      <4> HIDE DEF st, Good, bad
      <4>2. /\ WalkInv(E, dead, WalkTurn(ch, dead, st))
            /\ Rest(E, WalkTurn(ch, dead, st).stack) = Rest(E, st.stack) \ {Last(st.stack)}
            /\ Last(st.stack) \in Rest(E, st.stack)
        BY <4>1, WalkInvTurn
      <4> QED
        BY <3>1, <4>2
    <3>3. IsFiniteSet(rest) /\ Cardinality(rest) \in Nat /\ Cardinality(rest) + (n - 1) <= size
      BY <2>4, <2>6, FS_CardinalityType
    <3> HIDE DEF rest
    <3>4. IsFiniteSet(Rest(E, W[n].stack)) /\ Cardinality(Rest(E, W[n].stack)) = Cardinality(rest) - 1
      BY <3>2, <3>3, FS_RemoveElement
    <3>5. Cardinality(Rest(E, W[n].stack)) + n <= size
      BY <3>3, <3>4, <2>3
    <3>6. Good(n)
      BY <3>2, <3>4, <3>5
    <3> HIDE DEF Good
    <3> QED
      BY <3>6, <2>1
  <2> QED
    BY <2>5, <2>6
<1>5. Good(size)
  <2> HIDE DEF Good
  <2> QED
    BY <1>2, <1>4
<1>6. Rest(E, W[size].stack) = {}
  <2>1. CASE W[size].stack = <<>>
    BY <2>1 DEF Rest
  <2>2. CASE W[size].stack # <<>>
    <3>1. Cardinality(Rest(E, W[size].stack)) \in Nat
      BY <1>5, FS_CardinalityType
    <3>2. Cardinality(Rest(E, W[size].stack)) = 0
      BY <3>1, <2>2, <1>2, <1>5
    <3> QED
      BY <3>2, <1>5, FS_EmptySet
  <2> QED
    BY <2>1, <2>2
<1>7. VisibleIds(ch, dead) = W[size].output
  BY DEF VisibleIds, W, size
<1> QED
  BY <1>5, <1>6, <1>7 DEF WalkInv

-----------------------------------------------------------------------------
(* The loop of drain_pending.                                              *)

LEMMA DrainRounds ==
  ASSUME NEW E, NEW P, Cardinality(P) \in Nat
  PROVE  \E t : /\ DrainLoop(E, P) = t[Cardinality(P)]
                /\ t[0] = {}
                /\ \A n \in 1..Cardinality(P) : t[n] = DrainRound(E, P, t[n - 1])
<1> DEFINE size == Cardinality(P)
           solves(t, m) == t = [n \in 0..m |-> IF n = 0 THEN {} ELSE DrainRound(E, P, t[n - 1])]
           unsolved == {m \in 0..size : ~\E t : solves(t, m)}
<1>1. unsolved = {}
  <2> SUFFICES ASSUME unsolved # {} PROVE FALSE
    OBVIOUS
  <2>1. PICK m \in unsolved : \A k \in unsolved : m <= k
    <3> HIDE DEF solves
    <3>1. unsolved \in SUBSET Nat
      OBVIOUS
    <3> HIDE DEF unsolved
    <3> QED
      BY <3>1, LeastNumber
  <2>2. CASE m = 0
    <3>1. solves([n \in 0..0 |-> {}], 0)
      OBVIOUS
    <3> QED
      BY <3>1, <2>1, <2>2
  <2>3. CASE m # 0
    <3>1. m - 1 \in 0..size /\ m - 1 \notin unsolved
      <4> HIDE DEF solves
      <4> QED
        BY <2>1, <2>3
    <3>2. PICK t : solves(t, m - 1)
      BY <3>1
    <3> DEFINE u == [n \in 0..m |-> IF n <= m - 1 THEN t[n] ELSE DrainRound(E, P, t[m - 1])]
    <3>3. ASSUME NEW n \in 0..m
          PROVE  u[n] = IF n = 0 THEN {} ELSE DrainRound(E, P, u[n - 1])
      <4>1. CASE n = m
        BY <2>1, <2>3, <4>1
      <4>2. CASE n # m
        <5>1. n \in 0..m - 1 /\ (n # 0 => n - 1 \in 0..m - 1)
          BY <2>1, <4>2
        <5>2. t[n] = IF n = 0 THEN {} ELSE DrainRound(E, P, t[n - 1])
          BY <5>1, <3>2
        <5>3. u[n] = t[n] /\ (n # 0 => u[n - 1] = t[n - 1])
          BY <5>1
        <5> QED
          BY <5>2, <5>3
      <4> QED
        BY <4>1, <4>2
    <3>4. solves(u, m)
      BY <3>3
    <3> QED
      BY <2>1, <3>4
  <2> QED
    BY <2>2, <2>3
<1>2. \E t : solves(t, size)
  <2> HIDE DEF solves
  <2> QED
    BY <1>1
<1> DEFINE round == CHOOSE t : solves(t, size)
<1>3. solves(round, size)
  BY <1>2
<1>4. DrainLoop(E, P) = round[size]
  BY DEF DrainLoop
<1> HIDE DEF round
<1>5. \A n \in 0..size : round[n] = IF n = 0 THEN {} ELSE DrainRound(E, P, round[n - 1])
  BY <1>3
<1>6. 0 \in 0..size
  OBVIOUS
<1>7. round[0] = {} /\ \A n \in 1..size : round[n] = DrainRound(E, P, round[n - 1])
  BY <1>5, <1>6
<1> QED
  BY <1>4, <1>7

\* The rounds of drain_pending arrive at the least set at which it may stop.
LEMMA DrainLoopDrains ==
  ASSUME NEW E, NEW P, IsFiniteSet(P)
  PROVE  DrainLoop(E, P) = Drained(E, P)
<1> DEFINE size == Cardinality(P)
<1>1. size \in Nat
  BY FS_CardinalityType
<1>2. PICK t : /\ DrainLoop(E, P) = t[size]
               /\ t[0] = {}
               /\ \A n \in 1..size : t[n] = DrainRound(E, P, t[n - 1])
  BY <1>1, DrainRounds
<1> DEFINE Good(n) == /\ t[n] \subseteq Drained(E, P)
                      /\ Cardinality(t[n]) >= n \/ DrainMayStop(E, P, t[n])
           bad == {n \in 0..size : ~Good(n)}
<1>3. Drained(E, P) \subseteq P /\ DrainMayStop(E, P, Drained(E, P))
  BY DrainedMayStop DEF Drained
<1> HIDE DEF size
<1>4. bad = {}
  <2> SUFFICES ASSUME bad # {} PROVE FALSE
    OBVIOUS
  <2>1. PICK n \in bad : \A k \in bad : n <= k
    <3> HIDE DEF Good
    <3>1. bad \in SUBSET Nat
      BY <1>1
    <3> HIDE DEF bad
    <3> QED
      BY <3>1, LeastNumber
  <2>2. n # 0
    <3>1. Good(0)
      BY <1>2, FS_EmptySet
    <3> HIDE DEF Good
    <3> QED
      BY <2>1, <3>1
  <2>3. n \in 1..size /\ n - 1 \in 0..size
    <3> HIDE DEF Good
    <3> QED
      BY <2>1, <2>2, <1>1
  <2>4. Good(n - 1)
    <3> HIDE DEF Good
    <3> QED
      BY <2>1, <2>3
  <2> DEFINE prev == t[n - 1]
             new  == {p \in P \ prev : HasDep(E \cup prev, p)}
  <2>5. t[n] = prev \cup new
    BY <1>2, <2>3 DEF DrainRound
  <2>6. prev \subseteq Drained(E, P) /\ (Cardinality(prev) >= n - 1 \/ DrainMayStop(E, P, prev))
    BY <2>4
  <2> HIDE DEF prev
  <2>7. t[n] \subseteq Drained(E, P)
    BY <2>5, <2>6, <1>3 DEF DrainMayStop, HasDep, Ids
  <2>8. CASE new = {}
    <3>1. t[n] = prev
      BY <2>5, <2>8
    <3>2. DrainMayStop(E, P, prev)
      BY <2>8 DEF DrainMayStop
    <3>3. Good(n)
      BY <2>7, <3>1, <3>2
    <3> HIDE DEF Good
    <3> QED
      BY <3>3, <2>1
  <2>9. CASE new # {}
    <3>1. PICK p \in new : TRUE
      BY <2>9
    <3>2. IsFiniteSet(t[n]) /\ IsFiniteSet(prev)
      BY <2>6, <2>7, <1>3, FS_Subset
    <3>3. p \notin prev /\ prev \cup {p} \subseteq t[n]
      BY <3>1, <2>5
    <3>4. Cardinality(prev \cup {p}) = Cardinality(prev) + 1 /\ Cardinality(prev \cup {p}) <= Cardinality(t[n])
      BY <3>2, <3>3, FS_AddElement, FS_Subset
    <3>5. Cardinality(prev) \in Nat /\ Cardinality(t[n]) \in Nat
      BY <3>2, FS_CardinalityType
    <3>6. ~DrainMayStop(E, P, prev)
      BY <3>1 DEF DrainMayStop
    <3>7. Cardinality(t[n]) >= n
      BY <3>4, <3>5, <3>6, <2>3, <2>6
    <3>8. Good(n)
      BY <2>7, <3>7
    <3> HIDE DEF Good
    <3> QED
      BY <3>8, <2>1
  <2> QED
    BY <2>8, <2>9
<1>5. Good(size)
  <2> HIDE DEF Good
  <2> QED
    BY <1>1, <1>4
<1>6. DrainMayStop(E, P, t[size])
  <2> SUFFICES ASSUME Cardinality(t[size]) >= size PROVE DrainMayStop(E, P, t[size])
    BY <1>5
  <2>1. t[size] \in SUBSET P
    BY <1>3, <1>5
  <2>2. Cardinality(t[size]) <= size /\ Cardinality(t[size]) \in Nat
    BY <2>1, FS_Subset, FS_CardinalityType DEF size
  <2>3. Cardinality(t[size]) = size
    BY <2>2, <1>1
  <2>4. t[size] = P
    BY <2>1, <2>3, FS_Subset DEF size
  <2> QED
    BY <2>4 DEF DrainMayStop
<1>7. t[size] = Drained(E, P)
  <2>1. t[size] \in SUBSET P
    BY <1>3, <1>5
  <2> QED
    BY <2>1, <1>5, <1>6, DrainedIsLeast
<1> QED
  BY <1>2, <1>7

-----------------------------------------------------------------------------
(* The inductive invariant and the initial states.                         *)

\* Some number bounds the counters in use: the maxima in the code exist.
IdsAreBounded == \E b \in Nat : \A op \in issued : op.opId.counter <= b

IndInv == Consistent /\ IdsAreBounded

LEMMA InitIndInv == Init => IndInv
<1> SUFFICES ASSUME Init PROVE IndInv
  OBVIOUS
<1>1. TypeOK
  BY DEF Init, TypeOK
<1>2. IssuedIsRooted
  BY ClosureOfNothing DEF Init, IssuedIsRooted, Closure, Inserts
<1>3. IdsAreUnique /\ DepsAreIssued /\ SeenIsIssued /\ NextIdIsFresh /\ IdsAreBounded
  BY DEF Init, IdsAreUnique, DepsAreIssued, SeenIsIssued, NextIdIsFresh, IssuedBy, IdsAreBounded
<1>4. ASSUME NEW r \in Replica PROVE FollowsSeen(r) /\ CounterCovers(r)
  <2>1. SeenOps(r) = {} /\ elements[r] = {}
    BY DEF Init, SeenOps
  <2>2. Drained({}, Inserts(SeenOps(r))) = {}
    BY <2>1, ClosureOfNothing DEF Closure, Inserts
  <2> QED
    BY <2>1, <2>2 DEF Init, FollowsSeen, CounterCovers, Inserts, Deletes, Deps
<1> QED
  BY <1>1, <1>2, <1>3, <1>4 DEF IndInv, Consistent

-----------------------------------------------------------------------------
(* What a state of the invariant says of one replica.                      *)

LEMMA ReplicaFacts ==
  ASSUME IndInv, NEW r \in Replica
  PROVE  /\ elements[r] = Closure(Inserts(SeenOps(r)))
         /\ elements[r] \subseteq Inserts(SeenOps(r))
         /\ SeenOps(r) \subseteq issued
         /\ Pending(r) \subseteq SeenOps(r)
         /\ Ids(SeenOps(r)) = seen[r]
         /\ Ids(elements[r]) \subseteq ElementId
<1>1. elements[r] = Closure(Inserts(SeenOps(r)))
  BY DEF IndInv, Consistent, FollowsSeen, Closure
<1>2. elements[r] \subseteq Inserts(SeenOps(r))
  BY <1>1 DEF Closure, Drained
<1>3. SeenOps(r) \subseteq issued /\ Pending(r) \subseteq SeenOps(r)
  BY DEF SeenOps, Pending, IndInv, Consistent, FollowsSeen, Inserts, Deletes
<1>4. Ids(SeenOps(r)) = seen[r]
  BY DEF IndInv, Consistent, SeenIsIssued, SeenOps, Ids
<1>5. Ids(elements[r]) \subseteq ElementId
  BY DEF IndInv, Consistent, TypeOK, Ids, InsertOp
<1> QED
  BY <1>1, <1>2, <1>3, <1>4, <1>5

\* New operations with new ids, seen by r alone, are seen by no other replica.
LEMMA SeenOpsAfterIssue ==
  ASSUME IndInv, NEW r \in Replica, NEW ops,
         Ids(ops) \cap Ids(issued) = {},
         issued' = issued \cup ops,
         seen' = [seen EXCEPT ![r] = @ \cup Ids(ops)]
  PROVE  /\ SeenOps(r)' = SeenOps(r) \cup ops
         /\ \A s \in Replica \ {r} : SeenOps(s)' = SeenOps(s) /\ seen'[s] = seen[s]
         /\ SeenIsIssued'
<1>1. \A s \in Replica : seen[s] \subseteq Ids(issued)
  BY DEF IndInv, Consistent, SeenIsIssued
<1>2. seen \in [Replica -> SUBSET ElementId]
  BY DEF IndInv, Consistent, TypeOK
<1>3. seen'[r] = seen[r] \cup Ids(ops) /\ \A s \in Replica \ {r} : seen'[s] = seen[s]
  BY <1>2
<1>4. SeenOps(r)' = SeenOps(r) \cup ops
  BY <1>1, <1>3 DEF SeenOps, Ids
<1>5. \A s \in Replica \ {r} : SeenOps(s)' = SeenOps(s)
  BY <1>1, <1>3 DEF SeenOps, Ids
<1>6. SeenIsIssued'
  BY <1>1, <1>3 DEF SeenIsIssued, Ids
<1> QED
  BY <1>3, <1>4, <1>5, <1>6

\* A replica none of whose fields change keeps its part of the invariant.
LEMMA OtherReplica ==
  ASSUME IndInv, NEW s \in Replica, SeenOps(s)' = SeenOps(s),
         elements'[s] = elements[s], deleted'[s] = deleted[s], counter'[s] = counter[s],
         pendingInserts'[s] = pendingInserts[s], pendingDeletes'[s] = pendingDeletes[s]
  PROVE  FollowsSeen(s)' /\ CounterCovers(s)'
<1>1. FollowsSeen(s) /\ CounterCovers(s)
  BY DEF IndInv, Consistent
<1>2. FollowsSeen(s)'
  BY <1>1 DEF FollowsSeen
<1>3. CounterCovers(s)'
  BY <1>1 DEF CounterCovers, Pending
<1> QED
  BY <1>2, <1>3

-----------------------------------------------------------------------------
(* One lemma per action: it keeps the invariant, and what it changes of the *)
(* operations seen is ops for r and nothing for the others.                 *)

SeesOnly(r, ops) == /\ SeenOps(r)' = ops
                    /\ \A s \in Replica \ {r} : SeenOps(s)' = SeenOps(s)

IssuesOnly(r) == /\ issued \subseteq issued'
                 /\ SeesOnly(r, SeenOps(r) \cup (issued' \ issued))

(* Local edits.                                                            *)

\* The ids a ready replica hands out are new.
LEMMA NewIdsAreNew ==
  ASSUME IndInv, NEW r \in ready, NEW n \in Nat, NEW ops,
         \A o \in ops : \E k \in 1..n : o.opId = NextId(r, k)
  PROVE  Ids(ops) \cap Ids(issued) = {}
<1> SUFFICES ASSUME NEW o \in ops, NEW p \in issued, o.opId = p.opId PROVE FALSE
  BY DEF Ids
<1>1. r \in Replica /\ counter[r] \in Nat
  BY DEF IndInv, Consistent, TypeOK
<1>2. PICK k \in 1..n : p.opId = NextId(r, k)
  OBVIOUS
<1>3. p.opId.replica = r /\ p.opId.counter = counter[r] + k
  BY <1>2 DEF NextId, Id
<1>4. p.opId.counter <= counter[r]
  BY <1>3 DEF IndInv, Consistent, NextIdIsFresh, IssuedBy
<1> QED
  BY <1>1, <1>3, <1>4

\* What a local edit of either kind does to the parts of the invariant that do
\* not speak of the text.
LEMMA LocalEditKeepsIds ==
  ASSUME IndInv, NEW r \in ready, NEW n \in Nat, NEW ops,
         \A o \in ops : \E k \in 1..n : o.opId = NextId(r, k),
         \A o, p \in ops : o.opId = p.opId => o = p,
         \A o \in ops : o.dep = Root \/ o.dep \in Ids(Inserts(issued \cup ops)),
         issued' = issued \cup ops,
         seen' = [seen EXCEPT ![r] = @ \cup Ids(ops)],
         counter' = [counter EXCEPT ![r] = @ + n],
         ready' = ready
  PROVE  /\ IdsAreUnique'
         /\ DepsAreIssued'
         /\ SeenIsIssued'
         /\ NextIdIsFresh'
         /\ IdsAreBounded'
         /\ \A op \in issued' : op.opId.replica = r => op.opId.counter <= counter'[r]
<1>1. Ids(ops) \cap Ids(issued) = {}
  BY NewIdsAreNew
<1>2. r \in Replica /\ counter \in [Replica -> Nat] /\ counter'[r] = counter[r] + n
  BY DEF IndInv, Consistent, TypeOK
<1>3. \A o \in ops : o.opId.replica = r /\ o.opId.counter \in Nat /\ o.opId.counter <= counter[r] + n
  <2> TAKE o \in ops
  <2>1. PICK k \in 1..n : o.opId = NextId(r, k)
    OBVIOUS
  <2>2. o.opId.replica = r /\ o.opId.counter = counter[r] + k
    BY <2>1 DEF NextId, Id
  <2> QED
    BY <1>2, <2>2
<1>4. IdsAreUnique'
  BY <1>1 DEF IndInv, Consistent, IdsAreUnique, Ids
<1>5. DepsAreIssued'
  BY DEF IndInv, Consistent, DepsAreIssued, Ids, Inserts
<1>6. SeenIsIssued'
  BY <1>1, <1>2, SeenOpsAfterIssue
<1>7. \A op \in issued : op.opId.counter \in Nat
  BY DEF IndInv, Consistent, TypeOK, Operation, InsertOp, DeleteOp, ElementId
<1>8. \A op \in issued' : op.opId.replica = r => op.opId.counter <= counter'[r]
  <2>1. \A op \in issued : op.opId.replica = r => op.opId.counter <= counter[r]
    BY DEF IndInv, Consistent, NextIdIsFresh, IssuedBy
  <2> QED
    BY <1>2, <1>3, <1>7, <2>1
<1>9. NextIdIsFresh'
  <2> SUFFICES ASSUME NEW s \in ready, NEW op \in issued', op.opId.replica = s
               PROVE  op.opId.counter <= counter'[s]
    BY DEF NextIdIsFresh, IssuedBy
  <2>1. CASE s = r
    BY <2>1, <1>8
  <2>2. CASE s # r
    <3>1. s \in Replica /\ counter'[s] = counter[s] /\ op \in issued
      BY <2>2, <1>2, <1>3 DEF IndInv, Consistent, TypeOK
    <3> QED
      BY <3>1 DEF IndInv, Consistent, NextIdIsFresh, IssuedBy
  <2> QED
    BY <2>1, <2>2
<1>10. IdsAreBounded'
  <2>1. PICK b \in Nat : \A op \in issued : op.opId.counter <= b
    BY DEF IndInv, IdsAreBounded
  <2>2. b + counter[r] + n \in Nat /\ counter[r] \in Nat
    BY <1>2
  <2>3. \A op \in issued' : op.opId.counter <= b + counter[r] + n
    BY <1>3, <1>7, <2>1, <2>2
  <2> QED
    BY <2>2, <2>3 DEF IdsAreBounded
<1> QED
  BY <1>4, <1>5, <1>6, <1>8, <1>9, <1>10

LEMMA InsertKeepsIndInv ==
  ASSUME IndInv, NEW r \in Replica, NEW index \in Nat, NEW n \in Nat, Insert(r, index, n)
  PROVE  IndInv' /\ IssuesOnly(r)
<1>1. PICK anchor \in {Root} \cup Alive(r) :
        LET ops   == InsertChain(r, anchor, n)
            added == AddElements(elements[r], ops) \ elements[r]
        IN  /\ issued'   = issued \cup ops
            /\ seen'     = [seen EXCEPT ![r] = @ \cup Ids(ops)]
            /\ elements' = [elements EXCEPT ![r] = @ \cup added]
  BY DEF Insert
<1> DEFINE ops == InsertChain(r, anchor, n)
           ins == Inserts(SeenOps(r))
<1>2. /\ r \in ready /\ counter' = [counter EXCEPT ![r] = @ + n]
      /\ UNCHANGED <<deleted, pendingInserts, pendingDeletes, ready, restarts>>
  BY DEF Insert
<1>3. TypeOK
  BY DEF IndInv, Consistent
<1>4. ops = Chain(counter[r], r, anchor, n)
  BY DEF InsertChain, NextId, Chain, ChainOp
<1>5. anchor = Root \/ anchor \in Ids(elements[r])
  BY DEF Alive
\* The new operations.
<1>6. \A o \in ops : \E k \in 1..n : o = ChainOp(counter[r], r, anchor, k)
  BY <1>4 DEF Chain
<1>7. \A o \in ops : \E k \in 1..n : o.opId = NextId(r, k)
  BY <1>6 DEF ChainOp, NextId
<1>8. \A o, p \in ops : o.opId = p.opId => o = p
  <2> SUFFICES ASSUME NEW o \in ops, NEW p \in ops, o.opId = p.opId PROVE o = p
    OBVIOUS
  <2>1. PICK j \in 1..n : o = ChainOp(counter[r], r, anchor, j)
    BY <1>6
  <2>2. PICK k \in 1..n : p = ChainOp(counter[r], r, anchor, k)
    BY <1>6
  <2>3. counter[r] + j = counter[r] + k
    BY <2>1, <2>2 DEF ChainOp, Id
  <2>4. j = k
    BY <2>3, <1>3 DEF TypeOK
  <2> QED
    BY <2>1, <2>2, <2>4
<1>9. ops \subseteq InsertOp
  <2> SUFFICES ASSUME NEW k \in 1..n PROVE ChainOp(counter[r], r, anchor, k) \in InsertOp
    BY <1>6
  <2>1. counter[r] \in Nat /\ anchor \in ElementId \cup {Root}
    BY <1>3, <1>5, ReplicaFacts DEF TypeOK
  <2>2. Id(counter[r] + k, r) \in ElementId
    BY <2>1 DEF Id, ElementId
  <2>3. k # 1 => Id(counter[r] + k - 1, r) \in ElementId
    BY <2>1 DEF Id, ElementId
  <2> QED
    BY <2>1, <2>2, <2>3 DEF ChainOp, InsertOp
<1>10. Ids(ops) \cap Ids(issued) = {}
  BY <1>2, <1>7, NewIdsAreNew
<1>11. ops \cap issued = {}
  BY <1>10 DEF Ids
<1>12. elements[r] \subseteq ins /\ ins \subseteq issued /\ elements[r] = Closure(ins)
  BY ReplicaFacts DEF Inserts
<1>13. elements'[r] = elements[r] \cup ops
  <2>1. AddElements(elements[r], ops) = elements[r] \cup ops
    BY <1>10, <1>12 DEF AddElements, Ids
  <2> QED
    BY <1>1, <1>3, <2>1 DEF TypeOK
<1>14. \A s \in Replica \ {r} : elements'[s] = elements[s]
  BY <1>1, <1>3 DEF TypeOK
<1>15. \A o \in ops : o.dep = Root \/ o.dep \in Ids(Inserts(issued \cup ops))
  <2> SUFFICES ASSUME NEW k \in 1..n
               PROVE  LET o == ChainOp(counter[r], r, anchor, k)
                      IN  o.dep = Root \/ o.dep \in Ids(Inserts(issued \cup ops))
    BY <1>6
  <2>1. CASE k = 1
    BY <2>1, <1>5, <1>12 DEF ChainOp, Ids, Inserts
  <2>2. CASE k # 1
    <3>1. k - 1 \in 1..n
      BY <2>2
    <3>2. ChainOp(counter[r], r, anchor, k - 1) \in Inserts(issued \cup ops)
      BY <3>1, <1>4 DEF Chain, ChainOp, Inserts
    <3>3. counter[r] + k - 1 = counter[r] + (k - 1)
      BY <1>3 DEF TypeOK
    <3>4. ChainOp(counter[r], r, anchor, k - 1).opId = ChainOp(counter[r], r, anchor, k).dep
      BY <2>2, <3>3 DEF ChainOp
    <3> QED
      BY <3>2, <3>4 DEF Ids
  <2> QED
    BY <2>1, <2>2
<1>16. /\ SeenOps(r)' = SeenOps(r) \cup ops
       /\ \A s \in Replica \ {r} : SeenOps(s)' = SeenOps(s)
  BY <1>1, <1>10, SeenOpsAfterIssue
<1>17. Inserts(SeenOps(r))' = ins \cup ops /\ Deletes(SeenOps(r))' = Deletes(SeenOps(r))
  BY <1>9, <1>16 DEF Inserts, Deletes, InsertOp
\* No operation issued before depends on a new one.
<1>18. \A p \in issued : p.dep = Root \/ p.dep \notin Ids(ops)
  BY <1>10 DEF IndInv, Consistent, DepsAreIssued, Ids, Inserts
\* The parts of the invariant.
<1>19. TypeOK'
  <2>1. elements' \in [Replica -> SUBSET InsertOp]
    BY <1>1, <1>3, <1>9, <1>13, <1>14 DEF TypeOK
  <2>2. Ids(ops) \subseteq ElementId
    BY <1>9 DEF Ids, InsertOp
  <2>3. seen' \in [Replica -> SUBSET ElementId]
    BY <1>1, <1>3, <2>2 DEF TypeOK
  <2> QED
    BY <1>1, <1>2, <1>3, <1>9, <2>1, <2>3 DEF TypeOK, Operation
<1>20. /\ IdsAreUnique' /\ DepsAreIssued' /\ SeenIsIssued' /\ NextIdIsFresh' /\ IdsAreBounded'
       /\ \A op \in issued' : op.opId.replica = r => op.opId.counter <= counter'[r]
  BY <1>1, <1>2, <1>7, <1>8, <1>15, LocalEditKeepsIds
<1>21. FollowsSeen(r)'
  <2>1. FollowsSeen(r)
    BY DEF IndInv, Consistent
  <2>2. elements'[r] = Drained({}, Inserts(SeenOps(r))')
    BY <1>3, <1>4, <1>5, <1>12, <1>13, <1>17, <1>18, ClosureOfLocalInsert DEF Closure, TypeOK
  <2>3. \A d \in issued : HasDep(elements'[r], d) <=> HasDep(elements[r], d)
    BY <1>13, <1>18 DEF HasDep, Ids
  <2>4. pendingInserts'[r] = Inserts(SeenOps(r))' \ elements'[r]
    BY <1>2, <1>11, <1>12, <1>13, <1>17, <2>1 DEF FollowsSeen
  <2>5. Deletes(SeenOps(r)) \subseteq issued
    BY DEF Deletes, SeenOps
  <2>6. pendingDeletes'[r] = {d \in Deletes(SeenOps(r))' : ~HasDep(elements'[r], d)}
    BY <1>2, <1>17, <2>1, <2>3, <2>5 DEF FollowsSeen
  <2>7. deleted'[r] = Deps({d \in Deletes(SeenOps(r))' : HasDep(elements'[r], d)})
    BY <1>2, <1>17, <2>1, <2>3, <2>5 DEF FollowsSeen, Deps
  <2> QED
    BY <2>2, <2>4, <2>6, <2>7 DEF FollowsSeen
<1>22. CounterCovers(r)'
  BY <1>20 DEF CounterCovers, SeenOps
<1>23. \A s \in Replica \ {r} : FollowsSeen(s)' /\ CounterCovers(s)'
  BY <1>2, <1>3, <1>14, <1>16, OtherReplica DEF TypeOK
<1>24. IssuedIsRooted'
  <2>1. Closure(Inserts(issued)) = Inserts(issued)
    BY DEF IndInv, Consistent, IssuedIsRooted, Closure
  <2>2. anchor = Root \/ anchor \in Ids(Closure(Inserts(issued)))
    BY <1>5, <1>12, <2>1 DEF Ids, Inserts
  <2>3. \A p \in Inserts(issued) : p.dep = Root \/ p.dep \notin Ids(ops)
    BY <1>18 DEF Inserts
  <2>4. Closure(Inserts(issued) \cup ops) = Inserts(issued) \cup ops
    BY <1>3, <1>4, <2>1, <2>2, <2>3, ClosureOfLocalInsert DEF TypeOK
  <2>5. Inserts(issued)' = Inserts(issued) \cup ops
    BY <1>1, <1>9 DEF Inserts, InsertOp
  <2> QED
    BY <2>4, <2>5 DEF IssuedIsRooted, Closure
<1>25. IssuesOnly(r)
  BY <1>1, <1>11, <1>16 DEF IssuesOnly, SeesOnly
<1> QED
  BY <1>19, <1>20, <1>21, <1>22, <1>23, <1>24, <1>25 DEF IndInv, Consistent

LEMMA DeleteKeepsIndInv ==
  ASSUME IndInv, NEW r \in Replica, NEW index \in Nat, NEW n \in Nat, Delete(r, index, n)
  PROVE  IndInv' /\ IssuesOnly(r)
<1>1. PICK target \in [1..n -> Alive(r)] :
        LET ops == {[type |-> "delete", opId |-> NextId(r, k), dep |-> target[k]] : k \in 1..n}
        IN  /\ issued'  = issued \cup ops
            /\ seen'    = [seen EXCEPT ![r] = @ \cup Ids(ops)]
            /\ deleted' = [deleted EXCEPT ![r] = @ \cup Deps(ops)]
  BY DEF Delete
<1> DEFINE op(k) == [type |-> "delete", opId |-> NextId(r, k), dep |-> target[k]]
           ops   == {op(k) : k \in 1..n}
<1>2. /\ r \in ready /\ counter' = [counter EXCEPT ![r] = @ + n]
      /\ UNCHANGED <<elements, pendingInserts, pendingDeletes, ready, restarts>>
  BY DEF Delete
<1>3. TypeOK
  BY DEF IndInv, Consistent
<1>4. \A k \in 1..n : target[k] \in Ids(elements[r]) /\ target[k] \in ElementId
  BY ReplicaFacts DEF Alive
<1>5. \A o \in ops : \E k \in 1..n : o.opId = NextId(r, k)
  OBVIOUS
<1>6. \A o, p \in ops : o.opId = p.opId => o = p
  <2> SUFFICES ASSUME NEW j \in 1..n, NEW k \in 1..n, NextId(r, j) = NextId(r, k) PROVE op(j) = op(k)
    OBVIOUS
  <2>1. counter[r] + j = counter[r] + k
    BY DEF NextId, Id
  <2>2. j = k
    BY <2>1, <1>3 DEF TypeOK
  <2> QED
    BY <2>2
<1>7. ops \subseteq DeleteOp
  <2> SUFFICES ASSUME NEW k \in 1..n PROVE op(k) \in DeleteOp
    OBVIOUS
  <2>1. NextId(r, k) \in ElementId
    BY <1>3 DEF NextId, Id, ElementId, TypeOK
  <2> QED
    BY <1>4, <2>1 DEF DeleteOp
<1>8. Ids(ops) \cap Ids(issued) = {}
  BY <1>2, <1>5, NewIdsAreNew
<1>9. elements[r] \subseteq Inserts(SeenOps(r)) /\ Inserts(SeenOps(r)) \subseteq Inserts(issued)
  BY ReplicaFacts DEF Inserts
<1>10. \A o \in ops : HasDep(elements[r], o) /\ o.dep \in Ids(elements[r])
  BY <1>4 DEF HasDep
<1>11. \A o \in ops : o.dep = Root \/ o.dep \in Ids(Inserts(issued \cup ops))
  BY <1>9, <1>10 DEF Ids, Inserts
<1>12. /\ SeenOps(r)' = SeenOps(r) \cup ops
       /\ \A s \in Replica \ {r} : SeenOps(s)' = SeenOps(s)
  BY <1>1, <1>8, SeenOpsAfterIssue
<1>13. Inserts(SeenOps(r))' = Inserts(SeenOps(r)) /\ Deletes(SeenOps(r))' = Deletes(SeenOps(r)) \cup ops
  BY <1>7, <1>12 DEF Inserts, Deletes, DeleteOp
<1>14. deleted'[r] = deleted[r] \cup Deps(ops) /\ \A s \in Replica \ {r} : deleted'[s] = deleted[s]
  BY <1>1, <1>3 DEF TypeOK
<1>15. TypeOK'
  <2>1. Ids(ops) \subseteq ElementId /\ Deps(ops) \subseteq ElementId
    BY <1>7 DEF Ids, Deps, DeleteOp
  <2>2. seen' \in [Replica -> SUBSET ElementId] /\ deleted' \in [Replica -> SUBSET ElementId]
    BY <1>1, <1>3, <2>1 DEF TypeOK
  <2>3. issued' \in SUBSET Operation
    BY <1>1, <1>3, <1>7 DEF TypeOK, Operation
  <2>4. counter' \in [Replica -> Nat]
    BY <1>2, <1>3 DEF TypeOK
  <2> QED
    BY <1>2, <1>3, <2>2, <2>3, <2>4 DEF TypeOK
<1>16. /\ IdsAreUnique' /\ DepsAreIssued' /\ SeenIsIssued' /\ NextIdIsFresh' /\ IdsAreBounded'
       /\ \A o \in issued' : o.opId.replica = r => o.opId.counter <= counter'[r]
  BY <1>1, <1>2, <1>5, <1>6, <1>11, LocalEditKeepsIds
<1>17. FollowsSeen(r)'
  <2>1. FollowsSeen(r)
    BY DEF IndInv, Consistent
  <2>2. elements'[r] = Drained({}, Inserts(SeenOps(r))')
    BY <1>2, <1>13, <2>1 DEF FollowsSeen
  <2>3. pendingInserts'[r] = Inserts(SeenOps(r))' \ elements'[r]
    BY <1>2, <1>13, <2>1 DEF FollowsSeen
  <2>4. pendingDeletes'[r] = {d \in Deletes(SeenOps(r))' : ~HasDep(elements'[r], d)}
    BY <1>2, <1>10, <1>13, <2>1 DEF FollowsSeen
  <2>5. deleted'[r] = Deps({d \in Deletes(SeenOps(r))' : HasDep(elements'[r], d)})
    BY <1>2, <1>10, <1>13, <1>14, <2>1 DEF FollowsSeen, Deps
  <2> QED
    BY <2>2, <2>3, <2>4, <2>5 DEF FollowsSeen
<1>18. CounterCovers(r)'
  BY <1>16 DEF CounterCovers, SeenOps
<1>19. \A s \in Replica \ {r} : FollowsSeen(s)' /\ CounterCovers(s)'
  BY <1>2, <1>3, <1>12, <1>14, OtherReplica DEF TypeOK
<1>20. IssuedIsRooted'
  <2>1. Inserts(issued)' = Inserts(issued)
    BY <1>1, <1>7 DEF Inserts, DeleteOp
  <2> QED
    BY <2>1 DEF IssuedIsRooted, IndInv, Consistent
<1>21. IssuesOnly(r)
  <2>1. ops \cap issued = {}
    BY <1>8 DEF Ids
  <2>2. issued' = issued \cup ops
    BY <1>1
  <2> HIDE DEF ops
  <2> QED
    BY <1>12, <2>1, <2>2 DEF IssuesOnly, SeesOnly
<1> QED
  BY <1>15, <1>16, <1>17, <1>18, <1>19, <1>20, <1>21 DEF IndInv, Consistent

-----------------------------------------------------------------------------
(* Remote operations.                                                      *)

\* A delivery adds the operation to what its receiver has seen.
LEMMA SeenOpsAfterDelivery ==
  ASSUME IndInv, NEW r \in Replica, NEW op \in issued,
         issued' = issued, seen' = [seen EXCEPT ![r] = @ \cup {op.opId}]
  PROVE  /\ SeenOps(r)' = SeenOps(r) \cup {op}
         /\ \A s \in Replica \ {r} : SeenOps(s)' = SeenOps(s) /\ seen'[s] = seen[s]
         /\ SeenIsIssued'
         /\ seen' \in [Replica -> SUBSET ElementId]
<1>1. op.opId \in ElementId
  BY DEF IndInv, Consistent, TypeOK, Operation, InsertOp, DeleteOp
<1>2. seen \in [Replica -> SUBSET ElementId]
  BY DEF IndInv, Consistent, TypeOK
<1>3. seen'[r] = seen[r] \cup {op.opId} /\ \A s \in Replica \ {r} : seen'[s] = seen[s]
  BY <1>2
<1>4. SeenOps(r)' = SeenOps(r) \cup {op}
  BY <1>3 DEF SeenOps, IndInv, Consistent, IdsAreUnique
<1>5. \A s \in Replica \ {r} : SeenOps(s)' = SeenOps(s)
  BY <1>3 DEF SeenOps
<1>6. SeenIsIssued'
  BY <1>3 DEF IndInv, Consistent, SeenIsIssued, Ids
<1> QED
  BY <1>1, <1>2, <1>3, <1>4, <1>5, <1>6

LEMMA QueuedKeepsIndInv ==
  ASSUME IndInv, NEW r \in Replica, NEW op \in issued, ApplyQueued(r, op)
  PROVE  IndInv' /\ SeesOnly(r, SeenOps(r) \cup {op})
<1>1. /\ op.opId \notin seen[r] /\ ~HasDep(elements[r], op)
      /\ seen' = [seen EXCEPT ![r] = @ \cup {op.opId}]
      /\ pendingInserts' = [pendingInserts EXCEPT ![r] = @ \cup Inserts({op})]
      /\ pendingDeletes' = [pendingDeletes EXCEPT ![r] = @ \cup Deletes({op})]
      /\ UNCHANGED <<counter, elements, deleted, ready, restarts, issued>>
  BY DEF ApplyQueued
<1>2. TypeOK
  BY DEF IndInv, Consistent
<1>3. /\ SeenOps(r)' = SeenOps(r) \cup {op}
      /\ \A s \in Replica \ {r} : SeenOps(s)' = SeenOps(s)
      /\ SeenIsIssued' /\ seen' \in [Replica -> SUBSET ElementId]
  BY <1>1, SeenOpsAfterDelivery
<1>4. op \in InsertOp \/ op \in DeleteOp
  BY <1>2 DEF TypeOK, Operation
<1>5. /\ pendingInserts'[r] = pendingInserts[r] \cup Inserts({op})
      /\ pendingDeletes'[r] = pendingDeletes[r] \cup Deletes({op})
      /\ \A s \in Replica \ {r} : /\ pendingInserts'[s] = pendingInserts[s]
                                  /\ pendingDeletes'[s] = pendingDeletes[s]
  BY <1>1, <1>2 DEF TypeOK
<1>6. TypeOK'
  <2>1. Inserts({op}) \subseteq InsertOp /\ Deletes({op}) \subseteq DeleteOp
    BY <1>4 DEF Inserts, Deletes, InsertOp, DeleteOp
  <2>2. pendingInserts' \in [Replica -> SUBSET InsertOp] /\ pendingDeletes' \in [Replica -> SUBSET DeleteOp]
    BY <1>1, <1>2, <2>1 DEF TypeOK
  <2> QED
    BY <1>1, <1>2, <1>3, <2>2 DEF TypeOK
<1>7. IdsAreUnique' /\ DepsAreIssued' /\ IssuedIsRooted' /\ NextIdIsFresh' /\ IdsAreBounded'
  BY <1>1 DEF IndInv, Consistent, IdsAreUnique, DepsAreIssued, IssuedIsRooted, NextIdIsFresh, IssuedBy, IdsAreBounded
<1>8. FollowsSeen(r)'
  <2>1. FollowsSeen(r) /\ elements[r] \subseteq Inserts(SeenOps(r)) /\ op \notin SeenOps(r)
    BY <1>1, ReplicaFacts DEF IndInv, Consistent, SeenOps
  <2>2. /\ Inserts(SeenOps(r))' = Inserts(SeenOps(r)) \cup Inserts({op})
        /\ Deletes(SeenOps(r))' = Deletes(SeenOps(r)) \cup Deletes({op})
    BY <1>3 DEF Inserts, Deletes
  <2>3. op \notin elements[r]
    BY <2>1 DEF Inserts
  <2>4. elements'[r] = Drained({}, Inserts(SeenOps(r))')
    <3>1. CASE Inserts({op}) = {}
      BY <1>1, <2>1, <2>2, <3>1 DEF FollowsSeen
    <3>2. CASE Inserts({op}) = {op}
      <4>1. ~HasDep(Closure(Inserts(SeenOps(r))), op)
        BY <1>1, ReplicaFacts
      <4>2. Closure(Inserts(SeenOps(r)) \cup {op}) = elements[r]
        BY <4>1, ClosureQueued, ReplicaFacts
      <4> QED
        BY <1>1, <2>2, <3>2, <4>2 DEF Closure
    <3> QED
      BY <3>1, <3>2 DEF Inserts
  <2>5. pendingInserts'[r] = Inserts(SeenOps(r))' \ elements'[r]
    <3>1. Inserts({op}) \cap elements[r] = {}
      BY <2>3 DEF Inserts
    <3> QED
      BY <1>1, <1>5, <2>1, <2>2, <3>1 DEF FollowsSeen
  <2>6. pendingDeletes'[r] = {d \in Deletes(SeenOps(r))' : ~HasDep(elements'[r], d)}
    BY <1>1, <1>5, <2>1, <2>2 DEF FollowsSeen, Deletes
  <2>7. deleted'[r] = Deps({d \in Deletes(SeenOps(r))' : HasDep(elements'[r], d)})
    BY <1>1, <2>1, <2>2 DEF FollowsSeen, Deletes, Deps
  <2> QED
    BY <2>4, <2>5, <2>6, <2>7 DEF FollowsSeen
<1>9. CounterCovers(r)'
  <2>1. op \in Pending(r)' /\ Pending(r) \subseteq Pending(r)'
    BY <1>4, <1>5 DEF Pending, Inserts, Deletes, InsertOp, DeleteOp
  <2> QED
    BY <1>1, <1>3, <2>1 DEF CounterCovers, IndInv, Consistent
<1>10. \A s \in Replica \ {r} : FollowsSeen(s)' /\ CounterCovers(s)'
  BY <1>1, <1>3, <1>5, OtherReplica
<1> QED
  BY <1>3, <1>6, <1>7, <1>8, <1>9, <1>10 DEF IndInv, Consistent, SeesOnly

LEMMA AppliedKeepsIndInv ==
  ASSUME IndInv, NEW r \in Replica, NEW op \in issued, ApplyNow(r, op)
  PROVE  IndInv' /\ SeesOnly(r, SeenOps(r) \cup {op})
<1> DEFINE I       == Inserts(SeenOps(r))
           C       == elements[r]
           base    == AddElements(C, Inserts({op}))
           drained == Drained(base, pendingInserts[r])
           all     == AddElements(base, drained)
           marked  == Deletes({op}) \cup ReadyDeletes(all, pendingDeletes[r])
           applied == {op} \cup drained \cup marked
<1>1. /\ op.opId \notin seen[r] /\ HasDep(C, op)
      /\ elements'       = [elements EXCEPT ![r] = all]
      /\ deleted'        = [deleted EXCEPT ![r] = @ \cup Deps(marked)]
      /\ pendingInserts' = [pendingInserts EXCEPT ![r] = @ \ drained]
      /\ pendingDeletes' = [pendingDeletes EXCEPT ![r] = @ \ marked]
      /\ counter'        = [counter EXCEPT ![r] = Max({@, MaxCounterFor(r, Ids(applied))})]
      /\ seen' = [seen EXCEPT ![r] = @ \cup {op.opId}]
      /\ UNCHANGED <<ready, restarts, issued>>
  BY DEF ApplyNow
<1>2. TypeOK
  BY DEF IndInv, Consistent
<1>3. /\ SeenOps(r)' = SeenOps(r) \cup {op}
      /\ \A s \in Replica \ {r} : SeenOps(s)' = SeenOps(s)
      /\ SeenIsIssued' /\ seen' \in [Replica -> SUBSET ElementId]
  BY <1>1, SeenOpsAfterDelivery
<1>4. /\ Inserts(SeenOps(r))' = I \cup Inserts({op})
      /\ Deletes(SeenOps(r))' = Deletes(SeenOps(r)) \cup Deletes({op})
  BY <1>3 DEF Inserts, Deletes
<1>5. op \in InsertOp \/ op \in DeleteOp
  BY <1>2 DEF TypeOK, Operation
<1>6. FollowsSeen(r) /\ C = Closure(I) /\ C \subseteq I /\ I \subseteq issued
  BY ReplicaFacts DEF IndInv, Consistent, Inserts
<1>7. pendingInserts[r] = I \ C
  BY <1>6 DEF FollowsSeen
<1>8. op \notin SeenOps(r) /\ op \notin I
  BY <1>1 DEF SeenOps, Inserts
<1>9. drained \subseteq I \ C
  BY <1>7 DEF Drained
\* Ids are unique: elements are added as they are.
<1>10. \A o, p \in issued : o.opId = p.opId => o = p
  BY DEF IndInv, Consistent, IdsAreUnique
<1>11. Inserts({op}) \subseteq issued
  BY DEF Inserts
<1>12. base = C \cup Inserts({op})
  BY <1>6, <1>10, <1>11, AddElementsIsUnion
<1>13. all = base \cup drained
  <2>1. \A o, p \in base \cup drained : o.opId = p.opId => o = p
    BY <1>6, <1>9, <1>10, <1>11, <1>12
  <2> HIDE DEF base, drained
  <2> QED
    BY <2>1, AddElementsIsUnion
<1>14. drained = {} \/ op \in InsertOp
  <2> SUFFICES ASSUME op \in DeleteOp PROVE drained = {}
    BY <1>5
  <2>1. base = C
    BY <1>12 DEF Inserts, DeleteOp
  <2>2. DrainMayStop(C, I \ C, {})
    <3>1. DrainMayStop({}, I, C)
      BY <1>6, DrainedMayStop DEF Closure
    <3> QED
      BY <3>1 DEF DrainMayStop, HasDep, Ids
  <2> QED
    BY <1>7, <2>1, <2>2, DrainedIsLeast
<1>15. all = Closure(I \cup Inserts({op}))
  <2>1. CASE op \in InsertOp
    <3>1. Inserts({op}) = {op}
      BY <2>1 DEF Inserts, InsertOp
    <3>2. HasDep(Closure(I), op)
      BY <1>1, <1>6
    <3>3. base = Closure(I) \cup {op} /\ drained = Drained(Closure(I) \cup {op}, I \ Closure(I))
      BY <1>6, <1>7, <1>12, <3>1
    <3> HIDE DEF all, base, drained, I
    <3> QED
      BY <1>13, <3>1, <3>2, <3>3, ClosureApplied
  <2>2. CASE op \in DeleteOp
    <3>1. Inserts({op}) = {} /\ op \notin InsertOp
      BY <2>2 DEF Inserts, InsertOp, DeleteOp
    <3> QED
      BY <1>6, <1>12, <1>13, <1>14, <3>1
  <2> QED
    BY <1>5, <2>1, <2>2
<1>16. C \subseteq all /\ all \subseteq I \cup Inserts({op}) /\ all \subseteq issued
  BY <1>6, <1>9, <1>11, <1>12, <1>13
<1>17. Inserts({op}) \subseteq all /\ drained \subseteq all
  BY <1>12, <1>13
<1>18. marked \subseteq Deletes(SeenOps(r)) \cup Deletes({op}) /\ marked \subseteq issued
  <2>1. pendingDeletes[r] \subseteq Deletes(SeenOps(r)) /\ SeenOps(r) \subseteq issued
    BY <1>6 DEF FollowsSeen, SeenOps
  <2> QED
    BY <2>1 DEF ReadyDeletes, Deletes
<1>19. /\ elements'[r] = all /\ deleted'[r] = deleted[r] \cup Deps(marked)
       /\ pendingInserts'[r] = pendingInserts[r] \ drained
       /\ pendingDeletes'[r] = pendingDeletes[r] \ marked
       /\ counter'[r] = Max({counter[r], MaxCounterFor(r, Ids(applied))})
       /\ \A s \in Replica \ {r} :
            /\ elements'[s] = elements[s] /\ deleted'[s] = deleted[s] /\ counter'[s] = counter[s]
            /\ pendingInserts'[s] = pendingInserts[s] /\ pendingDeletes'[s] = pendingDeletes[s]
  BY <1>1, <1>2 DEF TypeOK
\* The counter is a maximum that exists.
<1>20. /\ counter'[r] \in Nat /\ counter[r] <= counter'[r]
       /\ \A o \in applied : o.opId.replica = r => o.opId.counter <= counter'[r]
  <2>1. PICK b \in Nat : \A o \in issued : o.opId.counter <= b
    BY DEF IndInv, IdsAreBounded
  <2>2. applied \subseteq issued
    BY <1>6, <1>9, <1>18
  <2>3. \A o \in issued : o.opId.counter \in Nat
    BY <1>2 DEF TypeOK, Operation, InsertOp, DeleteOp, ElementId
  <2>4. \A id \in Ids(applied) : id.counter \in Nat /\ id.counter <= b
    BY <2>1, <2>2, <2>3 DEF Ids
  <2> DEFINE m == MaxCounterFor(r, Ids(applied))
  <2>5. /\ m \in Nat
        /\ \A id \in Ids(applied) : id.replica = r => id.counter <= m
    BY <2>4, MaxCounterForBounds
  <2>6. counter[r] \in Nat
    BY <1>2 DEF TypeOK
  <2>7. counter[r] + m \in Nat /\ {counter[r], m} \in SUBSET Nat
        /\ \A x \in {counter[r], m} : x <= counter[r] + m
    BY <2>5, <2>6
  <2>8. /\ counter'[r] \in {counter[r], m}
        /\ counter[r] <= counter'[r] /\ m <= counter'[r]
    BY <1>19, <2>7, MaxOfBounded
  <2>9. \A o \in applied : o.opId.replica = r => o.opId.counter <= m /\ o.opId.counter \in Nat
    BY <2>2, <2>3, <2>5 DEF Ids
  <2> HIDE DEF m, applied
  <2> QED
    BY <2>5, <2>6, <2>8, <2>9
\* The parts of the invariant.
<1>21. TypeOK'
  <2>1. all \subseteq InsertOp
    <3>1. all \subseteq issued /\ \A o \in all : o.type = "insert"
      BY <1>16 DEF Inserts
    <3> QED
      BY <3>1, <1>2 DEF TypeOK, Operation, DeleteOp
  <2>2. Deps(marked) \subseteq ElementId
    <3>1. \A o \in marked : o \in Operation /\ o.type = "delete"
      BY <1>2, <1>18 DEF TypeOK, Deletes
    <3> QED
      BY <3>1 DEF Deps, Operation, InsertOp, DeleteOp
  <2>3. elements' \in [Replica -> SUBSET InsertOp] /\ deleted' \in [Replica -> SUBSET ElementId]
    BY <1>1, <1>2, <2>1, <2>2 DEF TypeOK
  <2>4. pendingInserts' \in [Replica -> SUBSET InsertOp] /\ pendingDeletes' \in [Replica -> SUBSET DeleteOp]
    BY <1>1, <1>2 DEF TypeOK
  <2>5. counter' \in [Replica -> Nat]
    BY <1>1, <1>2, <1>20 DEF TypeOK
  <2> QED
    BY <1>1, <1>2, <1>3, <2>3, <2>4, <2>5 DEF TypeOK
<1>22. IdsAreUnique' /\ DepsAreIssued' /\ IssuedIsRooted' /\ IdsAreBounded'
  BY <1>1 DEF IndInv, Consistent, IdsAreUnique, DepsAreIssued, IssuedIsRooted, IdsAreBounded
<1>23. NextIdIsFresh'
  <2> SUFFICES ASSUME NEW s \in ready, NEW o \in issued, o.opId.replica = s
               PROVE  o.opId.counter <= counter'[s]
    BY <1>1 DEF NextIdIsFresh, IssuedBy
  <2>1. o.opId.counter <= counter[s] /\ s \in Replica /\ o.opId.counter \in Nat /\ counter[s] \in Nat
    BY <1>2 DEF IndInv, Consistent, NextIdIsFresh, IssuedBy, TypeOK, Operation, InsertOp, DeleteOp, ElementId
  <2>2. counter[s] <= counter'[s] /\ counter'[s] \in Nat
    BY <1>19, <1>20, <2>1
  <2> QED
    BY <2>1, <2>2
<1>24. FollowsSeen(r)'
  <2>1. elements'[r] = Drained({}, Inserts(SeenOps(r))')
    BY <1>4, <1>15, <1>19 DEF Closure
  <2>2. pendingInserts'[r] = Inserts(SeenOps(r))' \ elements'[r]
    BY <1>4, <1>6, <1>7, <1>8, <1>12, <1>13, <1>19 DEF Inserts
  <2>3. \A d : HasDep(C, d) => HasDep(all, d)
    BY <1>16 DEF HasDep, Ids
  <2>4. pendingDeletes[r] = {d \in Deletes(SeenOps(r)) : ~HasDep(C, d)}
        /\ deleted[r] = Deps({d \in Deletes(SeenOps(r)) : HasDep(C, d)})
    BY <1>6 DEF FollowsSeen
  <2>5. \A d \in Deletes({op}) : HasDep(all, d) /\ d \in marked
    BY <1>1, <2>3 DEF Deletes
  <2>6. \A d \in Deletes(SeenOps(r)) : d \in marked <=> HasDep(all, d) /\ ~HasDep(C, d)
    BY <1>8, <2>4 DEF ReadyDeletes, Deletes
  <2>7. pendingDeletes'[r] = {d \in Deletes(SeenOps(r))' : ~HasDep(elements'[r], d)}
    BY <1>4, <1>19, <2>3, <2>4, <2>5, <2>6
  <2>8. deleted'[r] = Deps({d \in Deletes(SeenOps(r))' : HasDep(elements'[r], d)})
    <3> DEFINE before == {d \in Deletes(SeenOps(r)) : HasDep(C, d)}
               after  == {d \in Deletes(SeenOps(r))' : HasDep(all, d)}
    <3>1. after \subseteq before \cup marked
      BY <1>4, <2>5, <2>6
    <3>2. marked \subseteq after /\ before \subseteq after
      BY <1>4, <1>18, <2>3, <2>5, <2>6
    <3>3. deleted'[r] = Deps(before) \cup Deps(marked)
      BY <1>19, <2>4
    <3> HIDE DEF before, after, marked
    <3>4. deleted'[r] = Deps(after)
      BY <3>1, <3>2, <3>3 DEF Deps
    <3> QED
      BY <3>4, <1>19 DEF after
  <2> QED
    BY <2>1, <2>2, <2>7, <2>8 DEF FollowsSeen
<1>25. CounterCovers(r)'
  <2> SUFFICES ASSUME NEW o \in SeenOps(r)', o.opId.replica = r, o \notin Pending(r)'
               PROVE  o.opId.counter <= counter'[r]
    BY DEF CounterCovers
  <2>1. CASE o \in applied
    BY <2>1, <1>20
  <2>2. CASE o \notin applied
    <3>1. o \in SeenOps(r) /\ o \notin Pending(r)
      BY <1>3, <1>19, <2>2 DEF Pending
    <3>2. o.opId.counter <= counter[r] /\ o.opId.counter \in Nat /\ counter[r] \in Nat
      BY <3>1, <1>2 DEF IndInv, Consistent, CounterCovers, SeenOps, TypeOK, Operation, InsertOp, DeleteOp, ElementId
    <3> QED
      BY <3>2, <1>20
  <2> QED
    BY <2>1, <2>2
<1>26. \A s \in Replica \ {r} : FollowsSeen(s)' /\ CounterCovers(s)'
  BY <1>3, <1>19, OtherReplica
<1> QED
  BY <1>3, <1>21, <1>22, <1>23, <1>24, <1>25, <1>26 DEF IndInv, Consistent, SeesOnly

-----------------------------------------------------------------------------
(* Restart and catching up.                                                *)

LEMMA RestartKeepsIndInv ==
  ASSUME IndInv, NEW r \in Replica, Restart(r)
  PROVE  IndInv' /\ SeesOnly(r, {})
<1>1. TypeOK
  BY DEF IndInv, Consistent
<1>2. TypeOK'
  BY <1>1 DEF Restart, TypeOK
<1>3. IdsAreUnique' /\ DepsAreIssued' /\ IssuedIsRooted' /\ IdsAreBounded'
  BY DEF Restart, IndInv, Consistent, IdsAreUnique, DepsAreIssued, IssuedIsRooted, IdsAreBounded
<1>4. /\ elements'[r] = {} /\ deleted'[r] = {} /\ seen'[r] = {}
      /\ pendingInserts'[r] = {} /\ pendingDeletes'[r] = {}
      /\ issued' = issued /\ ready' = ready \ {r}
  BY <1>1 DEF Restart, TypeOK
<1>5. \A s \in Replica \ {r} :
         /\ elements'[s] = elements[s] /\ deleted'[s] = deleted[s] /\ counter'[s] = counter[s]
         /\ pendingInserts'[s] = pendingInserts[s] /\ pendingDeletes'[s] = pendingDeletes[s]
         /\ seen'[s] = seen[s]
  BY <1>1 DEF Restart, TypeOK
<1>6. SeenIsIssued'
  BY <1>4, <1>5 DEF IndInv, Consistent, SeenIsIssued
<1>7. NextIdIsFresh'
  BY <1>1, <1>4, <1>5 DEF IndInv, Consistent, NextIdIsFresh, IssuedBy, TypeOK
<1>8. FollowsSeen(r)' /\ CounterCovers(r)'
  <2>1. SeenOps(r)' = {}
    BY <1>4 DEF SeenOps
  <2>2. Drained({}, Inserts(SeenOps(r))') = {}
    BY <2>1, ClosureOfNothing DEF Closure, Inserts
  <2> QED
    BY <1>4, <2>1, <2>2 DEF FollowsSeen, CounterCovers, Inserts, Deletes, Deps
<1>9. \A s \in Replica \ {r} : FollowsSeen(s)' /\ CounterCovers(s)'
  <2> SUFFICES ASSUME NEW s \in Replica \ {r} PROVE FollowsSeen(s)' /\ CounterCovers(s)'
    OBVIOUS
  <2>1. SeenOps(s)' = SeenOps(s)
    BY <1>4, <1>5 DEF SeenOps
  <2> QED
    BY <1>5, <2>1, OtherReplica
<1>10. SeesOnly(r, {})
  BY <1>4, <1>5 DEF SeesOnly, SeenOps
<1> QED
  BY <1>2, <1>3, <1>6, <1>7, <1>8, <1>9, <1>10 DEF IndInv, Consistent

\* A replica that has seen its own operations and waits for none has applied
\* them all, so its counter is past them.
LEMMA CaughtUpKeepsIndInv ==
  ASSUME FullReplay, IndInv, NEW r \in Replica, CaughtUp(r)
  PROVE  IndInv' /\ SeesOnly(r, SeenOps(r))
<1>1. /\ ready' = ready \cup {r} /\ Ids(IssuedBy(r)) \subseteq seen[r] /\ Pending(r) = {}
      /\ UNCHANGED <<counter, elements, deleted, seen, pendingInserts, pendingDeletes, restarts, issued>>
  BY DEF CaughtUp, crdtVars
<1>2. TypeOK'
  BY <1>1 DEF IndInv, Consistent, TypeOK
<1>3. IdsAreUnique' /\ DepsAreIssued' /\ IssuedIsRooted' /\ IdsAreBounded' /\ SeenIsIssued'
  BY <1>1 DEF IndInv, Consistent, IdsAreUnique, DepsAreIssued, IssuedIsRooted, IdsAreBounded, SeenIsIssued
<1>4. \A s \in Replica : FollowsSeen(s)' /\ CounterCovers(s)'
  <2> SUFFICES ASSUME NEW s \in Replica PROVE FollowsSeen(s)' /\ CounterCovers(s)'
    OBVIOUS
  <2>1. SeenOps(s)' = SeenOps(s)
    BY <1>1 DEF SeenOps
  <2> QED
    BY <1>1, <2>1, OtherReplica
<1>5. \A op \in IssuedBy(r) : op.opId.counter <= counter[r]
  BY <1>1 DEF IndInv, Consistent, CounterCovers, IssuedBy, SeenOps, Ids
<1>6. NextIdIsFresh'
  BY <1>1, <1>5 DEF IndInv, Consistent, NextIdIsFresh, IssuedBy
<1>7. SeesOnly(r, SeenOps(r))
  BY <1>1 DEF SeesOnly, SeenOps
<1> QED
  BY <1>2, <1>3, <1>4, <1>6, <1>7 DEF IndInv, Consistent

\* The adopter's counter covers every id of its own the snapshot mentions.
LEMMA FromSnapshotKeepsIndInv ==
  ASSUME FullReplay, IndInv, NEW r \in Replica, NEW s \in Replica, FromSnapshot(r, s)
  PROVE  IndInv' /\ SeesOnly(r, SeenOps(s))
<1>1. TypeOK /\ r # s
  BY DEF FromSnapshot, IndInv, Consistent
<1> DEFINE top == MaxCounterFor(r, SnapshotIds(s))
<1>2. /\ elements'[r] = elements[s] /\ deleted'[r] = deleted[s] /\ seen'[r] = seen[s]
      /\ pendingInserts'[r] = pendingInserts[s] /\ pendingDeletes'[r] = pendingDeletes[s]
      /\ counter'[r] = top /\ issued' = issued /\ ready' = ready \cup {r}
      /\ Ids(IssuedBy(r)) \subseteq seen[s]
  BY <1>1 DEF FromSnapshot, TypeOK
<1>3. \A q \in Replica \ {r} :
         /\ elements'[q] = elements[q] /\ deleted'[q] = deleted[q] /\ counter'[q] = counter[q]
         /\ pendingInserts'[q] = pendingInserts[q] /\ pendingDeletes'[q] = pendingDeletes[q]
         /\ seen'[q] = seen[q]
  BY <1>1 DEF FromSnapshot, TypeOK
<1>4. SnapshotIds(s) = seen[s]
  <2>1. elements[s] \cup Pending(s) \subseteq SeenOps(s) /\ Ids(SeenOps(s)) = seen[s]
    BY ReplicaFacts DEF Inserts
  <2> QED
    BY <2>1 DEF SnapshotIds, Ids
<1>5. top \in Nat /\ \A op \in IssuedBy(r) : op.opId.counter <= top
  <2>1. PICK b \in Nat : \A o \in issued : o.opId.counter <= b
    BY DEF IndInv, IdsAreBounded
  <2>2. \A id \in seen[s] : id.counter \in Nat /\ id.counter <= b
    BY <1>1, <2>1 DEF IndInv, Consistent, SeenIsIssued, Ids, TypeOK, ElementId
  <2>3. top \in Nat /\ \A id \in seen[s] : id.replica = r => id.counter <= top
    BY <1>4, <2>2, MaxCounterForBounds
  <2> QED
    BY <1>2, <2>3 DEF IssuedBy, Ids
<1>6. TypeOK'
  BY <1>1, <1>5 DEF FromSnapshot, TypeOK
<1>7. IdsAreUnique' /\ DepsAreIssued' /\ IssuedIsRooted' /\ IdsAreBounded'
  BY <1>2 DEF IndInv, Consistent, IdsAreUnique, DepsAreIssued, IssuedIsRooted, IdsAreBounded
<1>8. SeenIsIssued'
  BY <1>2, <1>3 DEF IndInv, Consistent, SeenIsIssued
<1>9. NextIdIsFresh'
  BY <1>1, <1>2, <1>3, <1>5 DEF IndInv, Consistent, NextIdIsFresh, IssuedBy, TypeOK
<1>10. FollowsSeen(r)' /\ CounterCovers(r)'
  <2>1. SeenOps(r)' = SeenOps(s)
    BY <1>2 DEF SeenOps
  <2>2. FollowsSeen(s)
    BY DEF IndInv, Consistent
  <2>3. FollowsSeen(r)'
    BY <1>2, <2>1, <2>2 DEF FollowsSeen
  <2>4. CounterCovers(r)'
    BY <1>2, <1>5 DEF CounterCovers, SeenOps, IssuedBy
  <2> QED
    BY <2>3, <2>4
<1>11. \A q \in Replica \ {r} : FollowsSeen(q)' /\ CounterCovers(q)'
  <2> SUFFICES ASSUME NEW q \in Replica \ {r} PROVE FollowsSeen(q)' /\ CounterCovers(q)'
    OBVIOUS
  <2>1. SeenOps(q)' = SeenOps(q)
    BY <1>2, <1>3 DEF SeenOps
  <2> QED
    BY <1>3, <2>1, OtherReplica
<1>12. SeesOnly(r, SeenOps(s))
  BY <1>2, <1>3 DEF SeesOnly, SeenOps
<1> QED
  BY <1>6, <1>7, <1>8, <1>9, <1>10, <1>11, <1>12 DEF IndInv, Consistent

-----------------------------------------------------------------------------
(* Theorems.                                                               *)

\* A step that leaves every variable alone leaves the invariant alone.
LEMMA StutterKeepsIndInv ==
  ASSUME IndInv, UNCHANGED vars
  PROVE  IndInv' /\ \A r \in Replica : SeenOps(r)' = SeenOps(r)
<1>1. /\ UNCHANGED <<counter, elements, deleted, seen, pendingInserts, pendingDeletes>>
      /\ UNCHANGED <<ready, restarts, issued>>
  BY DEF vars, crdtVars
<1>2. \A r \in Replica : SeenOps(r)' = SeenOps(r)
  BY <1>1 DEF SeenOps
<1>3. \A r \in Replica : FollowsSeen(r)' /\ CounterCovers(r)'
  BY <1>1, <1>2, OtherReplica
<1>4. TypeOK'
  BY <1>1 DEF IndInv, Consistent, TypeOK
<1>5. /\ IdsAreUnique' /\ DepsAreIssued' /\ IssuedIsRooted' /\ SeenIsIssued'
      /\ NextIdIsFresh' /\ IdsAreBounded'
  BY <1>1 DEF IndInv, Consistent, IdsAreUnique, DepsAreIssued, IssuedIsRooted, SeenIsIssued,
              NextIdIsFresh, IssuedBy, IdsAreBounded
<1> QED
  BY <1>2, <1>3, <1>4, <1>5 DEF IndInv, Consistent

LEMMA NextKeepsIndInv == ASSUME FullReplay PROVE IndInv /\ [Next]_vars => IndInv'
<1> SUFFICES ASSUME IndInv, [Next]_vars PROVE IndInv'
  OBVIOUS
<1>1. CASE UNCHANGED vars
  BY <1>1, StutterKeepsIndInv
<1>2. ASSUME NEW r \in Replica, NEW index \in 0..MaxOps, NEW n \in 1..MaxChars,
             Insert(r, index, n) \/ Delete(r, index, n)
      PROVE  IndInv'
  BY <1>2, InsertKeepsIndInv, DeleteKeepsIndInv
<1>3. ASSUME NEW r \in Replica, NEW op \in issued, Apply(r, op) PROVE IndInv'
  <2>1. CASE ApplyDuplicate(r, op)
    BY <2>1, StutterKeepsIndInv DEF ApplyDuplicate
  <2>2. CASE ApplyQueued(r, op)
    BY <2>2, QueuedKeepsIndInv
  <2>3. CASE ApplyNow(r, op)
    BY <2>3, AppliedKeepsIndInv
  <2> QED
    BY <1>3, <2>1, <2>2, <2>3 DEF Apply
<1>4. ASSUME NEW r \in Replica, Restart(r) PROVE IndInv'
  BY <1>4, RestartKeepsIndInv
<1>5. ASSUME NEW r \in Replica, CaughtUp(r) PROVE IndInv'
  BY <1>5, CaughtUpKeepsIndInv
<1>6. ASSUME NEW r \in Replica, NEW s \in Replica, FromSnapshot(r, s) PROVE IndInv'
  BY <1>6, FromSnapshotKeepsIndInv
<1> QED
  BY <1>1, <1>2, <1>3, <1>4, <1>5, <1>6 DEF Next

\* Every reachable state satisfies the inductive invariant.
THEOREM InvariantHolds == ASSUME FullReplay PROVE Spec => []IndInv
  BY InitIndInv, NextKeepsIndInv, PTL DEF Spec

\* The fields keep their types.
THEOREM TypeCorrect == ASSUME FullReplay PROVE Spec => []TypeOK
<1>1. IndInv => TypeOK
  BY DEF IndInv, Consistent
<1> QED
  BY <1>1, InvariantHolds, PTL

\* In every reachable state each replica is a function of what it has seen, and
\* the auxiliary facts about ids and dependencies hold (the part of IndInv that
\* the runs check).
THEOREM AlwaysConsistent == ASSUME FullReplay PROVE Spec => []Consistent
<1>1. IndInv => Consistent
  BY DEF IndInv
<1> QED
  BY <1>1, InvariantHolds, PTL

\* Replicas that have seen the same operations hold the same characters, the
\* same tombstones and the same waiting operations.
THEOREM ReplicasConverge == ASSUME FullReplay PROVE Spec => []StrongConvergence
<1>1. IndInv => StrongConvergence
  <2> SUFFICES ASSUME IndInv, NEW r \in Replica, NEW s \in Replica, seen[r] = seen[s]
               PROVE  /\ elements[r] = elements[s] /\ deleted[r] = deleted[s]
                      /\ Pending(r) = Pending(s)
    BY DEF StrongConvergence
  <2>1. SeenOps(r) = SeenOps(s)
    BY DEF SeenOps
  <2>2. FollowsSeen(r) /\ FollowsSeen(s)
    BY DEF IndInv, Consistent
  <2> QED
    BY <2>1, <2>2 DEF FollowsSeen, Pending
<1> QED
  BY <1>1, InvariantHolds, PTL

\* A seen operation is in force or waits for a dependency that is missing.
THEOREM NothingSeenIsLost == ASSUME FullReplay PROVE Spec => []SeenIsAppliedOrWaiting
<1>1. IndInv => SeenIsAppliedOrWaiting
  <2> SUFFICES ASSUME IndInv, NEW r \in Replica, NEW op \in SeenOps(r)
               PROVE  IF HasDep(elements[r], op)
                      THEN /\ op \notin Pending(r)
                           /\ IF op.type = "insert" THEN op \in elements[r] ELSE op.dep \in deleted[r]
                      ELSE op \in Pending(r) /\ op \notin elements[r]
    BY DEF SeenIsAppliedOrWaiting
  <2> DEFINE I == Inserts(SeenOps(r))
  <2>1. FollowsSeen(r) /\ elements[r] \subseteq I
    BY ReplicaFacts DEF IndInv, Consistent
  <2>2. op \in I \/ op \in Deletes(SeenOps(r))
    BY ReplicaFacts DEF IndInv, Consistent, TypeOK, Operation, InsertOp, DeleteOp, Inserts, Deletes
  <2>3. DrainMayStop({}, I, elements[r])
    BY <2>1, DrainedMayStop DEF FollowsSeen
  <2>4. CASE op \in I
    <3>1. op.type = "insert" /\ op \notin pendingDeletes[r]
      BY <2>1, <2>4 DEF Inserts, Deletes, FollowsSeen
    <3>2. HasDep(elements[r], op) <=> op \in elements[r]
      <4>1. HasDep(elements[r], op) => op \in elements[r]
        BY <2>3, <2>4 DEF DrainMayStop, HasDep, Ids
      <4>2. elements[r] = Drained({}, I)
        BY <2>1 DEF FollowsSeen
      <4>3. DrainMayStop({}, I, {p \in elements[r] : HasDep(elements[r], p)})
        BY <2>3 DEF DrainMayStop, HasDep, Ids
      <4>4. elements[r] \subseteq {p \in elements[r] : HasDep(elements[r], p)}
        BY <2>1, <4>2, <4>3, DrainedIsLeast
      <4> QED
        BY <4>1, <4>4
    <3> QED
      BY <2>1, <2>4, <3>1, <3>2 DEF FollowsSeen, Pending
  <2>5. CASE op \in Deletes(SeenOps(r))
    <3>1. op.type = "delete" /\ op \notin I
      BY <2>5 DEF Inserts, Deletes
    <3> QED
      BY <2>1, <2>5, <3>1 DEF FollowsSeen, Pending, Deps
  <2> QED
    BY <2>2, <2>4, <2>5
<1> QED
  BY <1>1, InvariantHolds, PTL

\* A replica that has seen everything issued has nothing waiting.
THEOREM FullDeliveryLeavesNothing == ASSUME FullReplay PROVE Spec => []AllSeenNothingWaits
<1>1. IndInv => AllSeenNothingWaits
  <2> SUFFICES ASSUME IndInv, NEW r \in Replica, Ids(issued) \subseteq seen[r]
               PROVE  Pending(r) = {}
    BY DEF AllSeenNothingWaits
  <2>1. SeenOps(r) = issued
    BY DEF SeenOps, Ids
  <2>2. FollowsSeen(r) /\ IssuedIsRooted /\ DepsAreIssued
    BY DEF IndInv, Consistent
  <2>3. elements[r] = Inserts(issued)
    BY <2>1, <2>2 DEF FollowsSeen, IssuedIsRooted
  <2>4. \A d \in issued : HasDep(elements[r], d)
    BY <2>2, <2>3 DEF DepsAreIssued, HasDep
  <2>5. pendingInserts[r] = {} /\ pendingDeletes[r] = {}
    BY <2>1, <2>2, <2>3, <2>4 DEF FollowsSeen, Deletes
  <2> QED
    BY <2>5 DEF Pending
<1> QED
  BY <1>1, InvariantHolds, PTL

-----------------------------------------------------------------------------
(* Replication implements OpSet.                                           *)

Known   == [r \in Replica |-> SeenOps(r)]
Content == [r \in Replica |-> [chars |-> elements[r], deleted |-> deleted[r]]]

\* The definitions of OpSet are those of TextCrdt.
LEMMA SameContent ==
  ASSUME NEW ops
  PROVE  OpSet!Content(ops) =
           [chars   |-> Drained({}, Inserts(ops)),
            deleted |-> Deps({d \in Deletes(ops) : HasDep(Drained({}, Inserts(ops)), d)})]
  BY DEF OpSet!Content, OpSet!Drained, Drained, OpSet!DrainMayStop, DrainMayStop, OpSet!HasDep, HasDep,
         OpSet!Root, Root, OpSet!Ids, Ids, OpSet!Inserts, Inserts, OpSet!Deletes, Deletes, Deps

LEMMA ContentIsOfKnown ==
  ASSUME IndInv, NEW r \in Replica
  PROVE  Content[r] = OpSet!Content(SeenOps(r))
<1>1. FollowsSeen(r)
  BY DEF IndInv, Consistent
<1> QED
  BY <1>1, SameContent DEF FollowsSeen, Content

\* A step after which r has seen ops, and the others what they had seen before,
\* changes what OpSet says of r and nothing else.
LEMMA SeesOnlyIsKnows ==
  ASSUME IndInv, IndInv', NEW r \in Replica, NEW ops,
         SeenOps(r)' = ops, \A s \in Replica \ {r} : SeenOps(s)' = SeenOps(s)
  PROVE  /\ Known'   = [Known EXCEPT ![r] = ops]
         /\ Content' = [Content EXCEPT ![r] = OpSet!Content(ops)]
<1>1. Known' = [Known EXCEPT ![r] = ops]
  BY DEF Known
<1>2. \A s \in Replica : Content'[s] = OpSet!Content(SeenOps(s)')
  <2> SUFFICES ASSUME NEW s \in Replica PROVE Content'[s] = OpSet!Content(SeenOps(s)')
    OBVIOUS
  <2>1. FollowsSeen(s)'
    BY DEF IndInv, Consistent
  <2> QED
    BY <2>1, SameContent DEF FollowsSeen, Content
<1>3. \A s \in Replica \ {r} : Content'[s] = Content[s]
  BY <1>2, ContentIsOfKnown
<1>4. Content'[r] = OpSet!Content(ops)
  BY <1>2
<1>5. Content' = [Content EXCEPT ![r] = OpSet!Content(ops)]
  BY <1>3, <1>4 DEF Content
<1> QED
  BY <1>1, <1>5

LEMMA InitImplements == Init => OpSet!Init
<1> SUFFICES ASSUME Init PROVE OpSet!Init
  OBVIOUS
<1>1. IndInv
  BY InitIndInv
<1>2. \A r \in Replica : SeenOps(r) = {}
  BY DEF Init, SeenOps
<1>3. \A r \in Replica : Content[r] = OpSet!Content({})
  BY <1>1, <1>2, ContentIsOfKnown
<1> QED
  BY <1>2, <1>3 DEF Init, OpSet!Init, Content

LEMMA NextImplements ==
  ASSUME FullReplay, IndInv, IndInv', [Next]_vars
  PROVE  OpSet!Next \/ UNCHANGED <<issued, Known, Content>>
<1>1. CASE UNCHANGED vars
  <2>1. UNCHANGED <<issued, Known>>
    BY <1>1, StutterKeepsIndInv DEF Known, vars
  <2>2. UNCHANGED Content
    BY <1>1 DEF Content, vars, crdtVars
  <2> QED
    BY <2>1, <2>2
<1>2. ASSUME NEW r \in Replica, NEW index \in 0..MaxOps, NEW n \in 1..MaxChars,
             Insert(r, index, n) \/ Delete(r, index, n)
      PROVE  OpSet!Next
  <2>1. IssuesOnly(r)
    BY <1>2, InsertKeepsIndInv, DeleteKeepsIndInv
  <2>2. /\ Known'   = [Known EXCEPT ![r] = Known[r] \cup (issued' \ issued)]
        /\ Content' = [Content EXCEPT ![r] = OpSet!Content(Known[r] \cup (issued' \ issued))]
    <3>1. IndInv'
      OBVIOUS
    <3>2. SeenOps(r)' = Known[r] \cup (issued' \ issued)
      BY <2>1 DEF IssuesOnly, SeesOnly, Known
    <3>3. \A s \in Replica \ {r} : SeenOps(s)' = SeenOps(s)
      BY <2>1 DEF IssuesOnly, SeesOnly
    <3> QED
      BY <3>1, <3>2, <3>3, SeesOnlyIsKnows
  <2>3. \A o, p \in issued' : o.opId = p.opId => o = p
    BY DEF IndInv, Consistent, IdsAreUnique
  <2>4. OpSet!Issue(r)
    BY <2>1, <2>2, <2>3 DEF IssuesOnly, OpSet!Issue, OpSet!Knows, Known, Content
  <2> QED
    BY <2>4 DEF OpSet!Next
<1>3. ASSUME NEW r \in Replica, NEW op \in issued, Apply(r, op)
      PROVE  OpSet!Next \/ UNCHANGED <<issued, Known, Content>>
  <2>1. CASE ApplyDuplicate(r, op)
    BY <2>1, <1>1 DEF ApplyDuplicate
  <2>2. CASE ApplyQueued(r, op) \/ ApplyNow(r, op)
    <3>1. SeesOnly(r, SeenOps(r) \cup {op}) /\ issued' = issued
      BY <2>2, QueuedKeepsIndInv, AppliedKeepsIndInv DEF ApplyQueued, ApplyNow
    <3>2. /\ Known'   = [Known EXCEPT ![r] = Known[r] \cup {op}]
          /\ Content' = [Content EXCEPT ![r] = OpSet!Content(Known[r] \cup {op})]
      <4>1. SeenOps(r)' = Known[r] \cup {op}
        BY <3>1 DEF SeesOnly, Known
      <4>2. \A s \in Replica \ {r} : SeenOps(s)' = SeenOps(s)
        BY <3>1 DEF SeesOnly
      <4> QED
        BY <4>1, <4>2, SeesOnlyIsKnows
    <3>3. OpSet!Learn(r, op)
      BY <3>1, <3>2 DEF OpSet!Learn, OpSet!Knows, Known, Content
    <3> QED
      BY <3>3 DEF OpSet!Next
  <2> QED
    BY <1>3, <2>1, <2>2 DEF Apply
<1>4. ASSUME NEW r \in Replica, Restart(r) PROVE OpSet!Next
  <2>1. SeesOnly(r, {}) /\ issued' = issued
    BY <1>4, RestartKeepsIndInv DEF Restart
  <2>2. /\ Known'   = [Known EXCEPT ![r] = {}]
        /\ Content' = [Content EXCEPT ![r] = OpSet!Content({})]
    BY <2>1, SeesOnlyIsKnows DEF SeesOnly
  <2>3. OpSet!Reset(r)
    BY <2>1, <2>2 DEF OpSet!Reset, OpSet!Knows, Known, Content
  <2> QED
    BY <2>3 DEF OpSet!Next
<1>5. ASSUME NEW r \in Replica, CaughtUp(r) PROVE UNCHANGED <<issued, Known, Content>>
  <2>1. UNCHANGED <<issued, elements, deleted, seen>>
    BY <1>5 DEF CaughtUp, crdtVars
  <2> QED
    BY <2>1 DEF Known, Content, SeenOps
<1>6. ASSUME NEW r \in Replica, NEW s \in Replica, FromSnapshot(r, s) PROVE OpSet!Next
  <2>1. SeesOnly(r, SeenOps(s)) /\ issued' = issued
    BY <1>6, FromSnapshotKeepsIndInv DEF FromSnapshot
  <2>2. /\ Known'   = [Known EXCEPT ![r] = Known[s]]
        /\ Content' = [Content EXCEPT ![r] = OpSet!Content(Known[s])]
    <3>1. SeenOps(r)' = Known[s]
      BY <2>1 DEF SeesOnly, Known
    <3>2. \A q \in Replica \ {r} : SeenOps(q)' = SeenOps(q)
      BY <2>1 DEF SeesOnly
    <3> QED
      BY <3>1, <3>2, SeesOnlyIsKnows
  <2>3. OpSet!Copy(r, s)
    BY <2>1, <2>2 DEF OpSet!Copy, OpSet!Knows, Known, Content
  <2> QED
    BY <2>3 DEF OpSet!Next
<1> QED
  BY <1>1, <1>2, <1>3, <1>4, <1>5, <1>6 DEF Next

\* A replica shows exactly what the set of operations it has seen determines:
\* text_crdt.rs implements the abstract specification OpSet.
THEOREM Refinement == ASSUME FullReplay PROVE Spec => ImplementsOpSet
<1>1. Init => OpSet!Init
  BY InitImplements
<1>2. IndInv /\ IndInv' /\ [Next]_vars => [OpSet!Next]_<<issued, Known, Content>>
  BY NextImplements
<1> QED
  BY <1>1, <1>2, InvariantHolds, PTL DEF Spec, ImplementsOpSet, OpSet!Spec, Known, Content

-----------------------------------------------------------------------------
(* The inserts that a replica has applied are a tree.                      *)

LEMMA ClosureOfClosure ==
  ASSUME NEW I
  PROVE  Closure(Closure(I)) = Closure(I)
<1>1. DrainMayStop({}, I, Closure(I)) /\ Closure(I) \subseteq I
  BY DrainedMayStop DEF Closure, Drained
<1>2. ASSUME NEW D \in SUBSET Closure(I), DrainMayStop({}, Closure(I), D)
      PROVE  Closure(I) \subseteq D
  <2>1. DrainMayStop({}, I, D) /\ D \in SUBSET I
    BY <1>1, <1>2 DEF DrainMayStop, HasDep, Ids
  <2> QED
    BY <2>1, DrainedIsLeast DEF Closure
<1>3. DrainMayStop({}, Closure(I), Closure(Closure(I))) /\ Closure(Closure(I)) \subseteq Closure(I)
  BY DrainedMayStop DEF Closure, Drained
<1> QED
  BY <1>2, <1>3

LEMMA TreesOfReplicas ==
  ASSUME IndInv
  PROVE  /\ IsTree(Inserts(issued)) /\ HasNumbers(Inserts(issued))
         /\ \A r \in Replica : /\ elements[r] \subseteq Inserts(issued)
                               /\ IsTree(elements[r]) /\ HasNumbers(elements[r])
<1>1. /\ TypeOK /\ IdsAreUnique /\ IssuedIsRooted
      /\ \A r \in Replica : FollowsSeen(r)
  BY DEF IndInv, Consistent
<1>2. HasNumbers(Inserts(issued)) /\ Root \notin Ids(Inserts(issued))
  <2>1. ASSUME NEW p \in Inserts(issued)
        PROVE  p.opId \in [counter : Nat, replica : Nat] /\ p.opId # Root
    <3>1. p.opId \in ElementId
      BY <1>1 DEF TypeOK, Inserts, Operation, InsertOp, DeleteOp
    <3>2. p.opId \in [counter : Nat \ {0}, replica : Nat]
      BY <3>1, ReplicaAssumption DEF ElementId
    <3>3. p.opId.counter # 0 /\ Root.counter = 0
      BY <3>2 DEF Root
    <3>4. p.opId \in [counter : Nat, replica : Nat]
      BY <3>2
    <3> QED
      BY <3>3, <3>4
  <2> QED
    BY <2>1 DEF HasNumbers, Ids
<1>3. \A p, q \in Inserts(issued) : p.opId = q.opId => p = q
  BY <1>1 DEF IdsAreUnique, Inserts
<1>4. IsTree(Inserts(issued))
  BY <1>1, <1>2, <1>3 DEF IsTree, IssuedIsRooted, Closure
<1>5. ASSUME NEW r \in Replica
      PROVE  elements[r] \subseteq Inserts(issued) /\ IsTree(elements[r]) /\ HasNumbers(elements[r])
  <2>1. elements[r] = Closure(Inserts(SeenOps(r)))
    BY <1>1 DEF FollowsSeen, Closure
  <2>2. elements[r] \subseteq Inserts(issued)
    BY <2>1 DEF Closure, Drained, Inserts, SeenOps
  <2>3. Closure(elements[r]) = elements[r]
    BY <2>1, ClosureOfClosure
  <2>4. Root \notin Ids(elements[r])
    BY <1>2, <2>2 DEF Ids
  <2> QED
    BY <1>2, <1>3, <2>2, <2>3, <2>4 DEF IsTree, HasNumbers
<1> QED
  BY <1>2, <1>4, <1>5

-----------------------------------------------------------------------------
(* The children index.                                                     *)

\* What hangs on an insert of a tree is anchored to the tree.
LEMMA AnchorsAreInTree ==
  ASSUME NEW E, IsTree(E), NEW e \in E
  PROVE  e.dep = Root \/ e.dep \in Ids(E)
<1> DEFINE D == {p \in E : p.dep = Root \/ p.dep \in Ids(E)}
<1>1. DrainMayStop({}, E, D)
  BY DEF DrainMayStop, HasDep, Ids
<1>2. E \subseteq D
  BY <1>1, DrainedIsLeast DEF IsTree, Closure
<1> QED
  BY <1>2

LEMMA EmptyIndex == IsIndex({}, NoChildren)
<1>1. ChildIds({}, Root) = {} /\ Ids({}) = {}
  BY DEF ChildIds, Ids
<1>2. SortSiblings({}) = <<>>
  BY FS_EmptySet DEF SortSiblings
<1> QED
  BY <1>1, <1>2 DEF IsIndex, NoChildren

\* Keeping up the index insert by insert gives the index made from scratch.
LEMMA IndexOfMore ==
  ASSUME NEW E, NEW ops, NEW ch, IsTree(E), HasNumbers(E), IsFiniteSet(Ids(E)), IsIndex(E, ch)
  PROVE  IsIndex(E \cup ops, IndexChildren(ch, ops))
<1> DEFINE all  == E \cup ops
           old(k) == IF k \in DOMAIN ch THEN ch[k] ELSE <<>>
           new(k) == {o.opId : o \in {x \in ops : x.dep = k}}
<1>1. DOMAIN IndexChildren(ch, ops) = {Root} \cup Ids(all)
  BY DEF IndexChildren, IsIndex, Ids
<1>2. ASSUME NEW k \in {Root} \cup Ids(all)
      PROVE  IndexChildren(ch, ops)[k] = SortSiblings(ChildIds(all, k))
  <2>1. IndexChildren(ch, ops)[k] = SortSiblings(ToSet(old(k)) \cup new(k))
    BY <1>1 DEF IndexChildren, AddSiblings
  <2>2. ToSet(old(k)) = ChildIds(E, k)
    <3>1. CASE k \in DOMAIN ch
      <4>1. old(k) = SortSiblings(ChildIds(E, k))
        BY <3>1 DEF IsIndex
      <4>2. ChildIds(E, k) \in SUBSET Ids(E) /\ \A x \in ChildIds(E, k) : x \in [counter : Nat, replica : Nat]
        BY DEF ChildIds, Ids, HasNumbers
      <4>3. IsFiniteSet(ChildIds(E, k))
        BY <4>2, FS_Subset
      <4> HIDE DEF old
      <4> QED
        BY <4>1, <4>2, <4>3, SortSiblingsSorts
    <3>2. CASE k \notin DOMAIN ch
      <4>1. ToSet(old(k)) = {}
        BY <3>2 DEF ToSet
      <4>2. k # Root /\ k \notin Ids(E)
        BY <3>2 DEF IsIndex
      <4>3. ChildIds(E, k) = {}
        BY <4>2, AnchorsAreInTree DEF ChildIds, Ids
      <4> QED
        BY <4>1, <4>3
    <3> QED
      BY <3>1, <3>2
  <2>3. ChildIds(E, k) \cup new(k) = ChildIds(all, k)
    BY DEF ChildIds, Ids
  <2> QED
    BY <2>1, <2>2, <2>3
<1> QED
  BY <1>1, <1>2 DEF IsIndex

-----------------------------------------------------------------------------
(* The invariant: finitely many operations, and every index is that of the *)
(* elements of its replica.                                                *)

IndexInv ==
  /\ IsFiniteSet(issued)
  /\ children = [r \in Replica |-> children[r]]
  /\ \A r \in Replica : IsIndex(elements[r], children[r])

LEMMA FiniteElements ==
  ASSUME IsFiniteSet(issued), NEW E, E \subseteq issued
  PROVE  IsFiniteSet(E) /\ IsFiniteSet(Ids(E))
<1>1. IsFiniteSet(E)
  BY FS_Subset
<1> DEFINE f == [o \in E |-> o.opId]
<1>2. f \in Surjection(E, Ids(E))
  BY DEF Surjection, Ids
<1> QED
  BY <1>1, <1>2, FS_Surjection

LEMMA FiniteIds ==
  ASSUME IndInv, IndexInv, NEW r \in Replica
  PROVE  IsFiniteSet(Ids(elements[r]))
<1>1. elements[r] \subseteq issued
  BY TreesOfReplicas DEF Inserts
<1> QED
  BY <1>1, FiniteElements DEF IndexInv

\* A step that leaves the operations alone, and every index but that of r.
LEMMA OneIndexChanges ==
  ASSUME IndInv, IndexInv, NEW r \in Replica,
         NEW ch, children' = [children EXCEPT ![r] = ch], IsIndex(elements'[r], ch),
         \A s \in Replica \ {r} : elements'[s] = elements[s],
         IsFiniteSet(issued')
  PROVE  IndexInv'
<1>1. children' = [s \in Replica |-> IF s = r THEN ch ELSE children[s]]
  BY DEF IndexInv
<1>2. \A s \in Replica : IsIndex(elements'[s], children'[s])
  BY <1>1 DEF IndexInv
<1> QED
  BY <1>1, <1>2 DEF IndexInv

LEMMA InsertKeepsIndex ==
  ASSUME IndInv, IndexInv, NEW r \in Replica, NEW index \in 0..MaxOps, NEW n \in 1..MaxChars,
         Insert(r, index, n)
  PROVE  IndexInv'
<1>1. PICK anchor : LET ops   == InsertChain(r, anchor, n)
                        added == AddElements(elements[r], ops) \ elements[r]
                    IN  /\ issued'   = issued \cup ops
                        /\ elements' = [elements EXCEPT ![r] = @ \cup added]
                        /\ children' = [children EXCEPT ![r] = IndexChildren(@, added)]
  BY DEF Insert
<1> DEFINE ops   == InsertChain(r, anchor, n)
           added == AddElements(elements[r], ops) \ elements[r]
           ch    == IndexChildren(children[r], added)
<1>2. elements \in [Replica -> SUBSET InsertOp]
  BY DEF IndInv, Consistent, TypeOK
<1>3. /\ elements'[r] = elements[r] \cup added
      /\ \A s \in Replica \ {r} : elements'[s] = elements[s]
      /\ children' = [children EXCEPT ![r] = ch]
  BY <1>1, <1>2
<1>4. IsIndex(elements[r] \cup added, ch)
  BY TreesOfReplicas, FiniteIds, IndexOfMore DEF IndexInv
<1>5. IsFiniteSet(issued')
  <2> DEFINE f == [k \in 1..n |-> [type |-> "insert", opId |-> NextId(r, k),
                                   dep |-> IF k = 1 THEN anchor ELSE NextId(r, k - 1)]]
  <2>1. f \in Surjection(1..n, ops)
    BY DEF Surjection, InsertChain
  <2>2. IsFiniteSet(1..n)
    BY FS_Interval
  <2>3. IsFiniteSet(ops)
    BY <2>1, <2>2, FS_Surjection
  <2> QED
    BY <1>1, <2>3, FS_Union DEF IndexInv
<1> HIDE DEF ch, added
<1> QED
  BY <1>3, <1>4, <1>5, OneIndexChanges

LEMMA DeleteKeepsIndex ==
  ASSUME IndInv, IndexInv, NEW r \in Replica, NEW index \in 0..MaxOps, NEW n \in 1..MaxChars,
         Delete(r, index, n)
  PROVE  IndexInv'
<1>1. PICK target : issued' = issued \cup {[type |-> "delete", opId |-> NextId(r, k), dep |-> target[k]] : k \in 1..n}
  BY DEF Delete
<1> DEFINE f   == [k \in 1..n |-> [type |-> "delete", opId |-> NextId(r, k), dep |-> target[k]]]
           ops == {[type |-> "delete", opId |-> NextId(r, k), dep |-> target[k]] : k \in 1..n}
<1>2. f \in Surjection(1..n, ops)
  BY DEF Surjection
<1>3. IsFiniteSet(1..n)
  BY FS_Interval
<1>4. IsFiniteSet(ops)
  BY <1>2, <1>3, FS_Surjection
<1>5. IsFiniteSet(issued')
  BY <1>1, <1>4, FS_Union DEF IndexInv
<1> QED
  BY <1>5 DEF Delete, IndexInv

LEMMA ApplyNowKeepsIndex ==
  ASSUME IndInv, IndexInv, NEW r \in Replica, NEW op \in issued, ApplyNow(r, op)
  PROVE  IndexInv'
<1> DEFINE base    == AddElements(elements[r], Inserts({op}))
           drained == Drained(base, pendingInserts[r])
           all     == AddElements(base, drained)
           ch      == IndexChildren(children[r], all \ elements[r])
<1>1. /\ elements' = [elements EXCEPT ![r] = all]
      /\ children' = [children EXCEPT ![r] = ch]
      /\ issued' = issued
  BY DEF ApplyNow
<1>2. elements \in [Replica -> SUBSET InsertOp]
  BY DEF IndInv, Consistent, TypeOK
<1>3. elements[r] \subseteq all
  BY DEF AddElements
<1>4. IsIndex(elements[r] \cup (all \ elements[r]), ch)
  <2> HIDE DEF all
  <2> QED
    BY TreesOfReplicas, FiniteIds, IndexOfMore DEF IndexInv
<1>5. elements'[r] = elements[r] \cup (all \ elements[r])
  <2> HIDE DEF all
  <2> QED
    BY <1>1, <1>2, <1>3
<1>6. \A s \in Replica \ {r} : elements'[s] = elements[s]
  BY <1>1, <1>2
<1>7. IsFiniteSet(issued')
  BY <1>1 DEF IndexInv
<1> HIDE DEF all, ch
<1> QED
  BY <1>1, <1>4, <1>5, <1>6, <1>7, OneIndexChanges

LEMMA NextKeepsIndex ==
  ASSUME IndInv, IndexInv, [Next]_vars
  PROVE  IndexInv'
<1>1. elements \in [Replica -> SUBSET InsertOp]
  BY DEF IndInv, Consistent, TypeOK
<1>2. ASSUME NEW r \in Replica, Restart(r) PROVE IndexInv'
  <2>1. /\ elements' = [elements EXCEPT ![r] = {}]
        /\ children' = [children EXCEPT ![r] = NoChildren]
        /\ issued' = issued
    BY <1>2 DEF Restart
  <2>2. elements'[r] = {} /\ \A s \in Replica \ {r} : elements'[s] = elements[s]
    BY <2>1, <1>1
  <2>3. IsIndex(elements'[r], NoChildren) /\ IsFiniteSet(issued')
    BY <2>1, <2>2, EmptyIndex DEF IndexInv
  <2> QED
    BY <2>1, <2>2, <2>3, OneIndexChanges
<1>3. ASSUME NEW r \in Replica, NEW s \in Replica, FromSnapshot(r, s) PROVE IndexInv'
  <2> DEFINE ch == IndexChildren(NoChildren, elements[s])
  <2>1. /\ elements' = [elements EXCEPT ![r] = elements[s]]
        /\ children' = [children EXCEPT ![r] = ch]
        /\ issued' = issued
    BY <1>3 DEF FromSnapshot
  <2>2. elements'[r] = elements[s] /\ \A t \in Replica \ {r} : elements'[t] = elements[t]
    BY <2>1, <1>1
  <2>3. IsIndex({} \cup elements[s], ch)
    <3>1. IsTree({}) /\ HasNumbers({}) /\ IsFiniteSet(Ids({}))
      BY ClosureOfNothing, FS_EmptySet DEF IsTree, HasNumbers, Ids
    <3> QED
      BY <3>1, EmptyIndex, IndexOfMore
  <2>4. IsIndex(elements'[r], ch) /\ IsFiniteSet(issued')
    BY <2>1, <2>2, <2>3 DEF IndexInv
  <2> HIDE DEF ch
  <2> QED
    BY <2>1, <2>2, <2>4, OneIndexChanges
<1>4. ASSUME NEW r \in Replica, NEW op \in issued, Apply(r, op) PROVE IndexInv'
  <2>1. CASE ApplyNow(r, op)
    BY <2>1, ApplyNowKeepsIndex
  <2>2. CASE ApplyDuplicate(r, op) \/ ApplyQueued(r, op)
    BY <2>2 DEF ApplyDuplicate, ApplyQueued, IndexInv, vars, crdtVars
  <2> QED
    BY <1>4, <2>1, <2>2 DEF Apply
<1>5. ASSUME NEW r \in Replica, CaughtUp(r) PROVE IndexInv'
  BY <1>5 DEF CaughtUp, IndexInv, crdtVars
<1>6. CASE UNCHANGED vars
  BY <1>6 DEF IndexInv, vars, crdtVars
<1> QED
  BY <1>2, <1>3, <1>4, <1>5, <1>6, InsertKeepsIndex, DeleteKeepsIndex DEF Next

LEMMA IndexInvHolds == ASSUME FullReplay PROVE Spec => [](IndInv /\ IndexInv)
<1>1. Init => IndexInv
  BY EmptyIndex, FS_EmptySet DEF Init, IndexInv
<1>2. IndInv /\ IndexInv /\ [Next]_vars => IndexInv'
  BY NextKeepsIndex
<1> QED
  BY <1>1, <1>2, InvariantHolds, PTL DEF Spec

-----------------------------------------------------------------------------
(* Theorems.                                                               *)

\* What a replica shows: its characters that are not deleted, in the order of
\* the tree of its elements.
LEMMA VisibleIsOrdered ==
  ASSUME IndInv, IndexInv, NEW r \in Replica
  PROVE  /\ Visible(r) \in Seq(Ids(elements[r]))
         /\ ToSet(Visible(r)) = Alive(r)
         /\ \A i, j \in DOMAIN Visible(r) :
              i < j => Before(elements[r], Visible(r)[i], Visible(r)[j])
<1>1. /\ IsTree(elements[r]) /\ HasNumbers(elements[r])
      /\ IsFiniteSet(Ids(elements[r])) /\ IsIndex(elements[r], children[r])
  BY TreesOfReplicas, FiniteIds DEF IndexInv
<1> QED
  BY <1>1, WalkShows DEF Visible, Alive

\* drain_pending takes out what its rounds arrive at, whatever is waiting.
THEOREM DrainIsItsLoop == ASSUME FullReplay PROVE Spec => []DrainIsTheLoop
<1>1. IndInv /\ IndexInv => DrainIsTheLoop
  <2> SUFFICES ASSUME IndInv, IndexInv, NEW r \in Replica PROVE IsFiniteSet(pendingInserts[r])
    BY DrainLoopDrains DEF DrainIsTheLoop
  <2>1. pendingInserts[r] \subseteq issued
    BY DEF IndInv, Consistent, FollowsSeen, SeenOps, Inserts
  <2> QED
    BY <2>1, FiniteElements DEF IndexInv
<1> QED
  BY <1>1, IndexInvHolds, PTL

\* The index that inserts keep up one by one is that of rebuild_children, and
\* visible_elements shows every character that is not deleted exactly once.
THEOREM IndexStaysExact == ASSUME FullReplay PROVE Spec => []IndexIsExact
<1>1. IndInv /\ IndexInv => IndexIsExact
  <2> SUFFICES ASSUME IndInv, IndexInv, NEW r \in Replica
               PROVE  /\ \A k \in {Root} \cup Ids(elements[r]) :
                           children[r][k] = SortSiblings(Ids({e \in elements[r] : e.dep = k}))
                      /\ ToSet(Visible(r)) = Alive(r)
                      /\ Len(Visible(r)) = Cardinality(Alive(r))
    BY DEF IndexIsExact
  <2>1. \A k \in {Root} \cup Ids(elements[r]) :
          children[r][k] = SortSiblings(Ids({e \in elements[r] : e.dep = k}))
    BY DEF IndexInv, IsIndex, ChildIds
  <2> DEFINE v == Visible(r)
  <2>2. /\ v \in Seq(Ids(elements[r])) /\ ToSet(v) = Alive(r)
        /\ \A i, j \in DOMAIN v : i < j => Before(elements[r], v[i], v[j])
    BY VisibleIsOrdered
  <2> HIDE DEF v
  <2> DEFINE n == Len(v)
  <2>3. n \in Nat /\ DOMAIN v = 1..n
    BY <2>2
  <2>4. ASSUME NEW i \in 1..n, NEW j \in 1..n, i < j PROVE v[i] # v[j]
    <3>1. Before(elements[r], v[i], v[j])
      BY <2>2, <2>3, <2>4
    <3> QED
      BY <3>1, TreesOfReplicas, BeforeAsymmetric
  <2> HIDE DEF n
  <2>5. v \in Injection(1..n, Alive(r)) /\ v \in Surjection(1..n, Alive(r))
    <3>1. v \in [1..n -> Alive(r)]
      BY <2>2, <2>3 DEF ToSet
    <3>2. \A i, j \in 1..n : v[i] = v[j] => i = j
      BY <2>3, <2>4
    <3>3. \A a \in Alive(r) : \E i \in 1..n : v[i] = a
      BY <2>2, <2>3 DEF ToSet
    <3> QED
      BY <3>1, <3>2, <3>3 DEF Injection, IsInjective, Surjection
  <2>6. ExistsBijection(1..n, Alive(r))
    BY <2>5 DEF ExistsBijection, Bijection
  <2>7. Cardinality(Alive(r)) = n
    BY <2>3, <2>6, FS_CountingElements
  <2> QED
    BY <2>1, <2>2, <2>7 DEF v, n
<1> QED
  BY <1>1, IndexInvHolds, PTL

LEMMA PositionInText ==
  ASSUME NEW S, NEW v \in Seq(S), NEW a \in ToSet(v)
  PROVE  Position(v, a) \in DOMAIN v /\ v[Position(v, a)] = a
  BY DEF Position, ToSet

\* Two replicas never show two characters in opposite orders, for any number of
\* replicas, operations and restarts: the order of the text is that of the tree
\* of all inserts issued, and each replica shows a part of it.
THEOREM TextsAgreeOnOrder == ASSUME FullReplay PROVE Spec => []OrderAgreement
<1>1. IndInv /\ IndexInv => OrderAgreement
  <2> SUFFICES ASSUME IndInv, IndexInv, NEW r \in Replica, NEW s \in Replica,
                      NEW a \in ToSet(Visible(r)) \cap ToSet(Visible(s)),
                      NEW b \in ToSet(Visible(r)) \cap ToSet(Visible(s)),
                      Position(Visible(r), a) < Position(Visible(r), b)
               PROVE  Position(Visible(s), a) < Position(Visible(s), b)
    BY DEF OrderAgreement
  <2> DEFINE I == Inserts(issued)
             v == Visible(r)
             w == Visible(s)
  <2>1. IsTree(I) /\ HasNumbers(I) /\ elements[r] \subseteq I /\ elements[s] \subseteq I
    BY TreesOfReplicas
  <2>2. v \in Seq(Ids(elements[r])) /\ w \in Seq(Ids(elements[s]))
    BY VisibleIsOrdered
  <2>3. /\ \A i, j \in DOMAIN v : i < j => Before(I, v[i], v[j])
        /\ \A i, j \in DOMAIN w : i < j => Before(I, w[i], w[j])
    BY <2>1, VisibleIsOrdered, BeforeMonotone
  <2> HIDE DEF v, w, I
  <2>4. /\ Position(v, a) \in DOMAIN v /\ v[Position(v, a)] = a
        /\ Position(v, b) \in DOMAIN v /\ v[Position(v, b)] = b
        /\ Position(w, a) \in DOMAIN w /\ w[Position(w, a)] = a
        /\ Position(w, b) \in DOMAIN w /\ w[Position(w, b)] = b
    BY <2>2, PositionInText DEF v, w
  <2>5. Before(I, a, b)
    BY <2>3, <2>4 DEF v
  <2>6. ~(Position(w, b) < Position(w, a)) /\ a # b
    BY <2>1, <2>3, <2>4, <2>5, BeforeAsymmetric
  <2>7. Position(w, a) # Position(w, b)
    BY <2>4, <2>6
  <2>8. Position(w, a) \in Nat /\ Position(w, b) \in Nat
    BY <2>2, <2>4
  <2> QED
    BY <2>6, <2>7, <2>8 DEF w
<1> QED
  BY <1>1, IndexInvHolds, PTL
=============================================================================

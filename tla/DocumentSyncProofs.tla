------------------------- MODULE DocumentSyncProofs -------------------------
(***************************************************************************)
(* Proofs about DocumentSync, for any number of edits, operations and      *)
(* sessions.  First the texts: what an editor makes of the changes of an   *)
(* event is what the extension makes of them one by one.  Then what the    *)
(* extension knows of the editor, and last what it rendered.               *)
(***************************************************************************)
EXTENDS DocumentSync, TLAPS, WellFoundedInduction, SequenceTheorems

-----------------------------------------------------------------------------
(* An event has one change or two, so a fold over its changes is one step  *)
(* or two.                                                                 *)

\* What the changes of a sequence make of a text, and of the texts the CRDT may have.
Spliced(t, cs)   == FoldLeft(Splice, t, cs)
Operated(ts, cs) == FoldLeft(AfterChange, ts, cs)

\* applyTextChanges does the one change there is ...
LEMMA SpliceOne ==
  ASSUME NEW t, NEW c
  PROVE  Spliced(t, <<c>>) = Splice(t, c)
<1> DEFINE F(g) == [s \in SUBSET {1} |-> IF s = {} THEN t ELSE
                      Splice(g[s \ {Max(s)}], <<c>>[Max(s)])]
           I == CHOOSE g : g = F(g)
           G == [s \in SUBSET {1} |-> IF s = {} THEN t ELSE Splice(t, c)]
<1>1. Max({1}) = 1 /\ <<c>>[1] = c /\ DOMAIN <<c>> = {1}
  BY DEF Max
<1>2. SUBSET {1} = {{}, {1}} /\ {1} \ {1} = {} /\ {1} # {}
  OBVIOUS
<1>3. ASSUME NEW g
      PROVE  F(g)[{}] = t /\ F(g)[{1}] = Splice(g[{}], c)
  <2>1. F(g)[{1}] = Splice(g[{1} \ {Max({1})}], <<c>>[Max({1})])
    BY <1>2
  <2> QED
    BY <1>1, <1>2, <2>1
<1>4. G = F(G)
  <2>1. G[{}] = t /\ G[{1}] = Splice(t, c)
    BY <1>2
  <2> DEFINE H == F(G)
  <2>2. H[{}] = t /\ H[{1}] = Splice(G[{}], c)
    BY <1>3
  <2>3. /\ G = [s \in SUBSET {1} |-> G[s]]
        /\ H = [s \in SUBSET {1} |-> H[s]]
    OBVIOUS
  <2> HIDE DEF F, G, H
  <2>4. \A s \in {{}, {1}} : G[s] = H[s]
    BY <2>1, <2>2
  <2>5. \A s \in SUBSET {1} : G[s] = H[s]
    BY <1>2, <2>4
  <2>6. G = H
    BY <2>3, <2>5, Zenon
  <2> QED
    BY <2>6 DEF H
<1>5. I = F(I)
  <2> HIDE DEF F, G
  <2> QED
    BY <1>4
<1>6. Spliced(t, <<c>>) = I[{1}]
  BY <1>1, Zenon DEF Spliced, FoldLeft, MapThenFoldSet
<1>7. I[{}] = t /\ I[{1}] = Splice(I[{}], c)
  <2> HIDE DEF I, F
  <2> QED
    BY <1>3, <1>5
<1> QED
  BY <1>6, <1>7

\* ... or one change and then the other.
LEMMA SpliceTwo ==
  ASSUME NEW t, NEW c, NEW d
  PROVE  Spliced(t, <<c, d>>) = Splice(Splice(t, c), d)
<1> DEFINE F(g) == [s \in SUBSET {1, 2} |-> IF s = {} THEN t ELSE
                      Splice(g[s \ {Max(s)}], <<c, d>>[Max(s)])]
           I == CHOOSE g : g = F(g)
           G == [s \in SUBSET {1, 2} |-> IF s = {} THEN t
                                         ELSE IF s = {1} THEN Splice(t, c)
                                         ELSE IF s = {2} THEN Splice(t, d)
                                         ELSE Splice(Splice(t, c), d)]
<1>1. /\ Max({1}) = 1 /\ Max({2}) = 2 /\ Max({1, 2}) = 2
      /\ <<c, d>>[1] = c /\ <<c, d>>[2] = d /\ DOMAIN <<c, d>> = {1, 2}
  BY DEF Max
<1>2. /\ SUBSET {1, 2} = {{}, {1}, {2}, {1, 2}}
      /\ {1} \ {1} = {} /\ {2} \ {2} = {} /\ {1, 2} \ {2} = {1}
      /\ {1} # {} /\ {2} # {} /\ {1, 2} # {} /\ {1} # {2} /\ {1} # {1, 2} /\ {2} # {1, 2}
  OBVIOUS
<1>3. ASSUME NEW g
      PROVE  /\ F(g)[{}] = t
             /\ F(g)[{1}] = Splice(g[{}], c)
             /\ F(g)[{2}] = Splice(g[{}], d)
             /\ F(g)[{1, 2}] = Splice(g[{1}], d)
  <2>1. F(g)[{1}] = Splice(g[{1} \ {Max({1})}], <<c, d>>[Max({1})])
    BY <1>2
  <2>2. F(g)[{2}] = Splice(g[{2} \ {Max({2})}], <<c, d>>[Max({2})])
    BY <1>2
  <2>3. F(g)[{1, 2}] = Splice(g[{1, 2} \ {Max({1, 2})}], <<c, d>>[Max({1, 2})])
    BY <1>2
  <2> QED
    BY <1>1, <1>2, <2>1, <2>2, <2>3
<1>4. G = F(G)
  <2>1. /\ G[{}] = t /\ G[{1}] = Splice(t, c) /\ G[{2}] = Splice(t, d)
        /\ G[{1, 2}] = Splice(Splice(t, c), d)
    BY <1>2
  <2> DEFINE H == F(G)
  <2>2. /\ H[{}] = t /\ H[{1}] = Splice(G[{}], c) /\ H[{2}] = Splice(G[{}], d)
        /\ H[{1, 2}] = Splice(G[{1}], d)
    BY <1>3
  <2>3. /\ G = [s \in SUBSET {1, 2} |-> G[s]]
        /\ H = [s \in SUBSET {1, 2} |-> H[s]]
    OBVIOUS
  <2> HIDE DEF F, G, H
  <2>4. \A s \in {{}, {1}, {2}, {1, 2}} : G[s] = H[s]
    BY <2>1, <2>2
  <2>5. \A s \in SUBSET {1, 2} : G[s] = H[s]
    BY <1>2, <2>4
  <2>6. G = H
    BY <2>3, <2>5, Zenon
  <2> QED
    BY <2>6 DEF H
<1>5. I = F(I)
  <2> HIDE DEF F, G
  <2> QED
    BY <1>4
<1>6. Spliced(t, <<c, d>>) = I[{1, 2}]
  BY <1>1, Zenon DEF Spliced, FoldLeft, MapThenFoldSet
<1>7. I[{}] = t /\ I[{1}] = Splice(I[{}], c) /\ I[{1, 2}] = Splice(I[{1}], d)
  <2> HIDE DEF I, F
  <2> QED
    BY <1>3, <1>5
<1> QED
  BY <1>6, <1>7

\* The same of changesToOperations.
LEMMA AfterChangeOne ==
  ASSUME NEW t, NEW c
  PROVE  Operated(t, <<c>>) = AfterChange(t, c)
<1> DEFINE F(g) == [s \in SUBSET {1} |-> IF s = {} THEN t ELSE
                      AfterChange(g[s \ {Max(s)}], <<c>>[Max(s)])]
           I == CHOOSE g : g = F(g)
           G == [s \in SUBSET {1} |-> IF s = {} THEN t ELSE AfterChange(t, c)]
<1>1. Max({1}) = 1 /\ <<c>>[1] = c /\ DOMAIN <<c>> = {1}
  BY DEF Max
<1>2. SUBSET {1} = {{}, {1}} /\ {1} \ {1} = {} /\ {1} # {}
  OBVIOUS
<1>3. ASSUME NEW g
      PROVE  F(g)[{}] = t /\ F(g)[{1}] = AfterChange(g[{}], c)
  <2>1. F(g)[{1}] = AfterChange(g[{1} \ {Max({1})}], <<c>>[Max({1})])
    BY <1>2
  <2> QED
    BY <1>1, <1>2, <2>1
<1>4. G = F(G)
  <2>1. G[{}] = t /\ G[{1}] = AfterChange(t, c)
    BY <1>2
  <2> DEFINE H == F(G)
  <2>2. H[{}] = t /\ H[{1}] = AfterChange(G[{}], c)
    BY <1>3
  <2>3. /\ G = [s \in SUBSET {1} |-> G[s]]
        /\ H = [s \in SUBSET {1} |-> H[s]]
    OBVIOUS
  <2> HIDE DEF F, G, H
  <2>4. \A s \in {{}, {1}} : G[s] = H[s]
    BY <2>1, <2>2
  <2>5. \A s \in SUBSET {1} : G[s] = H[s]
    BY <1>2, <2>4
  <2>6. G = H
    BY <2>3, <2>5, Zenon
  <2> QED
    BY <2>6 DEF H
<1>5. I = F(I)
  <2> HIDE DEF F, G
  <2> QED
    BY <1>4
<1>6. Operated(t, <<c>>) = I[{1}]
  BY <1>1, Zenon DEF Operated, FoldLeft, MapThenFoldSet
<1>7. I[{}] = t /\ I[{1}] = AfterChange(I[{}], c)
  <2> HIDE DEF I, F
  <2> QED
    BY <1>3, <1>5
<1> QED
  BY <1>6, <1>7

LEMMA AfterChangeTwo ==
  ASSUME NEW t, NEW c, NEW d
  PROVE  Operated(t, <<c, d>>) = AfterChange(AfterChange(t, c), d)
<1> DEFINE F(g) == [s \in SUBSET {1, 2} |-> IF s = {} THEN t ELSE
                      AfterChange(g[s \ {Max(s)}], <<c, d>>[Max(s)])]
           I == CHOOSE g : g = F(g)
           G == [s \in SUBSET {1, 2} |-> IF s = {} THEN t
                                         ELSE IF s = {1} THEN AfterChange(t, c)
                                         ELSE IF s = {2} THEN AfterChange(t, d)
                                         ELSE AfterChange(AfterChange(t, c), d)]
<1>1. /\ Max({1}) = 1 /\ Max({2}) = 2 /\ Max({1, 2}) = 2
      /\ <<c, d>>[1] = c /\ <<c, d>>[2] = d /\ DOMAIN <<c, d>> = {1, 2}
  BY DEF Max
<1>2. /\ SUBSET {1, 2} = {{}, {1}, {2}, {1, 2}}
      /\ {1} \ {1} = {} /\ {2} \ {2} = {} /\ {1, 2} \ {2} = {1}
      /\ {1} # {} /\ {2} # {} /\ {1, 2} # {} /\ {1} # {2} /\ {1} # {1, 2} /\ {2} # {1, 2}
  OBVIOUS
<1>3. ASSUME NEW g
      PROVE  /\ F(g)[{}] = t
             /\ F(g)[{1}] = AfterChange(g[{}], c)
             /\ F(g)[{2}] = AfterChange(g[{}], d)
             /\ F(g)[{1, 2}] = AfterChange(g[{1}], d)
  <2>1. F(g)[{1}] = AfterChange(g[{1} \ {Max({1})}], <<c, d>>[Max({1})])
    BY <1>2
  <2>2. F(g)[{2}] = AfterChange(g[{2} \ {Max({2})}], <<c, d>>[Max({2})])
    BY <1>2
  <2>3. F(g)[{1, 2}] = AfterChange(g[{1, 2} \ {Max({1, 2})}], <<c, d>>[Max({1, 2})])
    BY <1>2
  <2> QED
    BY <1>1, <1>2, <2>1, <2>2, <2>3
<1>4. G = F(G)
  <2>1. /\ G[{}] = t /\ G[{1}] = AfterChange(t, c) /\ G[{2}] = AfterChange(t, d)
        /\ G[{1, 2}] = AfterChange(AfterChange(t, c), d)
    BY <1>2
  <2> DEFINE H == F(G)
  <2>2. /\ H[{}] = t /\ H[{1}] = AfterChange(G[{}], c) /\ H[{2}] = AfterChange(G[{}], d)
        /\ H[{1, 2}] = AfterChange(G[{1}], d)
    BY <1>3
  <2>3. /\ G = [s \in SUBSET {1, 2} |-> G[s]]
        /\ H = [s \in SUBSET {1, 2} |-> H[s]]
    OBVIOUS
  <2> HIDE DEF F, G, H
  <2>4. \A s \in {{}, {1}, {2}, {1, 2}} : G[s] = H[s]
    BY <2>1, <2>2
  <2>5. \A s \in SUBSET {1, 2} : G[s] = H[s]
    BY <1>2, <2>4
  <2>6. G = H
    BY <2>3, <2>5, Zenon
  <2> QED
    BY <2>6 DEF H
<1>5. I = F(I)
  <2> HIDE DEF F, G
  <2> QED
    BY <1>4
<1>6. Operated(t, <<c, d>>) = I[{1, 2}]
  BY <1>1, Zenon DEF Operated, FoldLeft, MapThenFoldSet
<1>7. I[{}] = t /\ I[{1}] = AfterChange(I[{}], c) /\ I[{1, 2}] = AfterChange(I[{1}], d)
  <2> HIDE DEF I, F
  <2> QED
    BY <1>3, <1>5
<1> QED
  BY <1>6, <1>7


-----------------------------------------------------------------------------
(* The changes of an event, in the order in which they are applied.        *)

\* A single change stays where it is.
LEMMA DescendingOne ==
  ASSUME NEW c
  PROVE  Descending(<<c>>) = <<c>>
<1>1. DOMAIN <<c>> = {1} /\ Range(<<c>>) = {c} /\ <<c>> \in [{1} -> {c}]
  BY DEF Range
<1>2. \A s \in [{1} -> {c}] : s = <<c>>
  <2> TAKE s \in [{1} -> {c}]
  <2>1. s = [i \in {1} |-> c]
    OBVIOUS
  <2>2. <<c>> = [i \in {1} |-> c]
    BY <1>1
  <2> QED
    BY <2>1, <2>2
<1>3. \A i, j \in {1} : i < j => <<c>>[i].at > <<c>>[j].at
  OBVIOUS
<1> DEFINE Is(s) == \A i, j \in {1} : i < j => s[i].at > s[j].at
<1>4. Descending(<<c>>) = CHOOSE s \in [{1} -> {c}] : Is(s)
  BY <1>1 DEF Descending
<1>5. Is(<<c>>)
  BY <1>3
<1> HIDE DEF Is
<1> QED
  BY <1>1, <1>2, <1>4, <1>5

\* Of two changes the one that is further right comes first.
LEMMA DescendingTwo ==
  ASSUME NEW c, NEW d, c.at \in Int, d.at \in Int, c.at > d.at
  PROVE  Descending(<<c, d>>) = <<c, d>> /\ Descending(<<d, c>>) = <<c, d>>
<1> DEFINE Is(s) == \A i, j \in {1, 2} : i < j => s[i].at > s[j].at
<1>1. /\ DOMAIN <<c, d>> = {1, 2} /\ Range(<<c, d>>) = {c, d}
      /\ DOMAIN <<d, c>> = {1, 2} /\ Range(<<d, c>>) = {c, d}
      /\ <<c, d>> \in [{1, 2} -> {c, d}]
  BY DEF Range
<1>2. /\ Descending(<<c, d>>) = CHOOSE s \in [{1, 2} -> {c, d}] : Is(s)
      /\ Descending(<<d, c>>) = CHOOSE s \in [{1, 2} -> {c, d}] : Is(s)
  BY <1>1 DEF Descending
<1>3. Is(<<c, d>>)
  OBVIOUS
<1>4. ASSUME NEW s \in [{1, 2} -> {c, d}], Is(s)
      PROVE  s = <<c, d>>
  <2>1. s[1] \in {c, d} /\ s[2] \in {c, d} /\ s[1].at > s[2].at
    BY <1>4
  <2>2. s[1] = c /\ s[2] = d
    BY <2>1
  <2>3. s = [i \in {1, 2} |-> IF i = 1 THEN c ELSE d]
    BY <2>2
  <2>4. <<c, d>> = [i \in {1, 2} |-> IF i = 1 THEN c ELSE d]
    BY <1>1
  <2> QED
    BY <2>3, <2>4
<1> HIDE DEF Is
<1> QED
  BY <1>1, <1>2, <1>3, <1>4

-----------------------------------------------------------------------------
(* Texts and changes.                                                      *)

Text   == Seq(Int)
Change == [at : Nat, del : Nat, ins : Text]

\* Two texts, one after the other.
LEMMA Joined ==
  ASSUME NEW u \in Text, NEW w \in Text
  PROVE  /\ u \o w \in Text
         /\ Len(u \o w) = Len(u) + Len(w)
         /\ \A k \in 1..Len(u) + Len(w) :
              (u \o w)[k] = IF k <= Len(u) THEN u[k] ELSE w[k - Len(u)]
  BY DEF Text

\* What a change makes of a text that it fits into, character by character.
LEMMA SpliceIs ==
  ASSUME NEW t \in Text, NEW c \in Change, c.at + c.del <= Len(t)
  PROVE  /\ Splice(t, c) \in Text
         /\ Len(Splice(t, c)) = Len(t) - c.del + Len(c.ins)
         /\ \A k \in 1..Len(Splice(t, c)) :
              Splice(t, c)[k] = IF k <= c.at THEN t[k]
                                ELSE IF k <= c.at + Len(c.ins) THEN c.ins[k - c.at]
                                ELSE t[k - Len(c.ins) + c.del]
<1> DEFINE a == c.at
           d == c.del
           s == c.ins
           u == SubSeq(t, 1, a)
           w == SubSeq(t, a + d + 1, Len(t))
<1>1. a \in Nat /\ d \in Nat /\ s \in Seq(Int) /\ t \in Seq(Int) /\ Len(t) \in Nat /\ Len(s) \in Nat
  BY DEF Text, Change
<1>2. a + d <= Len(t)
  OBVIOUS
<1>3. Splice(t, c) = u \o s \o w
  BY DEF Splice
<1> HIDE DEF a, d, s
<1>4. u \in Seq(Int) /\ Len(u) = a /\ \A k \in 1..a : u[k] = t[k]
  BY <1>1, <1>2
<1>5. w \in Seq(Int) /\ Len(w) = Len(t) - a - d /\ \A k \in 1..Len(t) - a - d : w[k] = t[a + d + k]
  BY <1>1, <1>2
<1> HIDE DEF u, w
<1> DEFINE us == u \o s
           r  == us \o w
<1>6. us \in Seq(Int) /\ Len(us) = a + Len(s)
      /\ \A k \in 1..a + Len(s) : us[k] = IF k <= a THEN t[k] ELSE s[k - a]
  BY <1>1, <1>4
<1> HIDE DEF us
<1>7. r \in Seq(Int) /\ Len(r) = a + Len(s) + (Len(t) - a - d)
      /\ \A k \in 1..Len(us) + Len(w) : r[k] = IF k <= Len(us) THEN us[k] ELSE w[k - Len(us)]
  <2>1. us \in Text /\ w \in Text
    BY <1>5, <1>6 DEF Text
  <2> QED
    BY <1>5, <1>6, <2>1, Joined DEF Text
<1> HIDE DEF r
<1>8. ASSUME NEW k \in 1..Len(r)
      PROVE  r[k] = IF k <= a THEN t[k] ELSE IF k <= a + Len(s) THEN s[k - a] ELSE t[k - Len(s) + d]
  <2>1. r[k] = IF k <= a + Len(s) THEN us[k] ELSE w[k - (a + Len(s))]
    BY <1>5, <1>6, <1>7
  <2>2. CASE k <= a + Len(s)
    <3>1. k \in 1..a + Len(s)
      BY <1>1, <1>7, <2>2
    <3> QED
      BY <1>1, <1>6, <2>1, <2>2, <3>1
  <2>3. CASE ~(k <= a + Len(s))
    <3>1. k - (a + Len(s)) \in 1..Len(t) - a - d
      BY <1>1, <1>2, <1>7, <2>3
    <3>2. a + d + (k - (a + Len(s))) = k - Len(s) + d
      BY <1>1, <3>1
    <3>3. ~(k <= a)
      BY <1>1, <1>7, <2>3
    <3>4. w[k - (a + Len(s))] = t[a + d + (k - (a + Len(s)))]
      BY <1>5, <3>1
    <3> QED
      BY <2>1, <2>3, <3>2, <3>3, <3>4
  <2> QED
    BY <2>2, <2>3
<1>9. Splice(t, c) = r
  BY <1>3 DEF us, r
<1>10. a + Len(s) + (Len(t) - a - d) = Len(t) - d + Len(s)
  BY <1>1
<1> QED
  BY <1>7, <1>8, <1>9, <1>10 DEF a, d, s, Text

-----------------------------------------------------------------------------
(* FlattenSeq.                                                             *)

\* Texts of the same characters are the same.
LEMMA SameText ==
  ASSUME NEW s \in Text, NEW t \in Text, Len(s) = Len(t), \A k \in 1..Len(s) : s[k] = t[k]
  PROVE  s = t
  BY DEF Text

\* A set of numbers has a least one.
LEMMA LeastNumber ==
  ASSUME NEW T \in SUBSET Nat, T # {}
  PROVE  \E x \in T : \A y \in T : x <= y
<1>1. PICK x \in T : \A y \in T : <<y, x>> \notin OpToRel(<, Nat)
  BY NatLessThanWellFounded, WFMin
<1>2. \A y \in T : ~(y < x)
  BY <1>1 DEF OpToRel
<1> QED
  BY <1>2

\* What its recursive definition says of its function, up to an index.
FlattensUpTo(f, q, n) == f = [i \in 1..n |-> IF i = 1 THEN q[i] ELSE f[i - 1] \o q[i]]

\* There is such a function, or there were a least index without one.
LEMMA FlattenExists ==
  ASSUME NEW q, NEW n \in Nat \ {0}
  PROVE  \E f : FlattensUpTo(f, q, n)
<1> DEFINE bad == {k \in Nat \ {0} : ~\E f : FlattensUpTo(f, q, k)}
<1> SUFFICES ASSUME bad # {} PROVE FALSE
  OBVIOUS
<1>1. PICK k \in bad : \A j \in bad : k <= j
  <2> HIDE DEF bad
  <2>1. bad \in SUBSET Nat
    BY DEF bad
  <2> QED
    BY <2>1, LeastNumber
<1>2. CASE k = 1
  <2>1. FlattensUpTo([i \in 1..1 |-> q[i]], q, 1)
    BY DEF FlattensUpTo
  <2> QED
    BY <2>1, <1>1, <1>2
<1>3. CASE k # 1
  <2>1. k \in Nat /\ k - 1 \in Nat \ {0} /\ k - 1 \notin bad
    BY <1>1, <1>3
  <2>2. PICK f : FlattensUpTo(f, q, k - 1)
    BY <2>1
  <2> DEFINE g == [i \in 1..k |-> IF i = k THEN f[k - 1] \o q[k] ELSE f[i]]
  <2>3. \A i \in 1..k - 1 : g[i] = f[i]
    BY <2>1
  <2>4. \A i \in 1..k : g[i] = IF i = 1 THEN q[i] ELSE g[i - 1] \o q[i]
    <3> TAKE i \in 1..k
    <3>1. CASE i = k
      <4>1. k - 1 \in 1..k - 1 /\ k # 1
        BY <1>3, <2>1
      <4> QED
        BY <2>3, <3>1, <4>1
    <3>2. CASE i # k
      <4>1. i \in 1..k - 1 /\ (i # 1 => i - 1 \in 1..k - 1)
        BY <2>1, <3>2
      <4>2. f[i] = IF i = 1 THEN q[i] ELSE f[i - 1] \o q[i]
        BY <2>2, <4>1 DEF FlattensUpTo
      <4> QED
        BY <2>3, <4>1, <4>2
    <3> QED
      BY <3>1, <3>2
  <2>5. FlattensUpTo(g, q, k)
    <3>1. g = [i \in 1..k |-> g[i]]
      OBVIOUS
    <3> HIDE DEF g
    <3> QED
      BY <2>4, <3>1 DEF FlattensUpTo
  <2> QED
    BY <2>5, <1>1
<1> QED
  BY <1>2, <1>3

\* FlattenSeq is the last value of its function.
LEMMA FlattenUnfolds ==
  ASSUME NEW q, Len(q) \in Nat \ {0}
  PROVE  \E f : FlattensUpTo(f, q, Len(q)) /\ FlattenSeq(q) = f[Len(q)]
<1> DEFINE f == CHOOSE f : FlattensUpTo(f, q, Len(q))
<1>1. FlattensUpTo(f, q, Len(q))
  BY FlattenExists
<1>2. FlattenSeq(q) = f[Len(q)]
  BY Zenon DEF FlattenSeq, FlattensUpTo
<1> QED
  BY <1>1, <1>2

\* The parts of a text give a text.
LEMMA FlattenType ==
  ASSUME NEW q \in Seq(Text)
  PROVE  FlattenSeq(q) \in Text
<1>1. CASE Len(q) = 0
  <2>1. FlattenSeq(q) = q
    BY <1>1 DEF FlattenSeq
  <2>2. q = <<>>
    BY <1>1
  <2>3. <<>> \in Text
    BY DEF Text
  <2> QED
    BY <2>1, <2>2, <2>3, Zenon
<1>2. CASE Len(q) # 0
  <2>1. Len(q) \in Nat \ {0}
    BY <1>2
  <2>2. PICK f : FlattensUpTo(f, q, Len(q)) /\ FlattenSeq(q) = f[Len(q)]
    BY <2>1, FlattenUnfolds
  <2> DEFINE bad == {k \in 1..Len(q) : f[k] \notin Text}
  <2>3. bad = {}
    <3> SUFFICES ASSUME bad # {} PROVE FALSE
      OBVIOUS
    <3>1. PICK k \in bad : \A j \in bad : k <= j
      <4> HIDE DEF bad
      <4>1. bad \in SUBSET Nat
        BY <2>1 DEF bad
      <4> QED
        BY <4>1, LeastNumber
    <3>2. f[k] = IF k = 1 THEN q[k] ELSE f[k - 1] \o q[k]
      BY <2>2 DEF FlattensUpTo
    <3>3. q[k] \in Text
      OBVIOUS
    <3>4. k # 1 => k - 1 \in 1..Len(q) /\ k - 1 \notin bad
      BY <2>1, <3>1
    <3>5. k # 1 => f[k - 1] \o q[k] \in Text
      BY <3>3, <3>4, Joined
    <3> QED
      BY <3>2, <3>3, <3>5
  <2>4. Len(q) \in 1..Len(q)
    BY <2>1
  <2> QED
    BY <2>2, <2>3, <2>4
<1> QED
  BY <1>1, <1>2

\* A text is that of its parts, if part i ends at e[i].
LEMMA FlattenIs ==
  ASSUME NEW q \in Seq(Text), Len(q) # 0,
         NEW r \in Text, NEW e \in [0..Len(q) -> 0..Len(r)],
         e[0] = 0, e[Len(q)] = Len(r),
         \A i \in 1..Len(q) :
           /\ e[i] = e[i - 1] + Len(q[i])
           /\ \A k \in 1..Len(q[i]) : r[e[i - 1] + k] = q[i][k]
  PROVE  FlattenSeq(q) = r
<1>1. Len(q) \in Nat \ {0} /\ Len(r) \in Nat
  BY DEF Text
<1>2. PICK f : FlattensUpTo(f, q, Len(q)) /\ FlattenSeq(q) = f[Len(q)]
  BY <1>1, FlattenUnfolds
<1> DEFINE Prefix(i) == SubSeq(r, 1, e[i])
           bad == {k \in 1..Len(q) : f[k] # Prefix(k)}
<1>3. ASSUME NEW i \in 0..Len(q)
      PROVE  /\ Prefix(i) \in Text /\ Len(Prefix(i)) = e[i]
             /\ \A k \in 1..e[i] : Prefix(i)[k] = r[k]
  <2>1. e[i] \in 0..Len(r)
    OBVIOUS
  <2> QED
    BY <1>1, <2>1 DEF Text
<1>4. bad = {}
  <2> SUFFICES ASSUME bad # {} PROVE FALSE
    OBVIOUS
  <2>1. PICK k \in bad : \A j \in bad : k <= j
    <3> HIDE DEF bad
    <3>1. bad \in SUBSET Nat
      BY <1>1 DEF bad
    <3> QED
      BY <3>1, LeastNumber
  <2>2. f[k] = IF k = 1 THEN q[k] ELSE f[k - 1] \o q[k]
    BY <1>2 DEF FlattensUpTo
  <2>3. k \in 1..Len(q) /\ k - 1 \in 0..Len(q) /\ k \in 0..Len(q) /\ q[k] \in Text
    BY <1>1
  <2>4. e[k] = e[k - 1] + Len(q[k]) /\ \A j \in 1..Len(q[k]) : r[e[k - 1] + j] = q[k][j]
    BY <2>3
  <2>5. e[k] \in Nat /\ e[k - 1] \in Nat /\ Len(q[k]) \in Nat
    BY <1>1, <2>3 DEF Text
  <2> HIDE DEF Prefix, bad
  <2>6. f[k] \in Text /\ Len(f[k]) = e[k] /\ \A j \in 1..e[k] : f[k][j] = r[j]
    <3>1. CASE k = 1
      <4>1. f[k] = q[k] /\ e[k - 1] = 0
        BY <2>2, <3>1
      <4> QED
        BY <2>3, <2>4, <2>5, <4>1
    <3>2. CASE k # 1
      <4>1. k - 1 \in 1..Len(q) /\ k - 1 \notin bad
        BY <1>1, <2>1, <2>3, <3>2
      <4>2. f[k] = Prefix(k - 1) \o q[k]
        BY <2>2, <3>2, <4>1 DEF bad
      <4>3. /\ f[k] \in Text /\ Len(f[k]) = e[k]
            /\ \A j \in 1..e[k - 1] + Len(q[k]) :
                 f[k][j] = IF j <= e[k - 1] THEN Prefix(k - 1)[j] ELSE q[k][j - e[k - 1]]
        <5> DEFINE p == Prefix(k - 1)
                   w == q[k]
        <5>1. p \in Text /\ w \in Text /\ Len(p) = e[k - 1] /\ Len(p) + Len(w) = e[k]
          BY <1>3, <2>3, <2>4
        <5>2. /\ p \o w \in Text /\ Len(p \o w) = Len(p) + Len(w)
              /\ \A j \in 1..Len(p) + Len(w) :
                   (p \o w)[j] = IF j <= Len(p) THEN p[j] ELSE w[j - Len(p)]
          BY <5>1, Joined
        <5>3. f[k] = p \o w
          BY <4>2
        <5> HIDE DEF p
        <5> QED
          BY <5>1, <5>2, <5>3 DEF p
      <4>4. ASSUME NEW j \in 1..e[k]
            PROVE  f[k][j] = r[j]
        <5>1. CASE j <= e[k - 1]
          <6>1. j \in 1..e[k - 1]
            BY <2>5, <5>1
          <6>2. Prefix(k - 1)[j] = r[j]
            BY <1>3, <2>3, <6>1
          <6>3. f[k][j] = Prefix(k - 1)[j]
            BY <2>4, <4>3, <5>1
          <6> QED
            BY <6>2, <6>3
        <5>2. CASE ~(j <= e[k - 1])
          <6>1. j - e[k - 1] \in 1..Len(q[k]) /\ e[k - 1] + (j - e[k - 1]) = j
            BY <2>4, <2>5, <5>2
          <6>2. r[j] = q[k][j - e[k - 1]]
            BY <2>4, <6>1
          <6> QED
            BY <2>4, <4>3, <5>2, <6>2
        <5> QED
          BY <5>1, <5>2
      <4> QED
        BY <4>3, <4>4
    <3> QED
      BY <3>1, <3>2
  <2>7. f[k] = Prefix(k)
    <3> DEFINE s == f[k]
               t == Prefix(k)
    <3>1. t \in Text /\ Len(t) = e[k] /\ \A j \in 1..e[k] : t[j] = r[j]
      BY <1>3, <2>3
    <3>2. s \in Text /\ Len(s) = e[k] /\ \A j \in 1..e[k] : s[j] = r[j]
      BY <2>6
    <3> HIDE DEF s, t
    <3>3. Len(s) = Len(t) /\ \A j \in 1..Len(s) : s[j] = t[j]
      BY <3>1, <3>2
    <3>4. s = t
      BY <3>1, <3>2, <3>3, SameText
    <3> QED
      BY <3>4 DEF s, t
  <2> QED
    BY <2>1, <2>7 DEF bad
<1>5. f[Len(q)] = Prefix(Len(q))
  BY <1>1, <1>4
<1>6. Prefix(Len(q)) = r
  BY <1>1 DEF Text
<1> QED
  BY <1>2, <1>5, <1>6

\* The flattened sequence of one part ...
LEMMA FlattenOne ==
  ASSUME NEW a
  PROVE  FlattenSeq(<<a>>) = a
<1> DEFINE q == <<a>>
<1>1. Len(q) = 1 /\ q[1] = a
  OBVIOUS
<1>2. Len(q) \in Nat \ {0}
  BY <1>1
<1> HIDE DEF q
<1>3. PICK f : FlattensUpTo(f, q, Len(q)) /\ FlattenSeq(q) = f[Len(q)]
  BY <1>2, FlattenUnfolds
<1>4. \A i \in 1..1 : f[i] = IF i = 1 THEN q[i] ELSE f[i - 1] \o q[i]
  BY <1>1, <1>3 DEF FlattensUpTo
<1>5. f[1] = q[1]
  BY <1>4
<1> QED
  BY <1>1, <1>3, <1>5 DEF q

\* ... and of two.
LEMMA FlattenTwo ==
  ASSUME NEW a, NEW b
  PROVE  FlattenSeq(<<a, b>>) = a \o b
<1> DEFINE q == <<a, b>>
<1>1. Len(q) = 2 /\ q[1] = a /\ q[2] = b
  OBVIOUS
<1>2. Len(q) \in Nat \ {0}
  BY <1>1
<1> HIDE DEF q
<1>3. PICK f : FlattensUpTo(f, q, Len(q)) /\ FlattenSeq(q) = f[Len(q)]
  BY <1>2, FlattenUnfolds
<1>4. ASSUME NEW i \in 1..2
      PROVE  f[i] = IF i = 1 THEN q[i] ELSE f[i - 1] \o q[i]
  BY <1>1, <1>3 DEF FlattensUpTo
<1>5. f[1] = q[1]
  BY <1>4
<1>6. f[2] = f[2 - 1] \o q[2]
  <2>1. 2 \in 1..2 /\ 2 # 1
    OBVIOUS
  <2> QED
    BY <1>4, <2>1, Zenon
<1>7. f[2] = f[1] \o q[2]
  BY <1>6
<1> QED
  BY <1>1, <1>3, <1>5, <1>7 DEF q

-----------------------------------------------------------------------------
(* What the user does to a text is what the extension makes of it.         *)

\* What an event inserts at a place.
Put(cs, p) == FlattenSeq([i \in DOMAIN cs |-> IF cs[i].at = p THEN cs[i].ins ELSE <<>>])

\* An event makes the text r of t if it inserts what into says, deletes what is gone,
\* and what comes of the first q places ends at e[q].
Edits(t, cs, into, gone, r, e) ==
  /\ into \in [0..Len(t) -> Text] /\ r \in Text /\ e \in [0..Len(t) + 1 -> 0..Len(r)]
  /\ \A p \in 0..Len(t) : Put(cs, p) = into[p]
  /\ \A p \in 1..Len(t) : (\E c \in Range(cs) : p \in c.at + 1..c.at + c.del) <=> p \in gone
  /\ e[0] = 0 /\ e[Len(t) + 1] = Len(r)
  /\ \A q \in 1..Len(t) + 1 :
       /\ e[q] = e[q - 1] + Len(into[q - 1]) + IF q <= Len(t) /\ q \notin gone THEN 1 ELSE 0
       /\ \A k \in 1..Len(into[q - 1]) : r[e[q - 1] + k] = into[q - 1][k]
       /\ q <= Len(t) /\ q \notin gone => r[e[q - 1] + Len(into[q - 1]) + 1] = t[q]

\* What Edits describes is what the editor makes of a text.
LEMMA EditedIs ==
  ASSUME NEW t \in Text, NEW cs, NEW into, NEW gone, NEW r, NEW e, Edits(t, cs, into, gone, r, e)
  PROVE  Edited(t, cs) = r
<1> DEFINE n == Len(t)
           kept(q) == IF q <= n /\ q \notin gone THEN <<t[q]>> ELSE <<>>
           s == [q \in 1..n + 1 |-> into[q - 1] \o kept(q)]
<1> USE DEF Edits
<1>1. n \in Nat /\ Len(r) \in Nat
  BY DEF Text
<1>2. \A q \in 1..n + 1 : q - 1 \in 0..n
  BY <1>1
<1>3. ASSUME NEW q \in 1..n + 1
      PROVE  /\ kept(q) \in Text
             /\ Len(kept(q)) = IF q <= n /\ q \notin gone THEN 1 ELSE 0
             /\ q <= n /\ q \notin gone => kept(q)[1] = t[q]
  BY DEF Text
<1>4. Edited(t, cs) = FlattenSeq(s)
  <2> DEFINE off(p) == \E c \in Range(cs) : p \in c.at + 1..c.at + c.del
             all == [q \in 1..n + 1 |-> Put(cs, q - 1) \o
                       IF q <= n /\ ~off(q) THEN <<t[q]>> ELSE <<>>]
  <2>1. Edited(t, cs) = FlattenSeq(all)
    BY Zenon DEF Edited, Put
  <2>2. ASSUME NEW q \in 1..n + 1
        PROVE  Put(cs, q - 1) = into[q - 1] /\ (q <= n => (off(q) <=> q \in gone))
    <3>1. q <= n => q \in 1..n
      BY <1>1
    <3> QED
      BY <1>2, <3>1
  <2> HIDE DEF off
  <2>3. all = s
    BY <2>2
  <2> QED
    BY <2>1, <2>3
<1>5. s \in Seq(Text) /\ Len(s) = n + 1
  <2>1. \A q \in 1..n + 1 : into[q - 1] \o kept(q) \in Text
    BY <1>2, <1>3, Joined
  <2> HIDE DEF kept
  <2> QED
    BY <1>1, <2>1
<1>6. ASSUME NEW q \in 1..n + 1
      PROVE  /\ e[q] = e[q - 1] + Len(s[q])
             /\ \A k \in 1..Len(s[q]) : r[e[q - 1] + k] = s[q][k]
  <2> DEFINE a == into[q - 1]
             b == kept(q)
             w == s[q]
  <2>1. a \in Text /\ b \in Text /\ w = a \o b
    BY <1>2, <1>3
  <2>2. /\ Len(w) = Len(a) + Len(b) /\ Len(a) \in Nat /\ Len(b) \in Nat
        /\ \A k \in 1..Len(a) + Len(b) : w[k] = IF k <= Len(a) THEN a[k] ELSE b[k - Len(a)]
    <3> HIDE DEF a, b, w
    <3>1. Len(a) \in Nat /\ Len(b) \in Nat
      BY <2>1 DEF Text
    <3> QED
      BY <2>1, <3>1, Joined
  <2>3. /\ e[q] = e[q - 1] + Len(a) + Len(b)
        /\ \A k \in 1..Len(a) : r[e[q - 1] + k] = a[k]
        /\ Len(b) = 1 => r[e[q - 1] + Len(a) + 1] = b[1]
        /\ Len(b) \in {0, 1}
    BY <1>3
  <2>4. e[q - 1] \in Nat /\ e[q] \in Nat
    <3>1. q \in 0..n + 1 /\ q - 1 \in 0..n + 1
      BY <1>1
    <3> QED
      BY <1>1, <3>1
  <2> HIDE DEF a, b, w
  <2>5. ASSUME NEW k \in 1..Len(w)
        PROVE  r[e[q - 1] + k] = w[k]
    <3>1. CASE k <= Len(a)
      <4>1. k \in 1..Len(a)
        BY <2>2, <3>1
      <4> QED
        BY <2>2, <2>3, <3>1, <4>1
    <3>2. CASE ~(k <= Len(a))
      <4> DEFINE la == Len(a)
                 lb == Len(b)
                 lw == Len(w)
                 f == e[q - 1]
      <4>0. /\ la \in Nat /\ lb \in {0, 1} /\ lw = la + lb /\ k \in 1..lw /\ ~(k <= la)
            /\ f \in Nat
        BY <2>2, <2>3, <2>4, <3>2
      <4>a. lb = 1 /\ k = la + 1 /\ k - la = 1 /\ f + k = f + la + 1
        <5> HIDE DEF la, lb, lw, f
        <5> QED
          BY <4>0
      <4>1. Len(b) = 1 /\ k - Len(a) = 1
        BY <4>a
      <4>2. w[k] = b[1]
        BY <2>2, <3>2, <4>1
      <4>3. e[q - 1] + k = e[q - 1] + Len(a) + 1
        BY <4>a
      <4> QED
        BY <2>3, <4>1, <4>2, <4>3
    <3> QED
      BY <3>1, <3>2
  <2>6. e[q] = e[q - 1] + Len(w)
    BY <2>2, <2>3, <2>4
  <2> QED
    BY <2>5, <2>6 DEF w
<1> HIDE DEF s
<1>7. FlattenSeq(s) = r
  <2>1. /\ Len(s) # 0 /\ e \in [0..Len(s) -> 0..Len(r)] /\ e[0] = 0 /\ e[Len(s)] = Len(r)
    BY <1>1, <1>5
  <2>2. \A q \in 1..Len(s) : /\ e[q] = e[q - 1] + Len(s[q])
                             /\ \A k \in 1..Len(s[q]) : r[e[q - 1] + k] = s[q][k]
    BY <1>5, <1>6
  <2> QED
    BY <1>5, <2>1, <2>2, FlattenIs
<1> QED
  BY <1>4, <1>7

\* The events there are: one change, or an insert at the start and a change elsewhere,
\* in either order.
First   == [at : {0}, del : {0}, ins : Text]
Later   == [at : Nat \ {0}, del : Nat, ins : Text]
Changes == {<<c>> : c \in Change}
             \cup {<<c, d>> : c \in First, d \in Later} \cup {<<d, c>> : d \in Later, c \in First}

\* The changes fit into a text and make another of it.
Fits(t, cs, r) == ~OutOfRange(t, cs) /\ ApplyTextChanges(t, cs) = r

\* What the extension makes of an event of one change ...
LEMMA OneChange ==
  ASSUME NEW t \in Text, NEW c \in Change, c.at + c.del <= Len(t)
  PROVE  <<c>> \in Changes /\ Fits(t, <<c>>, Splice(t, c))
<1>1. Range(<<c>>) = {c}
  BY DEF Range
<1>2. Len(t) \in Nat /\ c.at \in Nat /\ c.del \in Nat
  BY DEF Text, Change
<1>3. ~OutOfRange(t, <<c>>)
  BY <1>1, <1>2 DEF OutOfRange
<1>4. ApplyTextChanges(t, <<c>>) = Splice(t, c)
  <2>1. ApplyTextChanges(t, <<c>>) = Spliced(t, Descending(<<c>>))
    BY DEF ApplyTextChanges, Spliced
  <2> QED
    BY <2>1, DescendingOne, SpliceOne
<1>5. <<c>> \in Changes
  BY DEF Changes
<1> QED
  BY <1>3, <1>4, <1>5 DEF Fits

\* ... and of two: the change further right is made first, and moves nothing before it.
LEMMA TwoChanges ==
  ASSUME NEW t \in Text, NEW c \in First, NEW d \in Later, d.at + d.del <= Len(t),
         NEW cs \in {<<c, d>>, <<d, c>>}
  PROVE  cs \in Changes /\ Fits(t, cs, Splice(Splice(t, d), c))
<1>1. Range(cs) = {c, d}
  BY DEF Range
<1>2. /\ Len(t) \in Nat /\ c.at = 0 /\ c.del = 0 /\ d.at \in Nat /\ d.del \in Nat
      /\ c.at \in Int /\ d.at \in Int /\ d.at > c.at
  BY DEF Text, First, Later
<1>3. ~OutOfRange(t, cs)
  BY <1>1, <1>2 DEF OutOfRange
<1>4. Descending(cs) = <<d, c>>
  BY <1>2, DescendingTwo
<1>5. ApplyTextChanges(t, cs) = Splice(Splice(t, d), c)
  <2>1. ApplyTextChanges(t, cs) = Spliced(t, Descending(cs))
    BY DEF ApplyTextChanges, Spliced
  <2> QED
    BY <1>4, <2>1, SpliceTwo
<1>6. cs \in Changes
  BY DEF Changes
<1> QED
  BY <1>3, <1>5, <1>6 DEF Fits

\* What a change inserts at a place.
PutBy(c, p) == IF c.at = p THEN c.ins ELSE <<>>

\* What an event of one change inserts at a place.
LEMMA PutByOne ==
  ASSUME NEW c, NEW p
  PROVE  Put(<<c>>, p) = PutBy(c, p)
<1> DEFINE a == IF c.at = p THEN c.ins ELSE <<>>
<1>1. [i \in DOMAIN <<c>> |-> IF <<c>>[i].at = p THEN <<c>>[i].ins ELSE <<>>] = <<a>>
  OBVIOUS
<1> HIDE DEF a
<1> QED
  BY <1>1, FlattenOne DEF a, Put, PutBy

\* The same for an event of two changes.
LEMMA PutByTwo ==
  ASSUME NEW c, NEW d, NEW p
  PROVE  Put(<<c, d>>, p) = PutBy(c, p) \o PutBy(d, p)
<1> DEFINE a == IF c.at = p THEN c.ins ELSE <<>>
           b == IF d.at = p THEN d.ins ELSE <<>>
<1>1. [i \in DOMAIN <<c, d>> |-> IF <<c, d>>[i].at = p THEN <<c, d>>[i].ins ELSE <<>>] = <<a, b>>
  OBVIOUS
<1> HIDE DEF a, b
<1> QED
  BY <1>1, FlattenTwo DEF a, b, Put, PutBy

\* The user inserts a character ...
LEMMA InsertIsSpliced ==
  ASSUME NEW t \in Text, NEW x \in Int, NEW i \in 0..Len(t), NEW c,
         c = [at |-> i, del |-> 0, ins |-> <<x>>]
  PROVE  c \in Change /\ c.at + c.del <= Len(t) /\ Edited(t, <<c>>) = Splice(t, c)
<1> DEFINE n == Len(t)
           into == [p \in 0..Len(t) |-> IF p = i THEN <<x>> ELSE <<>>]
           r == Splice(t, c)
           gone == {}
           e == [q \in 0..Len(t) + 1 |-> IF q <= i THEN q ELSE IF q <= Len(t) THEN q + 1 ELSE Len(t) + 1]
<1>1. n \in Nat /\ <<x>> \in Text /\ <<>> \in Text /\ Len(<<x>>) = 1 /\ Len(<<>>) = 0
  BY DEF Text
<1>2. c \in Change /\ c.at + c.del <= Len(t)
  BY <1>1 DEF Change
<1>3. /\ r \in Text /\ Len(r) = n + 1
      /\ \A k \in 1..n + 1 : r[k] = IF k <= i THEN t[k] ELSE IF k = i + 1 THEN x ELSE t[k - 1]
  <2>1. /\ r \in Text /\ Len(r) = n - 0 + 1
        /\ \A k \in 1..Len(r) : r[k] = IF k <= i THEN t[k] ELSE IF k <= i + 1 THEN <<x>>[k - i]
                                       ELSE t[k - 1 + 0]
    <3>1. c.at = i /\ c.del = 0 /\ c.ins = <<x>>
      OBVIOUS
    <3>2. /\ r \in Text /\ Len(r) = n - c.del + Len(c.ins)
          /\ \A k \in 1..Len(r) : r[k] = IF k <= c.at THEN t[k]
                                         ELSE IF k <= c.at + Len(c.ins) THEN c.ins[k - c.at]
                                         ELSE t[k - Len(c.ins) + c.del]
      BY <1>2, SpliceIs
    <3> HIDE DEF r
    <3> QED
      BY <1>1, <3>1, <3>2
  <2> HIDE DEF r
  <2>2. ASSUME NEW k \in 1..n + 1
        PROVE  r[k] = IF k <= i THEN t[k] ELSE IF k = i + 1 THEN x ELSE t[k - 1]
    <3>1. k \in 1..Len(r) /\ k - 1 + 0 = k - 1
      BY <1>1, <2>1
    <3>2. ~(k <= i) /\ k <= i + 1 => k = i + 1 /\ k - i = 1
      BY <1>1
    <3>3. k = i + 1 => ~(k <= i) /\ k <= i + 1
      BY <1>1
    <3> QED
      BY <2>1, <3>1, <3>2, <3>3
  <2> QED
    BY <1>1, <2>1, <2>2
<1>4. into \in [0..Len(t) -> Text]
  BY <1>1
<1>5. e \in [0..Len(t) + 1 -> 0..Len(r)] /\ e[0] = 0 /\ e[Len(t) + 1] = Len(r)
  <2> HIDE DEF r
  <2> QED
    BY <1>1, <1>3
<1>6. \A p \in 0..Len(t) : Put(<<c>>, p) = into[p]
  <2> TAKE p \in 0..Len(t)
  <2>1. into[p] = PutBy(c, p)
    BY DEF PutBy
  <2> QED
    BY <2>1, PutByOne
<1>7. \A p \in 1..Len(t) : (\E d \in Range(<<c>>) : p \in d.at + 1..d.at + d.del) <=> p \in gone
  <2>1. Range(<<c>>) = {c} /\ c.at + 1..c.at + c.del = {}
    BY <1>1 DEF Range
  <2> QED
    BY <2>1
<1>8. ASSUME NEW q \in 1..Len(t) + 1
      PROVE  /\ e[q] = e[q - 1] + Len(into[q - 1]) + IF q <= Len(t) /\ q \notin gone THEN 1 ELSE 0
             /\ \A k \in 1..Len(into[q - 1]) : r[e[q - 1] + k] = into[q - 1][k]
             /\ q <= Len(t) /\ q \notin gone => r[e[q - 1] + Len(into[q - 1]) + 1] = t[q]
  <2>1. q - 1 \in 0..n /\ q \in 0..n + 1 /\ q - 1 \in 0..n + 1 /\ q \in Int /\ i \in Int /\ i <= n
    BY <1>1
  <2>2. into[q - 1] = IF q - 1 = i THEN <<x>> ELSE <<>>
    BY <2>1
  <2>3. /\ e[q] = IF q <= i THEN q ELSE IF q <= n THEN q + 1 ELSE n + 1
        /\ e[q - 1] = IF q - 1 <= i THEN q - 1 ELSE IF q - 1 <= n THEN q - 1 + 1 ELSE n + 1
    BY <2>1
  <2> HIDE DEF into, e, r
  <2>4. CASE q - 1 = i
    <3>1. into[q - 1] = <<x>> /\ e[q - 1] = q - 1 /\ q \in 1..n + 1 /\ q = i + 1 /\ ~(q <= i)
      BY <1>1, <2>1, <2>2, <2>3, <2>4
    <3>2. r[q] = x /\ (q <= n => r[q + 1] = t[q])
      <4>1. q <= n => q + 1 \in 1..n + 1 /\ ~(q + 1 <= i) /\ q + 1 # i + 1 /\ q + 1 - 1 = q
        BY <1>1, <2>1, <3>1
      <4> QED
        BY <1>3, <3>1, <4>1
    <3>3. e[q] = IF q <= n THEN q + 1 ELSE n + 1
      BY <2>3, <3>1
    <3>4. /\ q - 1 + 1 = q /\ q - 1 + 1 + 1 = q + 1
          /\ (IF q <= n THEN q + 1 ELSE n + 1) = q - 1 + 1 + IF q <= n THEN 1 ELSE 0
      BY <1>1, <2>1
    <3> QED
      BY <1>1, <3>1, <3>2, <3>3, <3>4
  <2>5. CASE q - 1 < i
    <3>1. into[q - 1] = <<>> /\ e[q - 1] = q - 1 /\ e[q] = q /\ q <= i /\ q <= n /\ q \in 1..n + 1
      BY <1>1, <2>1, <2>2, <2>3, <2>5
    <3>2. r[q] = t[q] /\ q - 1 + 0 + 1 = q
      BY <1>1, <1>3, <2>1, <3>1
    <3> QED
      BY <1>1, <3>1, <3>2
  <2>6. CASE q - 1 > i
    <3>1. into[q - 1] = <<>> /\ e[q - 1] = q /\ e[q] = (IF q <= n THEN q + 1 ELSE n + 1) /\ ~(q <= i)
      BY <1>1, <2>1, <2>2, <2>3, <2>6
    <3>2. q <= n => r[q + 1] = t[q]
      <4>1. q <= n => q + 1 \in 1..n + 1 /\ ~(q + 1 <= i) /\ q + 1 # i + 1 /\ q + 1 - 1 = q
        BY <1>1, <2>1, <2>6
      <4> QED
        BY <1>3, <4>1
    <3>3. /\ q + 0 + 1 = q + 1
          /\ (IF q <= n THEN q + 1 ELSE n + 1) = q + 0 + IF q <= n THEN 1 ELSE 0
      BY <1>1, <2>1
    <3> QED
      BY <1>1, <3>1, <3>2, <3>3
  <2> QED
    BY <2>1, <2>4, <2>5, <2>6
<1>9. Edited(t, <<c>>) = r
  <2> HIDE DEF into, e, r, gone
  <2>1. r \in Text
    BY <1>3
  <2>2. Edits(t, <<c>>, into, gone, r, e)
    BY <1>4, <1>5, <1>6, <1>7, <1>8, <2>1 DEF Edits
  <2> QED
    BY <2>2, EditedIs
<1> QED
  BY <1>2, <1>9

\* ... or deletes one ...
LEMMA DeleteIsSpliced ==
  ASSUME NEW t \in Text, NEW j \in 0..Len(t) - 1, NEW c, c = [at |-> j, del |-> 1, ins |-> <<>>]
  PROVE  c \in Change /\ c.at + c.del <= Len(t) /\ Edited(t, <<c>>) = Splice(t, c)
<1> DEFINE n == Len(t)
           into == [p \in 0..Len(t) |-> <<>>]
           r == Splice(t, c)
           gone == {j + 1}
           e == [q \in 0..Len(t) + 1 |-> IF q <= j THEN q ELSE IF q <= Len(t) THEN q - 1 ELSE Len(t) - 1]
<1>1. n \in Nat /\ j \in Nat /\ j < n /\ <<>> \in Text /\ Len(<<>>) = 0
  BY DEF Text
<1>2. c \in Change /\ c.at + c.del <= Len(t)
  BY <1>1 DEF Change
<1>3. /\ r \in Text /\ Len(r) = n - 1
      /\ \A k \in 1..n - 1 : r[k] = IF k <= j THEN t[k] ELSE t[k + 1]
  <2>1. c.at = j /\ c.del = 1 /\ c.ins = <<>>
    OBVIOUS
  <2>2. /\ r \in Text /\ Len(r) = n - c.del + Len(c.ins)
        /\ \A k \in 1..Len(r) : r[k] = IF k <= c.at THEN t[k]
                                       ELSE IF k <= c.at + Len(c.ins) THEN c.ins[k - c.at]
                                       ELSE t[k - Len(c.ins) + c.del]
    BY <1>2, SpliceIs
  <2> HIDE DEF r
  <2>3. Len(r) = n - 1
    BY <1>1, <2>1, <2>2
  <2>4. ASSUME NEW k \in 1..n - 1
        PROVE  r[k] = IF k <= j THEN t[k] ELSE t[k + 1]
    <3>1. k \in 1..Len(r) /\ j + 0 = j /\ k - 0 + 1 = k + 1
      BY <1>1, <2>3
    <3> QED
      BY <1>1, <2>1, <2>2, <3>1
  <2> QED
    BY <2>2, <2>3, <2>4
<1>4. into \in [0..Len(t) -> Text]
  BY <1>1
<1>5. e \in [0..Len(t) + 1 -> 0..Len(r)] /\ e[0] = 0 /\ e[Len(t) + 1] = Len(r)
  <2> HIDE DEF r
  <2> QED
    BY <1>1, <1>3
<1>6. \A p \in 0..Len(t) : Put(<<c>>, p) = into[p]
  <2> TAKE p \in 0..Len(t)
  <2>1. into[p] = PutBy(c, p)
    BY DEF PutBy
  <2> QED
    BY <2>1, PutByOne
<1>7. \A p \in 1..Len(t) : (\E d \in Range(<<c>>) : p \in d.at + 1..d.at + d.del) <=> p \in gone
  <2>1. Range(<<c>>) = {c} /\ c.at + 1..c.at + c.del = {j + 1}
    BY <1>1 DEF Range
  <2> QED
    BY <2>1
<1>8. ASSUME NEW q \in 1..Len(t) + 1
      PROVE  /\ e[q] = e[q - 1] + Len(into[q - 1]) + IF q <= Len(t) /\ q \notin gone THEN 1 ELSE 0
             /\ \A k \in 1..Len(into[q - 1]) : r[e[q - 1] + k] = into[q - 1][k]
             /\ q <= Len(t) /\ q \notin gone => r[e[q - 1] + Len(into[q - 1]) + 1] = t[q]
  <2>1. q - 1 \in 0..n /\ q \in 0..n + 1 /\ q - 1 \in 0..n + 1 /\ q \in Int
    BY <1>1
  <2>2. into[q - 1] = <<>>
    BY <2>1
  <2>3. /\ e[q] = IF q <= j THEN q ELSE IF q <= n THEN q - 1 ELSE n - 1
        /\ e[q - 1] = IF q - 1 <= j THEN q - 1 ELSE IF q - 1 <= n THEN q - 1 - 1 ELSE n - 1
    BY <2>1
  <2> HIDE DEF into, e, r
  <2>4. CASE q = j + 1
    <3>1. e[q - 1] = j /\ e[q] = j /\ q \in gone /\ j + 0 + 0 = j
      BY <1>1, <2>1, <2>3, <2>4
    <3> QED
      BY <1>1, <2>2, <3>1
  <2>5. CASE q <= j
    <3>1. e[q - 1] = q - 1 /\ e[q] = q /\ q \notin gone /\ q <= n /\ q \in 1..n - 1 /\ q - 1 + 0 + 1 = q
      BY <1>1, <2>1, <2>3, <2>5
    <3>2. r[q] = t[q]
      BY <1>3, <2>5, <3>1
    <3> QED
      BY <1>1, <2>2, <3>1, <3>2
  <2>6. CASE q > j + 1
    <3>1. /\ e[q - 1] = q - 2 /\ e[q] = (IF q <= n THEN q - 1 ELSE n - 1) /\ q \notin gone
          /\ q - 2 + 0 + 1 = q - 1
          /\ (IF q <= n THEN q - 1 ELSE n - 1) = q - 2 + 0 + IF q <= n THEN 1 ELSE 0
      BY <1>1, <2>1, <2>3, <2>6
    <3>2. q <= n => r[q - 1] = t[q]
      <4>1. q <= n => q - 1 \in 1..n - 1 /\ ~(q - 1 <= j) /\ q - 1 + 1 = q
        BY <1>1, <2>1, <2>6
      <4> QED
        BY <1>3, <4>1
    <3> QED
      BY <1>1, <2>2, <3>1, <3>2
  <2> QED
    BY <1>1, <2>1, <2>4, <2>5, <2>6
<1>9. Edited(t, <<c>>) = r
  <2> HIDE DEF into, e, r, gone
  <2>1. Edits(t, <<c>>, into, gone, r, e)
    BY <1>3, <1>4, <1>5, <1>6, <1>7, <1>8 DEF Edits
  <2> QED
    BY <2>1, EditedIs
<1> QED
  BY <1>2, <1>9

\* ... or both, at the start and further behind.
LEMMA BothAreSpliced ==
  ASSUME NEW t \in Text, NEW x \in Int, NEW j \in 1..Len(t) - 1,
         NEW c, c = [at |-> 0, del |-> 0, ins |-> <<x>>],
         NEW d, d = [at |-> j, del |-> 1, ins |-> <<>>],
         NEW cs \in {<<c, d>>, <<d, c>>}
  PROVE  /\ c \in First /\ d \in Later /\ d.at + d.del <= Len(t)
         /\ Splice(Splice(t, d), c) \in Text
         /\ Edited(t, cs) = Splice(Splice(t, d), c)
<1> DEFINE n == Len(t)
           into == [p \in 0..Len(t) |-> IF p = 0 THEN <<x>> ELSE <<>>]
           r0 == Splice(t, d)
           r == Splice(r0, c)
           gone == {j + 1}
           e == [q \in 0..Len(t) + 1 |-> IF q = 0 THEN 0 ELSE IF q <= j THEN q + 1
                                         ELSE IF q <= Len(t) THEN q ELSE Len(t)]
<1>1. /\ n \in Nat /\ j \in Nat /\ 1 <= j /\ j < n
      /\ <<>> \in Text /\ Len(<<>>) = 0 /\ <<x>> \in Text /\ Len(<<x>>) = 1
  BY DEF Text
<1>2. /\ c \in First /\ d \in Later /\ c \in Change /\ d \in Change
      /\ c.at = 0 /\ c.del = 0 /\ c.ins = <<x>> /\ d.at = j /\ d.del = 1 /\ d.ins = <<>>
      /\ d.at + d.del <= Len(t)
  BY <1>1 DEF First, Later, Change
<1>3. /\ r0 \in Text /\ Len(r0) = n - 1
      /\ \A k \in 1..n - 1 : r0[k] = IF k <= j THEN t[k] ELSE t[k + 1]
  <2>1. /\ r0 \in Text /\ Len(r0) = n - d.del + Len(d.ins)
        /\ \A k \in 1..Len(r0) : r0[k] = IF k <= d.at THEN t[k]
                                       ELSE IF k <= d.at + Len(d.ins) THEN d.ins[k - d.at]
                                       ELSE t[k - Len(d.ins) + d.del]
    BY <1>2, SpliceIs
  <2> HIDE DEF r0
  <2>2. Len(r0) = n - 1
    BY <1>1, <1>2, <2>1
  <2>3. ASSUME NEW k \in 1..n - 1
        PROVE  r0[k] = IF k <= j THEN t[k] ELSE t[k + 1]
    <3>1. k \in 1..Len(r0) /\ j + 0 = j /\ k - 0 + 1 = k + 1
      BY <1>1, <2>2
    <3> QED
      BY <1>1, <1>2, <2>1, <3>1
  <2> QED
    BY <2>1, <2>2, <2>3
<1> HIDE DEF r0
<1>4. /\ r \in Text /\ Len(r) = n
      /\ \A k \in 1..n : r[k] = IF k = 1 THEN x ELSE IF k <= j + 1 THEN t[k - 1] ELSE t[k]
  <2>1. c.at + c.del <= Len(r0)
    BY <1>1, <1>2, <1>3
  <2>2. /\ r \in Text /\ Len(r) = Len(r0) - c.del + Len(c.ins)
        /\ \A k \in 1..Len(r) : r[k] = IF k <= c.at THEN r0[k]
                                       ELSE IF k <= c.at + Len(c.ins) THEN c.ins[k - c.at]
                                       ELSE r0[k - Len(c.ins) + c.del]
    BY <1>2, <1>3, <2>1, SpliceIs
  <2> HIDE DEF r
  <2>3. Len(r) = n
    BY <1>1, <1>2, <1>3, <2>2
  <2>4. ASSUME NEW k \in 1..n
        PROVE  r[k] = IF k = 1 THEN x ELSE IF k <= j + 1 THEN t[k - 1] ELSE t[k]
    <3>1. k \in 1..Len(r) /\ ~(k <= 0) /\ (k <= 0 + 1 <=> k = 1)
      BY <1>1, <2>3
    <3>2. r[k] = IF k = 1 THEN <<x>>[k - 0] ELSE r0[k - 1 + 0]
      BY <1>1, <1>2, <2>2, <3>1
    <3>3. CASE k = 1
      BY <3>2, <3>3
    <3>4. CASE k # 1
      <4>1. k - 1 \in 1..n - 1 /\ k - 1 + 0 = k - 1 /\ (k - 1 <= j <=> k <= j + 1) /\ k - 1 + 1 = k
        BY <1>1, <3>4
      <4> QED
        BY <1>3, <3>2, <3>4, <4>1
    <3> QED
      BY <3>3, <3>4
  <2> QED
    BY <2>2, <2>3, <2>4
<1>5. into \in [0..Len(t) -> Text]
  BY <1>1
<1>6. e \in [0..Len(t) + 1 -> 0..Len(r)] /\ e[0] = 0 /\ e[Len(t) + 1] = Len(r)
  <2> HIDE DEF r
  <2> QED
    BY <1>1, <1>4
<1>7. \A p \in 0..Len(t) : Put(cs, p) = into[p]
  <2> TAKE p \in 0..Len(t)
  <2> DEFINE a == PutBy(c, p)
             b == PutBy(d, p)
  <2>1. Put(cs, p) \in {a \o b, b \o a}
    <3>1. Put(<<c, d>>, p) = a \o b
      BY PutByTwo
    <3>2. Put(<<d, c>>, p) = b \o a
      BY PutByTwo
    <3>3. cs = <<c, d>> \/ cs = <<d, c>>
      OBVIOUS
    <3> QED
      BY <3>1, <3>2, <3>3, Zenon
  <2>2. b = <<>> /\ a = into[p]
    BY <1>2 DEF PutBy
  <2>3. into[p] \in Text
    BY <1>5
  <2>4. into[p] \o <<>> = into[p] /\ <<>> \o into[p] = into[p]
    BY <2>3 DEF Text
  <2> QED
    BY <2>1, <2>2, <2>4
<1>8. \A p \in 1..Len(t) : (\E u \in Range(cs) : p \in u.at + 1..u.at + u.del) <=> p \in gone
  <2>1. Range(cs) = {c, d} /\ c.at + 1..c.at + c.del = {} /\ d.at + 1..d.at + d.del = {j + 1}
    BY <1>1, <1>2 DEF Range
  <2> QED
    BY <2>1
<1>9. ASSUME NEW q \in 1..Len(t) + 1
      PROVE  /\ e[q] = e[q - 1] + Len(into[q - 1]) + IF q <= Len(t) /\ q \notin gone THEN 1 ELSE 0
             /\ \A k \in 1..Len(into[q - 1]) : r[e[q - 1] + k] = into[q - 1][k]
             /\ q <= Len(t) /\ q \notin gone => r[e[q - 1] + Len(into[q - 1]) + 1] = t[q]
  <2>1. q - 1 \in 0..n /\ q \in 0..n + 1 /\ q - 1 \in 0..n + 1 /\ q \in Int
    BY <1>1
  <2>2. into[q - 1] = IF q - 1 = 0 THEN <<x>> ELSE <<>>
    BY <2>1
  <2>3. /\ e[q] = IF q = 0 THEN 0 ELSE IF q <= j THEN q + 1 ELSE IF q <= n THEN q ELSE n
        /\ e[q - 1] = IF q - 1 = 0 THEN 0 ELSE IF q - 1 <= j THEN q - 1 + 1
                      ELSE IF q - 1 <= n THEN q - 1 ELSE n
    BY <2>1
  <2> HIDE DEF into, e, r
  <2>4. CASE q = 1
    <3>1. into[q - 1] = <<x>> /\ e[q - 1] = 0 /\ e[q] = 2 /\ q \notin gone /\ q <= n /\ 0 + 1 + 1 = 2
      BY <1>1, <2>1, <2>2, <2>3, <2>4
    <3>2. r[1] = x /\ r[2] = t[q]
      <4>1. 1 \in 1..n /\ 2 \in 1..n /\ 2 <= j + 1 /\ 2 # 1 /\ 2 - 1 = q
        BY <1>1, <2>4
      <4> QED
        BY <1>4, <4>1
    <3>3. \A k \in 1..1 : r[0 + k] = <<x>>[k]
      BY <3>2
    <3> QED
      BY <1>1, <3>1, <3>2, <3>3
  <2>5. CASE 1 < q /\ q <= j
    <3>1. into[q - 1] = <<>> /\ e[q - 1] = q /\ e[q] = q + 1 /\ q \notin gone /\ q <= n /\ q + 0 + 1 = q + 1
      BY <1>1, <2>1, <2>2, <2>3, <2>5
    <3>2. r[q + 1] = t[q]
      <4>1. q + 1 \in 1..n /\ q + 1 <= j + 1 /\ q + 1 # 1 /\ q + 1 - 1 = q
        BY <1>1, <2>1, <2>5
      <4> QED
        BY <1>4, <4>1
    <3> QED
      BY <1>1, <3>1, <3>2
  <2>6. CASE q = j + 1
    <3>1. into[q - 1] = <<>> /\ e[q - 1] = j + 1 /\ e[q] = j + 1 /\ q \in gone /\ j + 1 + 0 + 0 = j + 1
      BY <1>1, <2>1, <2>2, <2>3, <2>6
    <3> QED
      BY <1>1, <3>1
  <2>7. CASE q > j + 1
    <3>1. /\ into[q - 1] = <<>> /\ e[q - 1] = q - 1 /\ e[q] = (IF q <= n THEN q ELSE n) /\ q \notin gone
          /\ q - 1 + 0 + 1 = q /\ (IF q <= n THEN q ELSE n) = q - 1 + 0 + IF q <= n THEN 1 ELSE 0
      BY <1>1, <2>1, <2>2, <2>3, <2>7
    <3>2. q <= n => r[q] = t[q]
      <4>1. q <= n => q \in 1..n /\ ~(q <= j + 1) /\ q # 1
        BY <1>1, <2>1, <2>7
      <4> QED
        BY <1>4, <4>1
    <3> QED
      BY <1>1, <3>1, <3>2
  <2> QED
    BY <1>1, <2>1, <2>4, <2>5, <2>6, <2>7
<1>10. Edited(t, cs) = r
  <2> HIDE DEF into, e, r, gone
  <2>1. Edits(t, cs, into, gone, r, e)
    BY <1>4, <1>5, <1>6, <1>7, <1>8, <1>9 DEF Edits
  <2> QED
    BY <2>1, EditedIs
<1> QED
  BY <1>2, <1>4, <1>10 DEF r0

\* Whatever the user does, the event fits into the text before it, and makes the text
\* after it of it.
LEMMA TypedFits ==
  ASSUME NEW t \in Text, NEW x \in Int, NEW cs \in UserChanges(Len(t), x)
  PROVE  cs \in Changes /\ Edited(t, cs) \in Text /\ Fits(t, cs, Edited(t, cs))
<1> DEFINE Insert(i) == [at |-> i, del |-> 0, ins |-> <<x>>]
           Delete(j) == [at |-> j, del |-> 1, ins |-> <<>>]
           n == Len(t)
<1>1. n \in Nat
  BY DEF Text
<1>2. ASSUME NEW i \in 0..n, cs = <<Insert(i)>>
      PROVE  cs \in Changes /\ Edited(t, cs) \in Text /\ Fits(t, cs, Edited(t, cs))
  <2> DEFINE c == Insert(i)
  <2>1. c \in Change /\ c.at + c.del <= Len(t) /\ Edited(t, <<c>>) = Splice(t, c)
    BY InsertIsSpliced
  <2> HIDE DEF c
  <2> QED
    BY <1>2, <2>1, OneChange, SpliceIs DEF c
<1>3. ASSUME NEW j \in 0..n - 1, cs = <<Delete(j)>>
      PROVE  cs \in Changes /\ Edited(t, cs) \in Text /\ Fits(t, cs, Edited(t, cs))
  <2> DEFINE c == Delete(j)
  <2>1. c \in Change /\ c.at + c.del <= Len(t) /\ Edited(t, <<c>>) = Splice(t, c)
    BY DeleteIsSpliced
  <2> HIDE DEF c
  <2> QED
    BY <1>3, <2>1, OneChange, SpliceIs DEF c
<1>4. ASSUME NEW j \in 1..n - 1, cs \in {<<Insert(0), Delete(j)>>, <<Delete(j), Insert(0)>>}
      PROVE  cs \in Changes /\ Edited(t, cs) \in Text /\ Fits(t, cs, Edited(t, cs))
  <2> DEFINE c == Insert(0)
             d == Delete(j)
  <2>0. cs \in {<<c, d>>, <<d, c>>}
    BY <1>4
  <2>1. /\ c \in First /\ d \in Later /\ d.at + d.del <= Len(t)
        /\ Splice(Splice(t, d), c) \in Text
        /\ Edited(t, cs) = Splice(Splice(t, d), c)
    <3>1. j \in 1..Len(t) - 1
      OBVIOUS
    <3>2. c = [at |-> 0, del |-> 0, ins |-> <<x>>] /\ d = [at |-> j, del |-> 1, ins |-> <<>>]
      OBVIOUS
    <3> HIDE DEF c, d
    <3> QED
      BY <2>0, <3>1, <3>2, BothAreSpliced
  <2> HIDE DEF c, d
  <2> QED
    BY <2>0, <2>1, TwoChanges
<1>5. \/ \E i \in 0..n : cs = <<Insert(i)>>
      \/ \E j \in 0..n - 1 : cs = <<Delete(j)>>
      \/ \E j \in 1..n - 1 : cs \in {<<Insert(0), Delete(j)>>, <<Delete(j), Insert(0)>>}
  BY DEF UserChanges
<1> HIDE DEF Insert, Delete
<1> QED
  BY <1>2, <1>3, <1>4, <1>5

\* A render fits into the text that it replaces.
LEMMA RenderFits ==
  ASSUME NEW t \in Text, NEW r \in Text
  PROVE  FullReplace(Len(t), r) \in Changes /\ Fits(t, FullReplace(Len(t), r), r)
<1> DEFINE c == [at |-> 0, del |-> Len(t), ins |-> r]
<1>1. Len(t) \in Nat /\ Len(r) \in Nat
  BY DEF Text
<1>2. c \in Change /\ c.at = 0 /\ c.del = Len(t) /\ c.ins = r
  BY <1>1 DEF Change
<1>3. FullReplace(Len(t), r) = <<c>>
  BY DEF FullReplace
<1> HIDE DEF c
<1>4. /\ Splice(t, c) \in Text /\ Len(Splice(t, c)) = Len(t) - Len(t) + Len(r)
      /\ \A k \in 1..Len(Splice(t, c)) :
           Splice(t, c)[k] = IF k <= 0 THEN t[k] ELSE IF k <= 0 + Len(r) THEN r[k - 0]
                             ELSE t[k - Len(r) + Len(t)]
  BY <1>1, <1>2, SpliceIs
<1>5. Splice(t, c) = r
  <2> DEFINE s == Splice(t, c)
  <2>1. Len(s) = Len(r)
    BY <1>1, <1>4
  <2>2. ASSUME NEW k \in 1..Len(s) PROVE s[k] = r[k]
    <3>1. ~(k <= 0) /\ k <= 0 + Len(r) /\ k - 0 = k
      BY <1>1, <2>1
    <3> QED
      BY <1>4, <3>1
  <2>3. s \in Text
    BY <1>4
  <2> HIDE DEF s
  <2>4. s = r
    BY <2>1, <2>2, <2>3, SameText
  <2> QED
    BY <2>4 DEF s
<1> QED
  BY <1>1, <1>2, <1>3, <1>5, OneChange

-----------------------------------------------------------------------------
(* The texts that the CRDT may have are texts.                             *)

\* An insert lands somewhere in the text.
LEMMA AfterChangeType ==
  ASSUME NEW ts \in SUBSET Text, NEW c \in Change, \A t \in ts : c.at + c.del <= Len(t)
  PROVE  AfterChange(ts, c) \in SUBSET Text
<1> DEFINE d == [c EXCEPT !.ins = <<>>]
           Into(j) == [at |-> j, del |-> 0, ins |-> c.ins]
<1>1. d \in Change /\ d.at = c.at /\ d.del = c.del /\ d.ins = <<>>
  <2>1. <<>> \in Text
    BY DEF Text
  <2> QED
    BY <2>1 DEF Change
<1>2. ASSUME NEW t \in ts, NEW j \in Landings(Splice(t, d), c.at)
      PROVE  Splice(Splice(t, d), Into(j)) \in Text
  <2> DEFINE u == Splice(t, d)
  <2>1. u \in Text /\ Len(u) = Len(t) - c.del + Len(<<>>)
    BY <1>1, SpliceIs
  <2>2. /\ Len(t) \in Nat /\ c.del \in Nat /\ c.at \in Nat /\ c.at + c.del <= Len(t)
        /\ Len(<<>>) = 0 /\ c.ins \in Text
    BY DEF Text, Change
  <2> HIDE DEF u
  <2>3. Len(u) \in Nat /\ c.at <= Len(u)
    BY <2>1, <2>2
  <2>4. j \in Nat /\ j <= Len(u)
    BY <1>2, <2>2, <2>3 DEF Landings, u
  <2>5. Into(j) \in Change /\ Into(j).at + Into(j).del <= Len(u)
    BY <2>2, <2>3, <2>4 DEF Change
  <2> HIDE DEF Into
  <2> QED
    BY <2>1, <2>5, SpliceIs DEF u
<1>3. AfterChange(ts, c) =
        UNION {{Splice(Splice(t, d), Into(j)) : j \in Landings(Splice(t, d), c.at)} : t \in ts}
  BY DEF AfterChange
<1> HIDE DEF d, Into
<1> QED
  BY <1>2, <1>3

\* Operations of changes that fit keep to texts.
LEMMA OperatedType ==
  ASSUME NEW t \in Text, NEW cs \in Changes, ~OutOfRange(t, cs)
  PROVE  ChangesToOperations(t, cs) \in SUBSET Text
<1>1. ChangesToOperations(t, cs) = Operated({t}, Descending(cs))
  BY DEF ChangesToOperations, Operated
<1>2. Len(t) \in Nat
  BY DEF Text
<1>3. ASSUME NEW c \in Change, cs = <<c>>
      PROVE  Operated({t}, Descending(cs)) \in SUBSET Text
  <2>1. Operated({t}, Descending(cs)) = AfterChange({t}, c)
    BY <1>3, DescendingOne, AfterChangeOne
  <2>2. c.at + c.del <= Len(t)
    <3>1. c \in Range(cs)
      BY <1>3 DEF Range
    <3>2. c.at \in Nat /\ c.del \in Nat
      BY DEF Change
    <3> QED
      BY <1>2, <3>1, <3>2 DEF OutOfRange
  <2> QED
    BY <2>1, <2>2, AfterChangeType
<1>4. ASSUME NEW c \in First, NEW d \in Later, cs \in {<<c, d>>, <<d, c>>}
      PROVE  Operated({t}, Descending(cs)) \in SUBSET Text
  <2>1. /\ c \in Change /\ c.at = 0 /\ c.del = 0 /\ c.at \in Int
        /\ d \in Change /\ d.at \in Nat /\ d.del \in Nat /\ d.at \in Int /\ d.at > c.at
    BY DEF First, Later, Change
  <2>2. Operated({t}, Descending(cs)) = AfterChange(AfterChange({t}, d), c)
    <3>1. Descending(cs) = <<d, c>>
      BY <1>4, <2>1, DescendingTwo
    <3> QED
      BY <3>1, AfterChangeTwo
  <2>3. d.at + d.del <= Len(t)
    <3>1. d \in Range(cs)
      BY <1>4 DEF Range
    <3> QED
      BY <1>2, <2>1, <3>1 DEF OutOfRange
  <2>4. AfterChange({t}, d) \in SUBSET Text
    BY <2>1, <2>3, AfterChangeType
  <2>5. \A u \in AfterChange({t}, d) : c.at + c.del <= Len(u)
    <3>1. \A u \in Text : 0 + 0 <= Len(u)
      BY DEF Text
    <3> QED
      BY <2>1, <2>4, <3>1
  <2> QED
    BY <2>1, <2>2, <2>4, <2>5, AfterChangeType
<1> QED
  BY <1>1, <1>3, <1>4 DEF Changes

-----------------------------------------------------------------------------
(* Types.                                                                  *)

Session    == 1..MaxLives
ChangeMsgs == [type : {"change"}, changes : Changes, text : Text, own : BOOLEAN]
ReplyMsgs  == [type : {"reply"}, life : Session, applied : BOOLEAN]
Message    == ChangeMsgs \cup ReplyMsgs
Edit       == [state : {"none", "sent", "applied", "answered"}, text : Text, fresh : BOOLEAN]

TypesOK ==
  /\ editor \in Text /\ document \in Text /\ crdt \in Text /\ shadow \in Text /\ seedText \in Text
  /\ toHost \in Seq(Message)
  /\ inSession \in BOOLEAN /\ life \in 0..MaxLives
  /\ seedSent \in BOOLEAN /\ joined \in {"no", "empty", "text"} /\ syncReady \in BOOLEAN
  /\ depth \in Nat
  /\ renders \in Seq(BOOLEAN)
  /\ edits \in [Session -> Edit]
  /\ typed \in Nat /\ remote \in Nat
  /\ stale \in BOOLEAN

LEMMA TextsOfSome ==
  /\ <<>> \in Text
  /\ \A x \in Int : <<x>> \in Text
  /\ \A t \in Text : Len(t) \in Nat
  /\ \A t \in Text : <<>> \o t = t /\ t \o <<>> = t
  BY DEF Text

LEMMA NoEditType == NoEdit \in Edit
  BY TextsOfSome DEF NoEdit, Edit

\* What a message is, by its type.
LEMMA MessageTypes ==
  ASSUME NEW m \in Message
  PROVE  /\ m.type \in {"change", "reply"}
         /\ m.type = "change" => m.changes \in Changes /\ m.text \in Text /\ m.own \in BOOLEAN
         /\ m.type = "reply" => m.life \in Session /\ m.applied \in BOOLEAN
  BY DEF Message, ChangeMsgs, ReplyMsgs

\* Queues of messages, and of renders.
LEMMA Appended ==
  ASSUME NEW S, NEW s \in Seq(S), NEW x \in S
  PROVE  /\ Append(s, x) \in Seq(S) /\ Len(Append(s, x)) = Len(s) + 1 /\ Len(s) \in Nat
         /\ \A i \in 1..Len(s) : Append(s, x)[i] = s[i]
         /\ Append(s, x)[Len(s) + 1] = x
  OBVIOUS

LEMMA Removed ==
  ASSUME NEW S, NEW s \in Seq(S), s # <<>>
  PROVE  /\ Tail(s) \in Seq(S) /\ Len(Tail(s)) = Len(s) - 1 /\ Len(s) \in Nat \ {0}
         /\ \A i \in 1..Len(s) - 1 : Tail(s)[i] = s[i + 1]
         /\ Head(s) = s[1] /\ Head(s) \in S
  OBVIOUS

LEMMA InitTypes == Init => TypesOK
<1> SUFFICES ASSUME Init PROVE TypesOK
  OBVIOUS
<1>1. <<0>> \in Text /\ <<>> \in Text
  BY TextsOfSome
<1>2. edits \in [Session -> Edit]
  BY NoEditType DEF Init, Session
<1>3. life \in 0..MaxLives
  BY DocumentAssumption DEF Init
<1>4. <<>> \in Seq(Message) /\ <<>> \in Seq(BOOLEAN)
  OBVIOUS
<1> QED
  BY <1>1, <1>2, <1>3, <1>4 DEF Init, TypesOK

LEMMA TypeTypes == TypesOK /\ Type => TypesOK'
<1> SUFFICES ASSUME TypesOK, Type PROVE TypesOK'
  OBVIOUS
<1> USE DEF TypesOK
<1>1. PICK cs \in UserChanges(Len(editor), typed + 1) :
        editor' = Edited(editor, cs) /\ toHost' = Append(toHost, ChangeMsg(cs, editor', FALSE))
  BY DEF Type
<1>2. cs \in Changes /\ editor' \in Text
  BY <1>1, TypedFits
<1>3. ChangeMsg(cs, editor', FALSE) \in Message
  BY <1>2 DEF ChangeMsg, Message, ChangeMsgs
<1>4. toHost' \in Seq(Message)
  <2> DEFINE m == ChangeMsg(cs, editor', FALSE)
  <2> HIDE DEF m
  <2> QED
    BY <1>1, <1>3, Appended DEF m
<1>5. edits' \in [Session -> Edit]
  <2>1. ASSUME NEW l \in Session PROVE [edits[l] EXCEPT !.fresh = FALSE] \in Edit
    BY DEF Edit
  <2> QED
    BY <2>1 DEF Type
<1>6. typed' \in Nat /\ UNCHANGED <<sessionVars, hostVars, remote, stale>>
  BY DEF Type
<1> QED
  BY <1>2, <1>4, <1>5, <1>6 DEF sessionVars, hostVars

LEMMA EditorAppliesTypes ==
  ASSUME TypesOK, NEW l \in Session, EditorApplies(l)
  PROVE  TypesOK'
<1> USE DEF TypesOK
<1>1. edits[l].text \in Text
  BY DEF Edit
<1>2. editor' \in Text /\ FullReplace(Len(editor), editor') \in Changes
  BY <1>1, RenderFits DEF EditorApplies
<1> DEFINE m == ChangeMsg(FullReplace(Len(editor), editor'), editor', TRUE)
<1>3. m \in Message
  BY <1>2 DEF ChangeMsg, Message, ChangeMsgs
<1>4. toHost' \in Seq(Message)
  <2> HIDE DEF m
  <2>1. toHost' = Append(toHost, m)
    BY DEF EditorApplies, m
  <2> QED
    BY <1>3, <2>1, Appended
<1>5. edits' \in [Session -> Edit]
  <2>1. ASSUME NEW k \in Session
        PROVE  [edits[k] EXCEPT !.fresh = FALSE, !.state = IF k = l THEN "applied" ELSE @] \in Edit
    BY DEF Edit
  <2> QED
    BY <2>1 DEF EditorApplies
<1> QED
  BY <1>2, <1>4, <1>5 DEF EditorApplies, sessionVars, hostVars

LEMMA EditorRepliesTypes ==
  ASSUME TypesOK, NEW l \in Session, EditorReplies(l)
  PROVE  TypesOK'
<1> USE DEF TypesOK
<1> DEFINE m == ReplyMsg(l, edits[l].state = "applied")
<1>1. m \in Message
  BY DEF ReplyMsg, Message, ReplyMsgs
<1>2. toHost' \in Seq(Message)
  <2> HIDE DEF m
  <2>1. toHost' = Append(toHost, m)
    BY DEF EditorReplies, m
  <2> QED
    BY <1>1, <2>1, Appended
<1>3. edits' \in [Session -> Edit]
  <2>1. [edits[l] EXCEPT !.state = "answered"] \in Edit
    BY DEF Edit
  <2> QED
    BY <2>1 DEF EditorReplies
<1> QED
  BY <1>2, <1>3 DEF EditorReplies, editorVars, sessionVars, hostVars

LEMMA HandleTypes ==
  ASSUME TypesOK, HandleLocalDocumentChange
  PROVE  TypesOK'
<1> USE DEF TypesOK
<1> DEFINE m == Head(toHost)
           next == ApplyTextChanges(shadow, m.changes)
<1>1. /\ toHost # <<>> /\ m.type = "change" /\ toHost' = Tail(toHost) /\ document' = m.text
      /\ UNCHANGED <<editorVars, sessionVars, syncReady, depth, edits, remote>>
  BY DEF HandleLocalDocumentChange
<1>2. m \in Message /\ toHost' \in Seq(Message)
  <2> HIDE DEF m
  <2> QED
    BY <1>1, Removed DEF m
<1>3. m.changes \in Changes /\ m.text \in Text
  BY <1>1, <1>2, MessageTypes
<1>4. Append(renders, FALSE) \in Seq(BOOLEAN)
  OBVIOUS
<1>5. \/ stale' \in BOOLEAN /\ UNCHANGED <<crdt, shadow, renders>>
      \/ renders' = Append(renders, FALSE) /\ UNCHANGED <<crdt, shadow, stale>>
      \/ /\ shadow = crdt /\ ~OutOfRange(shadow, m.changes) /\ next = m.text
         /\ crdt' \in ChangesToOperations(crdt, m.changes) /\ shadow' = next
         /\ renders' = RendersAfterEdit(crdt', next) /\ UNCHANGED stale
  BY <1>2 DEF HandleLocalDocumentChange
<1> HIDE DEF m, next
<1>6. CASE stale' \in BOOLEAN /\ UNCHANGED <<crdt, shadow, renders>>
  BY <1>1, <1>2, <1>3, <1>6 DEF editorVars, sessionVars
<1>7. CASE renders' = Append(renders, FALSE) /\ UNCHANGED <<crdt, shadow, stale>>
  BY <1>1, <1>2, <1>3, <1>4, <1>7 DEF editorVars, sessionVars
<1>8. CASE /\ shadow = crdt /\ ~OutOfRange(shadow, m.changes) /\ next = m.text
           /\ crdt' \in ChangesToOperations(crdt, m.changes) /\ shadow' = next
           /\ renders' = RendersAfterEdit(crdt', next) /\ UNCHANGED stale
  <2>1. crdt' \in Text
    BY <1>3, <1>8, OperatedType
  <2>2. renders' \in Seq(BOOLEAN)
    BY <1>4, <1>8 DEF RendersAfterEdit
  <2> QED
    BY <1>1, <1>2, <1>3, <1>8, <2>1, <2>2 DEF editorVars, sessionVars
<1> QED
  BY <1>5, <1>6, <1>7, <1>8

LEMMA RenderTypes ==
  ASSUME TypesOK, Render
  PROVE  TypesOK'
<1> USE DEF TypesOK
<1>1. Tail(renders) \in Seq(BOOLEAN) /\ Head(renders) \in BOOLEAN
  BY Removed DEF Render
<1> DEFINE e == [state |-> "sent", text |-> crdt,
                 fresh |-> \A m \in Range(toHost) : m.type # "change"]
<1>2. e \in Edit
  BY DEF Edit
<1> HIDE DEF e
<1>3. edits' \in [Session -> Edit]
  BY <1>2 DEF Render, e
<1>4. renders' \in Seq(BOOLEAN) /\ syncReady' \in BOOLEAN
  BY <1>1 DEF Render, RenderEnds
<1>5. depth' \in Nat /\ shadow' \in Text
  BY DEF Render
<1> QED
  BY <1>3, <1>4, <1>5 DEF Render, editorVars, sessionVars

LEMMA RenderReturnsTypes ==
  ASSUME TypesOK, RenderReturns, inSession /\ Head(toHost).life = life => renders # <<>>
  PROVE  TypesOK'
<1> USE DEF TypesOK
<1> DEFINE m == Head(toHost)
<1>1. m \in Message /\ m.type = "reply" /\ toHost' \in Seq(Message)
  <2> HIDE DEF m
  <2>1. toHost # <<>> /\ toHost' = Tail(toHost) /\ m.type = "reply"
    BY DEF RenderReturns, m
  <2> QED
    BY <2>1, Removed DEF m
<1>2. m.life \in Session /\ m.applied \in BOOLEAN
  BY <1>1, MessageTypes
<1> HIDE DEF m
<1>3. edits' = [edits EXCEPT ![m.life] = NoEdit]
  BY DEF RenderReturns, m
<1>4. edits' \in [Session -> Edit]
  BY <1>3, NoEditType
<1>5. shadow' \in Text
  <2>1. edits[m.life].text \in Text
    BY <1>2 DEF Edit
  <2> QED
    BY <2>1 DEF RenderReturns, m
<1>6. renders' \in Seq(BOOLEAN) /\ syncReady' \in BOOLEAN
  <2>1. CASE UNCHANGED <<renders, syncReady>>
    BY <2>1
  <2>2. CASE RenderEnds /\ renders # <<>>
    <3>1. Tail(renders) \in Seq(BOOLEAN)
      BY <2>2, Removed
    <3>2. (syncReady \/ Head(renders)) \in BOOLEAN
      OBVIOUS
    <3> QED
      BY <2>2, <3>1, <3>2 DEF RenderEnds
  <2> QED
    BY <2>1, <2>2 DEF RenderReturns
<1>7. depth' \in Nat /\ stale' \in BOOLEAN
  BY DEF RenderReturns
<1> QED
  BY <1>1, <1>4, <1>5, <1>6, <1>7 DEF RenderReturns, editorVars, sessionVars

LEMMA SessionTypes ==
  ASSUME TypesOK, Connect \/ LeaveSession
  PROVE  TypesOK'
<1> USE DEF TypesOK
<1>1. /\ inSession' \in BOOLEAN /\ life' \in 0..MaxLives /\ seedText' \in Text /\ stale' \in BOOLEAN
      /\ ResetSession(document) \/ ResetSession(<<>>)
  <2>1. MaxLives \in Nat
    BY DocumentAssumption
  <2>2. CASE Connect
    <3>1. life' \in 0..MaxLives
      BY <2>1, <2>2 DEF Connect
    <3> QED
      BY <2>2, <3>1 DEF Connect
  <2>3. CASE LeaveSession
    BY <2>3 DEF LeaveSession
  <2> QED
    BY <2>2, <2>3
<1>2. /\ crdt' = <<>> /\ shadow' \in Text /\ depth' = 0 /\ renders' = <<>> /\ syncReady' = FALSE
      /\ seedSent' = FALSE /\ joined' = "no" /\ UNCHANGED <<editorVars, document, toHost, edits, remote>>
  BY <1>1, TextsOfSome DEF ResetSession
<1>3. <<>> \in Seq(BOOLEAN)
  OBVIOUS
<1> QED
  BY <1>1, <1>2, <1>3, TextsOfSome DEF editorVars

LEMMA JoinedEmptyTypes ==
  ASSUME TypesOK, JoinedEmpty
  PROVE  TypesOK'
<1> USE DEF TypesOK
<1>1. crdt' \in Text
  BY Joined DEF JoinedEmpty, Seeded
<1>2. joined' \in {"no", "empty", "text"}
  BY DEF JoinedEmpty
<1> QED
  BY <1>1, <1>2 DEF JoinedEmpty, editorVars

LEMMA JoinedTextTypes ==
  ASSUME TypesOK, JoinedText
  PROVE  TypesOK'
<1> USE DEF TypesOK
<1>1. -(remote + 1) \in Int
  OBVIOUS
<1>2. crdt' \in Text
  BY <1>1, TextsOfSome DEF JoinedText, Others
<1>3. remote' \in Nat
  BY <1>2, TextsOfSome DEF JoinedText
<1>4. PICK b \in BOOLEAN : syncReady' = b /\ seedSent' = b /\ renders' = Append(renders, ~b)
  BY DEF JoinedText
<1>5. renders' \in Seq(BOOLEAN)
  <2> DEFINE nb == ~b
  <2>1. nb \in BOOLEAN /\ renders' = Append(renders, nb)
    BY <1>4
  <2> HIDE DEF nb
  <2> QED
    BY <2>1, Appended
<1> QED
  BY <1>2, <1>3, <1>4, <1>5 DEF JoinedText, editorVars

LEMMA RemoteOperationTypes ==
  ASSUME TypesOK, RemoteOperation
  PROVE  TypesOK'
<1> USE DEF TypesOK
<1>1. crdt' \in Text
  <2>1. ASSUME NEW i \in 0..Len(crdt)
        PROVE  Splice(crdt, [at |-> i, del |-> 0, ins |-> <<-(remote + 1)>>]) \in Text
    <3> DEFINE c == [at |-> i, del |-> 0, ins |-> <<-(remote + 1)>>]
    <3>1. -(remote + 1) \in Int /\ Len(crdt) \in Nat
      BY TextsOfSome
    <3>2. <<-(remote + 1)>> \in Text
      BY <3>1, TextsOfSome
    <3>3. c \in Change /\ c.at + c.del <= Len(crdt)
      BY <3>1, <3>2 DEF Change
    <3> HIDE DEF c
    <3>4. Splice(crdt, c) \in Text
      BY <3>3, SpliceIs
    <3> QED
      BY <3>4 DEF c
  <2>2. ASSUME NEW i \in DOMAIN crdt
        PROVE  RemoveAt(crdt, i) \in Text
    <3>1. SubSeq(crdt, 1, i - 1) \in Text /\ SubSeq(crdt, i + 1, Len(crdt)) \in Text
      BY DEF Text
    <3> QED
      BY <3>1, Joined DEF RemoveAt
  <2> QED
    BY <2>1, <2>2 DEF RemoteOperation
<1>2. renders' \in Seq(BOOLEAN)
  BY DEF RemoteOperation, RendersAfterOperation
<1>3. remote' \in Nat
  BY DEF RemoteOperation
<1> QED
  BY <1>1, <1>2, <1>3 DEF RemoteOperation, editorVars, sessionVars

\* Every step keeps the types.
LEMMA NextTypes ==
  ASSUME TypesOK, [Next]_vars,
         RenderReturns => (inSession /\ Head(toHost).life = life => renders # <<>>)
  PROVE  TypesOK'
<1>1. CASE UNCHANGED vars
  BY <1>1 DEF TypesOK, vars, editorVars, sessionVars, hostVars
<1>2. CASE EditorStep
  BY <1>2, EditorAppliesTypes, EditorRepliesTypes DEF EditorStep, Session
<1>3. CASE HostStep
  BY <1>3, HandleTypes, RenderTypes, RenderReturnsTypes DEF HostStep
<1> QED
  BY <1>1, <1>2, <1>3, TypeTypes, SessionTypes, JoinedEmptyTypes, JoinedTextTypes,
     RemoteOperationTypes DEF Next

-----------------------------------------------------------------------------
(* Renders and sessions.                                                   *)

\* The workspace edit of a session is under way, or its answer.
Live(l) == edits[l].state # "none"

\* The guard against own renders is set while the session that is on waits for an edit
\* of its own; no other edit is under way once it has joined, and before it has joined
\* it has nothing to render.
SessionInv ==
  /\ \A l \in Session : l > life => ~Live(l)
  /\ inSession => life \in Session
  /\ ~inSession => renders = <<>> /\ ~syncReady /\ joined = "no"
  /\ joined = "no" => renders = <<>> /\ ~syncReady /\ crdt = <<>> /\ ~seedSent
  /\ joined = "empty" => seedSent /\ syncReady
  /\ inSession /\ joined = "no" => ~Live(life)
  /\ inSession /\ joined # "no" => \A l \in Session : Live(l) => l = life
  /\ inSession /\ Live(life) => renders # <<>>
  /\ depth = IF inSession /\ Live(life) THEN 1 ELSE 0

\* One edit is under way at a time.
OneEdit == \A l, m \in Session : Live(l) /\ Live(m) => l = m

\* A queue of renders that has grown is not empty, and one that shrinks was not.
LEMMA RenderAdded ==
  ASSUME TypesOK, NEW b \in BOOLEAN
  PROVE  /\ Append(renders, b) # <<>>
         /\ Len(renders) \in Nat /\ Len(Append(renders, b)) = Len(renders) + 1
         /\ renders # <<>> => Len(renders) > 0 /\ Len(Tail(renders)) = Len(renders) - 1
<1> DEFINE r == renders
<1>1. r \in Seq(BOOLEAN)
  BY DEF TypesOK
<1> HIDE DEF r
<1>2. Len(Append(r, b)) = Len(r) + 1 /\ Len(r) \in Nat
  BY <1>1, Appended
<1>3. Append(r, b) # <<>>
  <2> DEFINE s == Append(r, b)
  <2>1. Len(s) # 0
    BY <1>2
  <2> HIDE DEF s
  <2>2. s # <<>>
    BY <2>1
  <2> QED
    BY <2>2 DEF s
<1>4. r # <<>> => Len(Tail(r)) = Len(r) - 1 /\ Len(r) > 0
  BY <1>1, Removed
<1> QED
  BY <1>2, <1>3, <1>4 DEF r

\* The editor ends no edit: the extension does, when it reads the answer.
LEMMA LiveEdits ==
  ASSUME TypesOK,
         Type \/ \E l \in Session : EditorApplies(l) \/ EditorReplies(l)
  PROVE  \A k \in Session : Live(k)' <=> Live(k)
<1> TAKE k \in Session
<1>1. CASE Type
  BY <1>1 DEF Type, TypesOK, Edit, Live
<1>2. ASSUME NEW l \in Session, EditorApplies(l)
      PROVE  Live(k)' <=> Live(k)
  BY <1>2 DEF EditorApplies, TypesOK, Edit, Live
<1>3. ASSUME NEW l \in Session, EditorReplies(l)
      PROVE  Live(k)' <=> Live(k)
  BY <1>3 DEF EditorReplies, TypesOK, Edit, Live
<1> QED
  BY <1>1, <1>2, <1>3

LEMMA SessionOfEditor ==
  ASSUME TypesOK, SessionInv, OneEdit,
         Type \/ \E l \in Session : EditorApplies(l) \/ EditorReplies(l)
  PROVE  SessionInv' /\ OneEdit'
<1>1. UNCHANGED <<sessionVars, hostVars>>
  BY DEF Type, EditorApplies, EditorReplies
<1>2. \A k \in Session : Live(k)' <=> Live(k)
  BY LiveEdits
<1> HIDE DEF Live
<1> QED
  BY <1>1, <1>2 DEF SessionInv, OneEdit, sessionVars, hostVars

LEMMA SessionOfChange ==
  ASSUME TypesOK, SessionInv, OneEdit, HandleLocalDocumentChange
  PROVE  SessionInv' /\ OneEdit'
<1>1. /\ UNCHANGED <<sessionVars, syncReady, depth, edits>>
      /\ renders' = renders \/ renders' # <<>>
      /\ IgnoresChange \/ ~syncReady => UNCHANGED <<crdt, renders>>
  <2>1. Append(renders, FALSE) # <<>>
    BY RenderAdded
  <2> QED
    BY <2>1 DEF HandleLocalDocumentChange, RendersAfterEdit
<1>2. \A k \in Session : Live(k)' <=> Live(k)
  BY <1>1 DEF Live
<1>3. Live(life)' <=> Live(life)
  BY <1>1 DEF Live, sessionVars
<1> HIDE DEF Live
<1> QED
  BY <1>1, <1>2, <1>3 DEF SessionInv, OneEdit, sessionVars, IgnoresChange

LEMMA SessionOfRender ==
  ASSUME TypesOK, SessionInv, OneEdit, Render
  PROVE  SessionInv' /\ OneEdit'
<1>1. /\ inSession /\ life \in Session /\ joined # "no" /\ ~Live(life)
      /\ \A l \in Session : ~Live(l)
      /\ UNCHANGED <<sessionVars, crdt>> /\ depth = 0
  BY DEF Render, SessionInv, Live
<1>2. CASE document = crdt
  <2>1. UNCHANGED <<depth, edits>> /\ syncReady' = (syncReady \/ Head(renders))
    BY <1>2 DEF Render, RenderEnds
  <2>2. \A k \in Session : ~Live(k)'
    BY <1>1, <2>1 DEF Live
  <2> HIDE DEF Live
  <2>3. ~Live(life)'
    BY <1>1, <2>2 DEF sessionVars
  <2> QED
    BY <1>1, <2>1, <2>2, <2>3 DEF SessionInv, OneEdit, sessionVars
<1>3. CASE document # crdt
  <2>1. depth' = 1 /\ UNCHANGED <<renders, syncReady>> /\ renders # <<>>
    BY <1>1, <1>3 DEF Render
  <2>2. Live(life)' /\ \A k \in Session : Live(k)' => k = life
    BY <1>1, <1>3 DEF Render, TypesOK, Live, sessionVars
  <2> HIDE DEF Live
  <2>3. life \in 0..MaxLives /\ life' = life /\ joined' # "no" /\ inSession'
    BY <1>1 DEF TypesOK, sessionVars
  <2>4. \A l \in Session : l > life => l # life
    BY <2>3 DEF Session
  <2> QED
    BY <1>1, <2>1, <2>2, <2>3, <2>4 DEF SessionInv, OneEdit, sessionVars
<1> QED
  BY <1>2, <1>3

\* A reply ends the edit that it answers.
LEMMA SessionOfReturn ==
  ASSUME TypesOK, SessionInv, OneEdit, RenderReturns,
         NEW l \in Session, l = Head(toHost).life, Live(l)
  PROVE  /\ SessionInv' /\ OneEdit'
         /\ \A k \in Session : ~Live(k)'
         /\ inSession /\ l = life => renders # <<>>
<1>1. \A k \in Session : ~Live(k)'
  BY DEF RenderReturns, OneEdit, TypesOK, NoEdit, Live
<1>2. /\ UNCHANGED <<sessionVars, crdt>>
      /\ depth' = IF depth > 0 THEN depth - 1 ELSE 0
      /\ IF inSession /\ l = life THEN RenderEnds ELSE UNCHANGED <<renders, syncReady>>
  BY DEF RenderReturns
<1>3. inSession /\ l = life => renders # <<>> /\ joined # "no"
  BY DEF SessionInv
<1>4. depth' = 0
  <2>1. depth \in {0, 1}
    BY DEF SessionInv
  <2> QED
    BY <1>2, <2>1
<1> HIDE DEF Live
<1>5. inSession => life \in Session /\ ~Live(life)'
  BY <1>1, <1>2 DEF SessionInv, sessionVars
<1> QED
  BY <1>1, <1>2, <1>3, <1>4, <1>5 DEF SessionInv, OneEdit, sessionVars, RenderEnds

LEMMA SessionOfSession ==
  ASSUME TypesOK, SessionInv, OneEdit, Connect \/ LeaveSession
  PROVE  SessionInv' /\ OneEdit'
<1>1. /\ crdt' = <<>> /\ depth' = 0 /\ renders' = <<>> /\ syncReady' = FALSE
      /\ seedSent' = FALSE /\ joined' = "no" /\ UNCHANGED edits
  BY DEF Connect, LeaveSession, ResetSession
<1>2. \A k \in Session : Live(k)' <=> Live(k)
  BY <1>1 DEF Live
<1>3. CASE Connect
  <2>1. MaxLives \in Nat
    BY DocumentAssumption
  <2>2. life' = life + 1 /\ life' \in Session /\ life \in Int
    BY <1>3, <2>1 DEF Connect, TypesOK, Session
  <2>3. ~Live(life') /\ Live(life)' = Live(life')
    BY <1>1, <2>2 DEF SessionInv, Live
  <2>4. \A l \in Session : l > life' => l > life
    BY <2>2 DEF Session
  <2> HIDE DEF Live
  <2> QED
    BY <1>1, <1>2, <2>2, <2>3, <2>4 DEF SessionInv, OneEdit
<1>4. CASE LeaveSession
  <2>1. inSession' = FALSE /\ life' = life
    BY <1>4 DEF LeaveSession
  <2> HIDE DEF Live
  <2> QED
    BY <1>1, <1>2, <2>1 DEF SessionInv, OneEdit
<1> QED
  BY <1>3, <1>4

LEMMA SessionOfJoin ==
  ASSUME TypesOK, SessionInv, OneEdit, ~FastJoin, JoinedEmpty \/ JoinedText \/ RemoteOperation
  PROVE  SessionInv' /\ OneEdit'
<1>1. UNCHANGED <<inSession, life, depth, edits>> /\ inSession /\ life \in Session
  BY DEF SessionInv, JoinedEmpty, JoinedText, RemoteOperation, sessionVars
<1>2. \A k \in Session : Live(k)' <=> Live(k)
  BY <1>1 DEF Live
<1>3. \A k \in Session : Live(k) => k = life
  BY DEF JoinedEmpty, JoinedText, RemoteOperation, MayJoin, TypesOK, SessionInv, Live
<1>4. Live(life)' <=> Live(life)
  BY <1>1 DEF Live
<1>5. renders' = renders \/ renders' # <<>>
  <2>1. CASE JoinedEmpty
    BY <2>1 DEF JoinedEmpty
  <2>2. CASE JoinedText
    <3>1. PICK b \in BOOLEAN : renders' = Append(renders, ~b)
      BY <2>2 DEF JoinedText
    <3> DEFINE nb == ~b
    <3>2. renders' = Append(renders, nb) /\ nb \in BOOLEAN
      BY <3>1
    <3> HIDE DEF nb
    <3> QED
      BY <3>2, RenderAdded
  <2>3. CASE RemoteOperation
    <3>1. renders' = Append(renders, FALSE)
      BY <2>3 DEF RemoteOperation, RendersAfterOperation
    <3> QED
      BY <3>1, RenderAdded
  <2> QED
    BY <2>1, <2>2, <2>3
<1>6. CASE JoinedEmpty
  <2>1. joined' # "no" /\ (joined' = "empty" => seedSent' /\ syncReady')
    BY <1>6 DEF JoinedEmpty, TypesOK
  <2> HIDE DEF Live
  <2> QED
    BY <1>1, <1>2, <1>3, <1>4, <1>5, <2>1 DEF SessionInv, OneEdit
<1>7. CASE JoinedText
  <2>1. joined' = "text"
    BY <1>7 DEF JoinedText
  <2> HIDE DEF Live
  <2> QED
    BY <1>1, <1>2, <1>3, <1>4, <1>5, <2>1 DEF SessionInv, OneEdit
<1>8. CASE RemoteOperation
  <2>1. joined' = joined /\ joined # "no" /\ UNCHANGED <<seedSent, syncReady>>
    BY <1>8 DEF RemoteOperation, sessionVars
  <2> HIDE DEF Live
  <2> QED
    BY <1>1, <1>2, <1>3, <1>4, <1>5, <2>1 DEF SessionInv, OneEdit
<1> QED
  BY <1>6, <1>7, <1>8

-----------------------------------------------------------------------------
(* Messages from the editor.                                               *)

\* The messages in the queue.
IsChange(i) == toHost[i].type = "change"
IsReply(i)  == toHost[i].type = "reply"
IsOwn(i)    == IsChange(i) /\ toHost[i].own
Index       == 1..Len(toHost)

\* A reply is for an edit that waits for it; there is one reply and one change of an
\* own edit at most, the change before the reply, and as long as the editor could take
\* an edit no change is on its way.
MessageInv ==
  /\ \A i \in Index : IsReply(i) => edits[toHost[i].life].state = "answered"
  /\ \A i, j \in Index : IsReply(i) /\ IsReply(j) => i = j
  /\ \A i, j \in Index : IsOwn(i) /\ IsOwn(j) => i = j
  /\ \A i, j \in Index : IsOwn(i) /\ IsReply(j) => i < j
  /\ \A i \in Index : IsOwn(i) =>
       \E l \in Session : edits[l].state \in {"applied", "answered"} /\ edits[l].text = toHost[i].text
  /\ \A l \in Session : edits[l].fresh => \A i \in Index : ~IsChange(i)

\* What is in the queue is a message, and a change or a reply.
LEMMA InQueue ==
  ASSUME TypesOK
  PROVE  /\ Len(toHost) \in Nat
         /\ \A i \in Index : /\ toHost[i] \in Message
                             /\ IsReply(i) <=> ~IsChange(i)
                             /\ IsReply(i) => toHost[i].life \in Session
<1> DEFINE q == toHost
<1>1. q \in Seq(Message)
  BY DEF TypesOK
<1> HIDE DEF q
<1>2. Len(q) \in Nat /\ \A i \in 1..Len(q) : q[i] \in Message
  BY <1>1
<1> QED
  BY <1>2, MessageTypes DEF q, Index, IsReply, IsChange

\* The queue after a message came in ...
LEMMA QueueAppended ==
  ASSUME TypesOK, NEW m \in Message, toHost' = Append(toHost, m)
  PROVE  /\ Len(toHost) \in Nat /\ Len(toHost') = Len(toHost) + 1
         /\ Index' = Index \cup {Len(toHost) + 1} /\ Len(toHost) + 1 \notin Index
         /\ \A i \in Index : /\ i \in Nat /\ i < Len(toHost) + 1
                             /\ toHost'[i] = toHost[i]
                             /\ IsChange(i)' <=> IsChange(i)
                             /\ IsReply(i)' <=> IsReply(i)
                             /\ IsOwn(i)' <=> IsOwn(i)
         /\ toHost'[Len(toHost) + 1] = m
<1> DEFINE q == toHost
           r == toHost'
<1>1. q \in Seq(Message) /\ r = Append(q, m)
  BY DEF TypesOK
<1> HIDE DEF q, r
<1>2. /\ Len(q) \in Nat /\ Len(r) = Len(q) + 1
      /\ \A i \in 1..Len(q) : r[i] = q[i]
      /\ r[Len(q) + 1] = m
  BY <1>1, Appended
<1>3. 1..Len(r) = 1..Len(q) \cup {Len(q) + 1}
  BY <1>2
<1>4. \A i \in 1..Len(q) : i \in Nat /\ i < Len(q) + 1
  BY <1>2
<1>5. Len(q) + 1 \notin 1..Len(q)
  BY <1>2
<1> QED
  BY <1>2, <1>3, <1>4, <1>5 DEF q, r, Index, IsChange, IsReply, IsOwn

\* ... and after the first has been handled.
LEMMA QueueRemoved ==
  ASSUME TypesOK, toHost # <<>>, toHost' = Tail(toHost)
  PROVE  /\ Len(toHost) \in Nat \ {0} /\ Len(toHost') = Len(toHost) - 1
         /\ 1 \in Index /\ Head(toHost) = toHost[1]
         /\ \A i \in Index' : /\ i \in Nat \ {0} /\ i + 1 \in Index /\ i + 1 # 1
                              /\ toHost'[i] = toHost[i + 1]
                              /\ IsChange(i)' <=> IsChange(i + 1)
                              /\ IsReply(i)' <=> IsReply(i + 1)
                              /\ IsOwn(i)' <=> IsOwn(i + 1)
         /\ \A i \in Index : i = 1 \/ (i \in Nat /\ i - 1 \in Index' /\ i = (i - 1) + 1)
<1> DEFINE q == toHost
           r == toHost'
<1>1. q \in Seq(Message) /\ r = Tail(q) /\ q # <<>>
  BY DEF TypesOK
<1> HIDE DEF q, r
<1>2. /\ Len(q) \in Nat \ {0} /\ Len(r) = Len(q) - 1 /\ Head(q) = q[1]
      /\ \A i \in 1..Len(q) - 1 : r[i] = q[i + 1]
  BY <1>1, Removed
<1>3. 1 \in 1..Len(q)
  BY <1>2
<1>4. \A i \in 1..Len(r) : /\ i \in Nat \ {0} /\ i + 1 \in 1..Len(q) /\ i + 1 # 1
                           /\ r[i] = q[i + 1]
  BY <1>2
<1>5. \A i \in 1..Len(q) : i = 1 \/ (i \in Nat /\ i - 1 \in 1..Len(r) /\ i = (i - 1) + 1)
  BY <1>2
<1> QED
  BY <1>2, <1>3, <1>4, <1>5 DEF q, r, Index, IsChange, IsReply, IsOwn

\* The user makes any edit stale that is under way, and the change is not an own one.
LEMMA MessagesOfType ==
  ASSUME TypesOK, MessageInv, Type
  PROVE  MessageInv'
<1>1. PICK cs \in UserChanges(Len(editor), typed + 1) :
        editor' = Edited(editor, cs) /\ toHost' = Append(toHost, ChangeMsg(cs, editor', FALSE))
  BY DEF Type
<1> DEFINE m == ChangeMsg(cs, editor', FALSE)
<1>0. PICK n : n = Len(toHost)
  OBVIOUS
<1>2. m \in Message
  <2>1. cs \in Changes /\ editor' \in Text
    BY <1>1, TypedFits DEF TypesOK
  <2> QED
    BY <2>1 DEF ChangeMsg, Message, ChangeMsgs
<1>3. m.type = "change" /\ ~m.own
  BY DEF ChangeMsg
<1> HIDE DEF m
<1>4. /\ n \in Nat /\ Index' = Index \cup {n + 1} /\ n + 1 \notin Index /\ toHost'[n + 1] = m
      /\ \A i \in Index : /\ toHost'[i] = toHost[i]
                          /\ IsReply(i)' <=> IsReply(i)
                          /\ IsOwn(i)' <=> IsOwn(i)
  BY <1>0, <1>1, <1>2, QueueAppended DEF m
<1>5. ~IsReply(n + 1)' /\ ~IsOwn(n + 1)'
  BY <1>3, <1>4 DEF IsReply, IsOwn
<1>6. \A l \in Session : /\ edits'[l].state = edits[l].state /\ edits'[l].text = edits[l].text
                         /\ ~edits'[l].fresh
  BY DEF Type, TypesOK, Edit
<1>7. \A i \in Index : IsReply(i) => toHost[i].life \in Session
  BY InQueue
<1>8. \A i \in Index' : IsReply(i)' \/ IsOwn(i)' => i \in Index
  BY <1>4, <1>5
<1> QED
  BY <1>4, <1>6, <1>7, <1>8 DEF MessageInv

\* An edit is applied while no change is on its way, and its change is the only own one.
LEMMA MessagesOfEdit ==
  ASSUME TypesOK, MessageInv, OneEdit, NEW l \in Session, EditorApplies(l)
  PROVE  /\ MessageInv'
         /\ \A i \in Index : ~IsReply(i) /\ ~IsChange(i)
<1> DEFINE m == ChangeMsg(FullReplace(Len(editor), editor'), editor', TRUE)
<1>0. PICK n : n = Len(toHost)
  OBVIOUS
<1>1. /\ edits[l].state = "sent" /\ edits[l].fresh /\ editor' = edits[l].text
      /\ toHost' = Append(toHost, m)
  BY DEF EditorApplies
<1>2. m \in Message
  <2>1. editor' \in Text
    BY <1>1 DEF TypesOK, Edit
  <2>2. FullReplace(Len(editor), editor') \in Changes
    BY <2>1, RenderFits DEF TypesOK
  <2> QED
    BY <2>1, <2>2 DEF ChangeMsg, Message, ChangeMsgs
<1>3. m.type = "change" /\ m.own /\ m.text = editor'
  BY DEF ChangeMsg
<1> HIDE DEF m
<1>4. /\ n \in Nat /\ Index' = Index \cup {n + 1} /\ n + 1 \notin Index /\ toHost'[n + 1] = m
      /\ \A i \in Index : /\ IsReply(i)' <=> IsReply(i)
                          /\ IsOwn(i)' <=> IsOwn(i)
  BY <1>0, <1>1, <1>2, QueueAppended
<1>5. \A i \in Index : ~IsReply(i)
  <2> SUFFICES ASSUME NEW i \in Index, IsReply(i) PROVE FALSE
    OBVIOUS
  <2>1. toHost[i].life \in Session /\ edits[toHost[i].life].state = "answered"
    BY InQueue DEF MessageInv
  <2> QED
    BY <1>1, <2>1 DEF OneEdit, Live
<1>6. \A i \in Index : ~IsChange(i)
  BY <1>1 DEF MessageInv
<1>7. \A i \in Index' : ~IsReply(i)' /\ (IsOwn(i)' => i = n + 1)
  <2>1. ~IsReply(n + 1)'
    BY <1>3, <1>4 DEF IsReply
  <2> QED
    BY <1>4, <1>5, <1>6, <2>1 DEF IsOwn
<1>8. /\ \A k \in Session : ~edits'[k].fresh
      /\ edits'[l].state = "applied" /\ edits'[l].text = editor'
  BY <1>1 DEF EditorApplies, TypesOK, Edit
<1>9. toHost'[n + 1].text = editor'
  BY <1>3, <1>4
<1> QED
  BY <1>5, <1>6, <1>7, <1>8, <1>9 DEF MessageInv

\* The answer to an edit comes behind its change.
LEMMA MessagesOfReply ==
  ASSUME TypesOK, MessageInv, OneEdit, NEW l \in Session, EditorReplies(l)
  PROVE  MessageInv' /\ \A i \in Index : ~IsReply(i)
<1> DEFINE m == ReplyMsg(l, edits[l].state = "applied")
<1>0. PICK n : n = Len(toHost)
  OBVIOUS
<1>1. /\ edits[l].state \in {"applied", "sent"} /\ edits' = [edits EXCEPT ![l].state = "answered"]
      /\ toHost' = Append(toHost, m)
  BY DEF EditorReplies
<1>2. m \in Message /\ m.type = "reply" /\ m.life = l
  BY DEF ReplyMsg, Message, ReplyMsgs
<1> HIDE DEF m
<1>3. /\ n \in Nat /\ Index' = Index \cup {n + 1} /\ n + 1 \notin Index /\ toHost'[n + 1] = m
      /\ \A i \in Index : /\ i \in Nat /\ i < n + 1
                          /\ toHost'[i] = toHost[i]
                          /\ IsChange(i)' <=> IsChange(i)
                          /\ IsReply(i)' <=> IsReply(i)
                          /\ IsOwn(i)' <=> IsOwn(i)
  BY <1>0, <1>1, <1>2, QueueAppended
<1>4. IsReply(n + 1)' /\ ~IsChange(n + 1)' /\ ~IsOwn(n + 1)' /\ toHost'[n + 1].life = l
  BY <1>2, <1>3 DEF IsReply, IsChange, IsOwn
<1>5. \A i \in Index : ~IsReply(i)
  <2> SUFFICES ASSUME NEW i \in Index, IsReply(i) PROVE FALSE
    OBVIOUS
  <2>1. toHost[i].life \in Session /\ edits[toHost[i].life].state = "answered"
    BY InQueue DEF MessageInv
  <2> QED
    BY <1>1, <2>1 DEF OneEdit, Live
<1>6. /\ \A k \in Session : edits'[k].text = edits[k].text /\ edits'[k].fresh = edits[k].fresh
      /\ \A k \in Session : edits[k].state \in {"applied", "answered"}
                              => edits'[k].state \in {"applied", "answered"}
      /\ edits'[l].state = "answered"
  BY <1>1 DEF TypesOK, Edit
<1>7. \A i \in Index' : IsReply(i)' => i = n + 1
  BY <1>3, <1>5
<1>8. \A i \in Index' : IsChange(i)' => i \in Index /\ IsChange(i)
  BY <1>3, <1>4
<1>9. \A i \in Index' : IsOwn(i)' => i \in Index /\ IsOwn(i) /\ i < n + 1
  BY <1>3, <1>4
<1>10. \A i \in Index' : IsReply(i)' => edits'[toHost'[i].life].state = "answered"
  BY <1>4, <1>6, <1>7
<1>11. \A i \in Index' : IsOwn(i)' =>
         \E k \in Session : edits'[k].state \in {"applied", "answered"} /\ edits'[k].text = toHost'[i].text
  BY <1>3, <1>6, <1>9 DEF MessageInv
<1> QED
  BY <1>5, <1>6, <1>7, <1>8, <1>9, <1>10, <1>11 DEF MessageInv

LEMMA MessagesOfChange ==
  ASSUME TypesOK, MessageInv, HandleLocalDocumentChange
  PROVE  MessageInv'
<1>1. toHost # <<>> /\ toHost' = Tail(toHost) /\ edits' = edits
  BY DEF HandleLocalDocumentChange
<1>2. \A i \in Index' : /\ i \in Nat /\ i + 1 \in Index
                        /\ toHost'[i] = toHost[i + 1]
                        /\ IsChange(i)' <=> IsChange(i + 1)
                        /\ IsReply(i)' <=> IsReply(i + 1)
                        /\ IsOwn(i)' <=> IsOwn(i + 1)
  BY <1>1, QueueRemoved
<1>3. \A i, j \in Nat : (i + 1 = j + 1 => i = j) /\ (i + 1 < j + 1 => i < j)
  OBVIOUS
<1>4. \A i, j \in Index' : /\ IsReply(i)' /\ IsReply(j)' => i = j
                           /\ IsOwn(i)' /\ IsOwn(j)' => i = j
                           /\ IsOwn(i)' /\ IsReply(j)' => i < j
  BY <1>2, <1>3 DEF MessageInv
<1>5. \A i \in Index' : IsReply(i)' => edits'[toHost'[i].life].state = "answered"
  BY <1>1, <1>2 DEF MessageInv
<1>6. ASSUME NEW i \in Index', IsOwn(i)'
      PROVE  \E l \in Session : edits'[l].state \in {"applied", "answered"} /\ edits'[l].text = toHost'[i].text
  <2>1. i + 1 \in Index /\ IsOwn(i + 1) /\ toHost'[i] = toHost[i + 1]
    BY <1>2, <1>6
  <2>2. PICK l \in Session : edits[l].state \in {"applied", "answered"} /\ edits[l].text = toHost[i + 1].text
    BY <2>1 DEF MessageInv
  <2> QED
    BY <1>1, <2>1, <2>2
<1>7. \A l \in Session : edits'[l].fresh => \A i \in Index' : ~IsChange(i)'
  BY <1>1, <1>2 DEF MessageInv
<1> QED
  BY <1>4, <1>5, <1>6, <1>7 DEF MessageInv

\* A new edit is fresh only if no change is on its way.
LEMMA MessagesOfRender ==
  ASSUME TypesOK, SessionInv, MessageInv, Render
  PROVE  MessageInv'
<1>1. toHost' = toHost /\ life \in Session /\ \A l \in Session : ~Live(l)
  BY DEF Render, SessionInv, Live
<1>2. \A i \in Index : ~IsReply(i) /\ ~IsOwn(i)
  BY <1>1, InQueue DEF MessageInv, Live
<1>3. \A i \in Index' : i \in Index /\ ~IsReply(i)' /\ ~IsOwn(i)' /\ (IsChange(i)' <=> IsChange(i))
  BY <1>1, <1>2 DEF Index, IsReply, IsOwn, IsChange
<1>4. ASSUME NEW l \in Session, edits'[l].fresh, NEW i \in Index
      PROVE  ~IsChange(i)
  <2>1. CASE edits' = edits
    BY <1>4, <2>1 DEF MessageInv
  <2>2. CASE edits' # edits
    <3> DEFINE calm == \A m \in Range(toHost) : m.type # "change"
               e == [state |-> "sent", text |-> crdt, fresh |-> calm]
    <3>1. edits' = [edits EXCEPT ![life] = e]
      BY <2>2 DEF Render
    <3>a. e.fresh = calm
      OBVIOUS
    <3> HIDE DEF e
    <3>b. edits'[l] = edits[l] \/ edits'[l] = e
      BY <3>1 DEF TypesOK
    <3>2. toHost[i] \in Range(toHost)
      BY DEF Range, Index, TypesOK
    <3> QED
      BY <1>4, <3>a, <3>b, <3>2 DEF MessageInv, IsChange
  <2> QED
    BY <2>1, <2>2
<1> QED
  BY <1>3, <1>4 DEF MessageInv

LEMMA MessagesOfReturn ==
  ASSUME TypesOK, MessageInv, RenderReturns
  PROVE  /\ MessageInv'
         /\ Head(toHost).life \in Session /\ edits[Head(toHost).life].state = "answered"
         /\ IsReply(1) /\ 1 \in Index
         /\ \A i \in Index : ~IsOwn(i)
<1>1. toHost # <<>> /\ toHost' = Tail(toHost) /\ Head(toHost).type = "reply"
  BY DEF RenderReturns
<1>2. /\ 1 \in Index /\ Head(toHost) = toHost[1]
      /\ \A i \in Index' : /\ i \in Nat \ {0} /\ i + 1 \in Index /\ i + 1 # 1
                           /\ toHost'[i] = toHost[i + 1]
                           /\ IsChange(i)' <=> IsChange(i + 1)
                           /\ IsReply(i)' <=> IsReply(i + 1)
                           /\ IsOwn(i)' <=> IsOwn(i + 1)
  BY <1>1, QueueRemoved
<1>3. IsReply(1)
  BY <1>1, <1>2 DEF IsReply
<1>4. Head(toHost).life \in Session /\ edits[Head(toHost).life].state = "answered"
  BY <1>2, <1>3, InQueue DEF MessageInv
<1>5. \A i \in Index : ~IsOwn(i)
  <2>1. \A i \in Index : ~(i < 1)
    BY DEF Index
  <2> QED
    BY <1>2, <1>3, <2>1 DEF MessageInv
<1>6. \A i \in Index' : ~IsReply(i)' /\ ~IsOwn(i)'
  BY <1>2, <1>3, <1>5 DEF MessageInv
<1>7. \A l \in Session : edits'[l].fresh => edits[l].fresh
  BY <1>4 DEF RenderReturns, TypesOK, NoEdit
<1> QED
  BY <1>2, <1>3, <1>4, <1>5, <1>6, <1>7 DEF MessageInv

LEMMA MessagesOfSession ==
  ASSUME MessageInv, UNCHANGED <<toHost, edits>>
  PROVE  MessageInv'
  BY DEF MessageInv, Index, IsChange, IsReply, IsOwn

-----------------------------------------------------------------------------
(* The texts between the document and the editor.                          *)

\* The text before the changes that follow message i: the document's for i = 0.
TextAt(i)         == IF i = 0 THEN document ELSE toHost[i].text
Mark(i)           == i = 0 \/ IsChange(i)
NoneBetween(i, j) == \A k \in Index : i < k /\ k < j => ~IsChange(k)
NoneAfter(i)      == \A k \in Index : i < k => ~IsChange(k)

\* Each change on its way fits into the text of the change before it, and the last of
\* them is the text that the user sees.
ChainInv ==
  /\ \A i \in 0..Len(toHost), j \in Index :
       i < j /\ Mark(i) /\ IsChange(j) /\ NoneBetween(i, j)
         => Fits(TextAt(i), toHost[j].changes, toHost[j].text)
  /\ \A i \in 0..Len(toHost) : Mark(i) /\ NoneAfter(i) => TextAt(i) = editor

\* A change of the editor's text comes last.
LEMMA ChainOfAppended ==
  ASSUME TypesOK, ChainInv, NEW m \in Message, toHost' = Append(toHost, m), document' = document,
         m.type = "change", m.text = editor', Fits(editor, m.changes, m.text)
  PROVE  ChainInv'
<1>0. PICK n : n = Len(toHost)
  OBVIOUS
<1>1. /\ n \in Nat /\ Len(toHost') = n + 1 /\ Index' = Index \cup {n + 1} /\ n + 1 \notin Index
      /\ \A i \in Index : /\ i \in Nat /\ i < n + 1 /\ toHost'[i] = toHost[i]
                          /\ IsChange(i)' <=> IsChange(i)
      /\ toHost'[n + 1] = m
  BY <1>0, QueueAppended
<1>2. IsChange(n + 1)'
  BY <1>1 DEF IsChange
<1>3. ASSUME NEW i \in 0..n
      PROVE  /\ TextAt(i)' = TextAt(i) /\ (Mark(i)' <=> Mark(i)) /\ i < n + 1 /\ i \in Nat
  <2>1. i = 0 \/ i \in Index
    BY <1>0, <1>1 DEF Index
  <2> QED
    BY <1>1, <2>1 DEF TextAt, Mark
<1>4. ASSUME NEW i \in 0..n + 1, NEW j \in Index',
             i < j, Mark(i)', IsChange(j)', NoneBetween(i, j)'
      PROVE  Fits(TextAt(i)', toHost'[j].changes, toHost'[j].text)
  <2>1. j \in Nat /\ j <= n + 1 /\ i \in 0..n
    BY <1>1, <1>4
  <2>2. CASE j = n + 1
    <3>1. NoneAfter(i)
      BY <1>1, <1>4, <2>2 DEF NoneAfter, NoneBetween
    <3>2. TextAt(i) = editor
      BY <1>0, <1>3, <1>4, <2>1, <3>1 DEF ChainInv
    <3> QED
      BY <1>1, <1>3, <2>1, <2>2, <3>2
  <2>3. CASE j # n + 1
    <3>1. j \in Index
      BY <1>1, <2>3
    <3>2. NoneBetween(i, j)
      BY <1>1, <1>4 DEF NoneBetween
    <3>3. Mark(i) /\ IsChange(j)
      BY <1>1, <1>3, <1>4, <2>1, <3>1
    <3>4. Fits(TextAt(i), toHost[j].changes, toHost[j].text)
      BY <1>0, <1>4, <2>1, <3>1, <3>2, <3>3 DEF ChainInv
    <3> QED
      BY <1>1, <1>3, <2>1, <3>1, <3>4
  <2> QED
    BY <2>2, <2>3
<1>5. ASSUME NEW i \in 0..n + 1, Mark(i)', NoneAfter(i)'
      PROVE  TextAt(i)' = editor'
  <2>1. CASE i = n + 1
    BY <1>1, <2>1 DEF TextAt
  <2>2. CASE i # n + 1
    <3>1. i < n + 1
      BY <1>1, <2>2
    <3> QED
      BY <1>1, <1>2, <1>5, <3>1 DEF NoneAfter
  <2> QED
    BY <2>1, <2>2
<1> QED
  BY <1>1, <1>4, <1>5 DEF ChainInv

\* A reply changes nothing.
LEMMA ChainOfReply ==
  ASSUME TypesOK, ChainInv, NEW m \in Message, toHost' = Append(toHost, m), document' = document,
         m.type = "reply", editor' = editor
  PROVE  ChainInv'
<1>0. PICK n : n = Len(toHost)
  OBVIOUS
<1>1. /\ n \in Nat /\ Len(toHost') = n + 1 /\ Index' = Index \cup {n + 1} /\ n + 1 \notin Index
      /\ \A i \in Index : /\ i \in Nat /\ i < n + 1 /\ toHost'[i] = toHost[i]
                          /\ IsChange(i)' <=> IsChange(i)
      /\ toHost'[n + 1] = m
  BY <1>0, QueueAppended
<1>2. ~IsChange(n + 1)' /\ ~Mark(n + 1)'
  BY <1>1 DEF IsChange, Mark
<1>3. ASSUME NEW i \in 0..n
      PROVE  TextAt(i)' = TextAt(i) /\ (Mark(i)' <=> Mark(i))
  <2>1. i = 0 \/ i \in Index
    BY <1>0, <1>1 DEF Index
  <2> QED
    BY <1>1, <2>1 DEF TextAt, Mark
<1>4. ASSUME NEW i \in 0..n + 1, Mark(i)'
      PROVE  i \in 0..n
  <2>1. i # n + 1
    BY <1>2, <1>4
  <2> QED
    BY <1>1, <2>1
<1>5. ASSUME NEW i \in 0..n + 1, NEW j \in Index',
             i < j, Mark(i)', IsChange(j)', NoneBetween(i, j)'
      PROVE  Fits(TextAt(i)', toHost'[j].changes, toHost'[j].text)
  <2>1. j \in Index /\ i \in 0..n
    BY <1>1, <1>2, <1>4, <1>5
  <2>2. NoneBetween(i, j) /\ Mark(i) /\ IsChange(j)
    BY <1>1, <1>3, <1>5, <2>1 DEF NoneBetween
  <2> QED
    BY <1>0, <1>1, <1>3, <1>5, <2>1, <2>2 DEF ChainInv
<1>6. ASSUME NEW i \in 0..n + 1, Mark(i)', NoneAfter(i)'
      PROVE  TextAt(i)' = editor'
  <2>1. i \in 0..n
    BY <1>4, <1>6
  <2>2. NoneAfter(i) /\ Mark(i)
    BY <1>1, <1>3, <1>6, <2>1 DEF NoneAfter
  <2> QED
    BY <1>0, <1>3, <2>1, <2>2 DEF ChainInv
<1> QED
  BY <1>1, <1>5, <1>6 DEF ChainInv

\* The first message is handled, and the document has its text if it is a change.
LEMMA ChainOfRemoved ==
  ASSUME TypesOK, ChainInv, toHost # <<>>, toHost' = Tail(toHost), editor' = editor,
         IF IsChange(1) THEN document' = toHost[1].text ELSE document' = document
  PROVE  ChainInv'
<1>0. PICK n : n = Len(toHost)
  OBVIOUS
<1>1. /\ n \in Nat \ {0} /\ Len(toHost') = n - 1 /\ 1 \in Index
      /\ \A i \in Index' : /\ i \in Nat \ {0} /\ i + 1 \in Index
                           /\ toHost'[i] = toHost[i + 1] /\ (IsChange(i)' <=> IsChange(i + 1))
      /\ \A i \in Index : i = 1 \/ (i \in Nat /\ i - 1 \in Index' /\ i = (i - 1) + 1)
  BY <1>0, QueueRemoved
<1>2. \A i \in 0..n - 1 : i = 0 \/ i \in Index'
  BY <1>1 DEF Index
<1> DEFINE From(i) == IF i = 0 /\ ~IsChange(1) THEN 0 ELSE i + 1
<1>3. ASSUME NEW i \in 0..n - 1, Mark(i)'
      PROVE  From(i) \in 0..n /\ Mark(From(i)) /\ TextAt(i)' = TextAt(From(i))
  <2>1. i + 1 \in 0..n /\ i + 1 # 0 /\ 0 \in 0..n /\ 0 + 1 = 1
    BY <1>1
  <2>2. CASE i = 0
    BY <2>1, <2>2 DEF Mark, TextAt
  <2>3. CASE i # 0
    BY <1>1, <1>2, <1>3, <2>1, <2>3 DEF Mark, TextAt
  <2> QED
    BY <2>2, <2>3
<1>4. ASSUME NEW i \in 0..n - 1, NEW k \in Index, From(i) < k, IsChange(k)
      PROVE  k \in Nat /\ k - 1 \in Index' /\ IsChange(k - 1)' /\ i < k - 1
  <2>1. k # 1
    <3>1. CASE i = 0 /\ ~IsChange(1)
      BY <1>4, <3>1
    <3>2. CASE ~(i = 0 /\ ~IsChange(1))
      <4>1. i + 1 < k /\ i + 1 > 0
        BY <1>4, <3>2
      <4> QED
        BY <4>1
    <3> QED
      BY <3>1, <3>2
  <2>2. k \in Nat /\ k - 1 \in Index' /\ k = (k - 1) + 1
    BY <1>1, <2>1
  <2>3. IsChange(k - 1)' /\ k - 1 \in Nat \ {0}
    BY <1>1, <1>4, <2>2
  <2>4. i < k - 1
    <3>1. CASE i = 0 /\ ~IsChange(1)
      BY <2>2, <2>3, <3>1
    <3>2. CASE ~(i = 0 /\ ~IsChange(1))
      <4>1. i + 1 < k
        BY <1>4, <3>2
      <4> QED
        BY <1>1, <2>2, <4>1
    <3> QED
      BY <3>1, <3>2
  <2> QED
    BY <2>2, <2>3, <2>4
<1> HIDE DEF From
<1>5. ASSUME NEW i \in 0..n - 1, NEW j \in Index',
             i < j, Mark(i)', IsChange(j)', NoneBetween(i, j)'
      PROVE  Fits(TextAt(i)', toHost'[j].changes, toHost'[j].text)
  <2>1. j + 1 \in Index /\ IsChange(j + 1) /\ toHost'[j] = toHost[j + 1] /\ j \in Nat
    BY <1>1, <1>5
  <2>2. From(i) < j + 1
    BY <1>5, <2>1 DEF From
  <2>3. NoneBetween(From(i), j + 1)
    <3> SUFFICES ASSUME NEW k \in Index, From(i) < k, k < j + 1, IsChange(k) PROVE FALSE
      BY DEF NoneBetween
    <3>1. k \in Nat /\ k - 1 \in Index' /\ IsChange(k - 1)' /\ i < k - 1
      BY <1>4
    <3>2. k - 1 < j
      BY <2>1, <3>1
    <3> QED
      BY <1>5, <3>1, <3>2 DEF NoneBetween
  <2> QED
    BY <1>0, <1>3, <1>5, <2>1, <2>2, <2>3 DEF ChainInv
<1>6. ASSUME NEW i \in 0..n - 1, Mark(i)', NoneAfter(i)'
      PROVE  TextAt(i)' = editor'
  <2>1. NoneAfter(From(i))
    BY <1>4, <1>6 DEF NoneAfter
  <2> QED
    BY <1>0, <1>3, <1>6, <2>1 DEF ChainInv
<1> QED
  BY <1>1, <1>5, <1>6 DEF ChainInv

LEMMA ChainOfOthers ==
  ASSUME ChainInv, UNCHANGED <<toHost, document, editor>>
  PROVE  ChainInv'
  BY DEF ChainInv, TextAt, Mark, NoneBetween, NoneAfter, Index, IsChange

\* The text of a change that is read becomes the text of the document.
LEMMA ChainOfChange ==
  ASSUME TypesOK, ChainInv, HandleLocalDocumentChange
  PROVE  ChainInv'
<1>1. /\ toHost # <<>> /\ toHost' = Tail(toHost) /\ editor' = editor
      /\ Head(toHost).type = "change" /\ document' = Head(toHost).text
  BY DEF HandleLocalDocumentChange, editorVars
<1>2. Head(toHost) = toHost[1]
  BY <1>1, QueueRemoved
<1> QED
  BY <1>1, <1>2, ChainOfRemoved DEF IsChange

LEMMA ChainOfReturn ==
  ASSUME TypesOK, ChainInv, RenderReturns
  PROVE  ChainInv'
<1>1. /\ toHost # <<>> /\ toHost' = Tail(toHost) /\ editor' = editor
      /\ Head(toHost).type = "reply" /\ document' = document
  BY DEF RenderReturns, editorVars
<1>2. Head(toHost) = toHost[1]
  BY <1>1, QueueRemoved
<1> QED
  BY <1>1, <1>2, ChainOfRemoved DEF IsChange

\* A change of the editor fits into the text it had.
LEMMA ChainOfEditor ==
  ASSUME TypesOK, ChainInv, Type \/ \E l \in Session : EditorApplies(l) \/ EditorReplies(l)
  PROVE  ChainInv'
<1>1. ASSUME Type
      PROVE  ChainInv'
  <2>1. PICK cs \in UserChanges(Len(editor), typed + 1) :
          editor' = Edited(editor, cs) /\ toHost' = Append(toHost, ChangeMsg(cs, editor', FALSE))
    BY <1>1 DEF Type
  <2> DEFINE m == ChangeMsg(cs, editor', FALSE)
  <2>2. cs \in Changes /\ editor' \in Text /\ Fits(editor, cs, editor')
    BY <2>1, TypedFits DEF TypesOK
  <2>3. m \in Message /\ m.type = "change" /\ m.text = editor' /\ m.changes = cs
    BY <2>2 DEF ChangeMsg, Message, ChangeMsgs
  <2>4. document' = document
    BY <1>1 DEF Type, hostVars
  <2> HIDE DEF m
  <2>5. toHost' = Append(toHost, m) /\ Fits(editor, m.changes, m.text)
    BY <2>1, <2>2, <2>3 DEF m
  <2> QED
    BY <2>3, <2>4, <2>5, ChainOfAppended
<1>2. ASSUME NEW l \in Session, EditorApplies(l)
      PROVE  ChainInv'
  <2> DEFINE cs == FullReplace(Len(editor), editor')
             m == ChangeMsg(cs, editor', TRUE)
  <2>1. editor' \in Text
    BY <1>2 DEF EditorApplies, TypesOK, Edit
  <2>2. cs \in Changes /\ Fits(editor, cs, editor')
    BY <2>1, RenderFits DEF TypesOK
  <2>3. document' = document /\ toHost' = Append(toHost, m)
    BY <1>2 DEF EditorApplies, hostVars
  <2> HIDE DEF cs
  <2>4. m \in Message /\ m.type = "change" /\ m.text = editor' /\ m.changes = cs
    BY <2>1, <2>2 DEF ChangeMsg, Message, ChangeMsgs
  <2> HIDE DEF m
  <2> QED
    BY <2>2, <2>3, <2>4, ChainOfAppended
<1>3. ASSUME NEW l \in Session, EditorReplies(l)
      PROVE  ChainInv'
  <2> DEFINE m == ReplyMsg(l, edits[l].state = "applied")
  <2>1. m \in Message /\ m.type = "reply"
    BY DEF ReplyMsg, Message, ReplyMsgs
  <2>2. document' = document /\ editor' = editor /\ toHost' = Append(toHost, m)
    BY <1>3 DEF EditorReplies, hostVars, editorVars
  <2> HIDE DEF m
  <2> QED
    BY <2>1, <2>2, ChainOfReply
<1> QED
  BY <1>1, <1>2, <1>3

-----------------------------------------------------------------------------
(* The inductive invariant, without and with what was rendered.            *)

EditInv == TypesOK /\ SessionInv /\ OneEdit /\ MessageInv /\ ChainInv

\* It holds at first ...
LEMMA InitEdit == Init => EditInv
<1> SUFFICES ASSUME Init PROVE EditInv
  OBVIOUS
<1>1. \A l \in Session : edits[l] = NoEdit
  BY DEF Init, Session
<1>2. \A l \in Session : ~Live(l) /\ ~edits[l].fresh
  BY <1>1 DEF Live, NoEdit
<1>3. Index = {} /\ Len(toHost) = 0
  BY DEF Init, Index
<1>4. SessionInv /\ OneEdit
  BY <1>2 DEF Init, SessionInv, OneEdit
<1>5. MessageInv
  BY <1>3 DEF MessageInv
<1>6. ChainInv
  BY <1>3 DEF ChainInv, TextAt, Init
<1> QED
  BY <1>4, <1>5, <1>6, InitTypes DEF EditInv

\* ... and every step keeps it.
LEMMA NextEdit ==
  ASSUME ~FastJoin, EditInv, [Next]_vars
  PROVE  EditInv'
<1> USE DEF EditInv
<1>1. CASE UNCHANGED vars
  <2>1. UNCHANGED <<toHost, edits, document, editor, life, inSession, renders, syncReady, joined,
                    crdt, seedSent, depth, shadow, seedText, typed, remote, stale>>
    BY <1>1 DEF vars, editorVars, sessionVars, hostVars
  <2>2. SessionInv' /\ OneEdit'
    BY <2>1 DEF SessionInv, OneEdit, Live
  <2>3. TypesOK'
    BY <2>1 DEF TypesOK
  <2> QED
    BY <2>1, <2>2, <2>3, MessagesOfSession, ChainOfOthers
<1>2. CASE Type \/ \E l \in Session : EditorApplies(l) \/ EditorReplies(l)
  <2>1. TypesOK'
    BY <1>2, TypeTypes, EditorAppliesTypes, EditorRepliesTypes
  <2>2. SessionInv' /\ OneEdit' /\ ChainInv'
    BY <1>2, SessionOfEditor, ChainOfEditor
  <2>3. MessageInv'
    BY <1>2, MessagesOfType, MessagesOfEdit, MessagesOfReply
  <2> QED
    BY <2>1, <2>2, <2>3
<1>3. CASE HandleLocalDocumentChange
  BY <1>3, HandleTypes, SessionOfChange, MessagesOfChange, ChainOfChange
<1>4. CASE Render
  <2>1. UNCHANGED <<toHost, document, editor>>
    BY <1>4 DEF Render, editorVars
  <2> QED
    BY <1>4, <2>1, RenderTypes, SessionOfRender, MessagesOfRender, ChainOfOthers
<1>5. CASE RenderReturns
  <2> DEFINE l == Head(toHost).life
  <2>1. MessageInv' /\ l \in Session /\ edits[l].state = "answered"
    BY <1>5, MessagesOfReturn
  <2>2. Live(l)
    BY <2>1 DEF Live
  <2>3. SessionInv' /\ OneEdit' /\ (inSession /\ l = life => renders # <<>>)
    <3> HIDE DEF l
    <3>1. l = Head(toHost).life
      BY DEF l
    <3> QED
      BY <1>5, <2>1, <2>2, <3>1, SessionOfReturn
  <2> QED
    BY <1>5, <2>1, <2>3, RenderReturnsTypes, ChainOfReturn
<1>6. CASE Connect \/ LeaveSession
  <2>1. UNCHANGED <<toHost, edits, document, editor>>
    BY <1>6 DEF Connect, LeaveSession, ResetSession, editorVars
  <2> QED
    BY <1>6, <2>1, SessionTypes, SessionOfSession, MessagesOfSession, ChainOfOthers
<1>7. CASE JoinedEmpty \/ JoinedText \/ RemoteOperation
  <2>1. UNCHANGED <<toHost, edits, document, editor>>
    BY <1>7 DEF JoinedEmpty, JoinedText, RemoteOperation, editorVars
  <2>2. TypesOK'
    BY <1>7, JoinedEmptyTypes, JoinedTextTypes, RemoteOperationTypes
  <2> QED
    BY <1>7, <2>1, <2>2, SessionOfJoin, MessagesOfSession, ChainOfOthers
<1> QED
  BY <1>1, <1>2, <1>3, <1>4, <1>5, <1>6, <1>7 DEF Next, EditorStep, HostStep, Session

\* The guard keeps own renders out, and a change in calm is taken.
LEMMA ChangeIsTaken ==
  ASSUME EditInv, HandleLocalDocumentChange
  PROVE  NoEcho /\ EditInCalmIsTaken
<1> USE DEF EditInv
<1> DEFINE m == Head(toHost)
           next == ApplyTextChanges(shadow, m.changes)
<1>1. /\ toHost # <<>> /\ m.type = "change"
      /\ IgnoresChange \/ ~syncReady => crdt' = crdt
  BY DEF HandleLocalDocumentChange
<1>2. 1 \in Index /\ m = toHost[1]
  BY <1>1, Removed DEF TypesOK, Index
<1>3. IsChange(1)
  BY <1>1, <1>2 DEF IsChange
<1>4. syncReady => inSession /\ joined # "no" /\ life \in Session
  BY DEF SessionInv
<1>5. NoEcho
  <2> SUFFICES ASSUME m.own, ~(IgnoresChange \/ ~syncReady) PROVE FALSE
    BY <1>1 DEF NoEcho
  <2>1. PICK l \in Session : edits[l].state \in {"applied", "answered"}
    BY <1>2, <1>3 DEF MessageInv, IsOwn
  <2>2. Live(l)
    BY <2>1 DEF Live
  <2>3. l = life
    BY <1>4, <2>2 DEF SessionInv
  <2> QED
    BY <1>4, <2>2, <2>3 DEF SessionInv, IgnoresChange
<1>6. EditInCalmIsTaken
  <2> SUFFICES ASSUME syncReady, depth = 0, shadow = crdt, shadow = document
               PROVE  shadow' = m.text
    BY DEF EditInCalmIsTaken
  <2>1. Fits(document, m.changes, m.text)
    <3>1. 0 \in 0..Len(toHost) /\ 0 < 1 /\ NoneBetween(0, 1) /\ Mark(0) /\ TextAt(0) = document
      BY InQueue DEF NoneBetween, Mark, TextAt, Index
    <3> QED
      BY <1>2, <1>3, <3>1 DEF ChainInv
  <2>2. ~OutOfRange(shadow, m.changes) /\ next = m.text
    BY <2>1 DEF Fits
  <2>3. ~(IgnoresChange \/ ~syncReady)
    BY <1>4 DEF IgnoresChange
  <2> QED
    BY <2>2, <2>3 DEF HandleLocalDocumentChange
<1> QED
  BY <1>5, <1>6

\* No own render is taken for an edit of the user, and every edit made in calm is taken,
\* in every session whose edits were answered before it was joined.
THEOREM OnlyEdits ==
  ASSUME ~FastJoin
  PROVE  Spec => OnlyEditsAreTaken
<1>1. Init => EditInv
  BY InitEdit
<1>2. EditInv /\ [Next]_vars => EditInv'
  BY NextEdit
<1>3. EditInv /\ [Next]_vars => [HandleLocalDocumentChange => NoEcho /\ EditInCalmIsTaken]_vars
  BY ChangeIsTaken
<1> QED
  BY <1>1, <1>2, <1>3, PTL DEF Spec, OnlyEditsAreTaken

-----------------------------------------------------------------------------
(* What was rendered.                                                      *)

\* The editor took the edit of the session that is on.
Took == \/ edits[life].state = "applied"
        \/ edits[life].state = "answered" /\ \E j \in Index : IsReply(j) /\ toHost[j].applied

\* Unless a change was ignored or an edit refused: with no render to come the document
\* is the CRDT's text and the shadow too; the last render waits for the text that the
\* CRDT still has; the document has the text of an edit that was taken, or will have it
\* with the next change; and before the session has joined all is as it found it.
SyncInv ==
  /\ syncReady /\ ~stale /\ renders = <<>> => shadow = crdt /\ document = crdt
  /\ inSession /\ Live(life) /\ Len(renders) = 1 => crdt = edits[life].text
  /\ inSession /\ ~stale /\ Live(life) /\ Took =>
       \/ document = edits[life].text /\ \A i \in Index : ~IsOwn(i)
       \/ \E i \in Index : IsOwn(i) /\ \A k \in Index : k < i => ~IsChange(k)
  /\ inSession /\ joined = "no" /\ ~stale => shadow = seedText /\ document = seedText

\* A change by the user comes behind the one of an own edit.
LEMMA SyncOfType ==
  ASSUME EditInv, SyncInv, Type
  PROVE  SyncInv'
<1> USE DEF EditInv
<1>1. PICK m \in Message : toHost' = Append(toHost, m) /\ m.type = "change" /\ ~m.own
  <2>1. PICK cs \in UserChanges(Len(editor), typed + 1) :
          editor' = Edited(editor, cs) /\ toHost' = Append(toHost, ChangeMsg(cs, editor', FALSE))
    BY DEF Type
  <2>2. cs \in Changes /\ editor' \in Text
    BY <2>1, TypedFits DEF TypesOK
  <2> DEFINE m == ChangeMsg(cs, editor', FALSE)
  <2>3. m \in Message /\ m.type = "change" /\ ~m.own
    BY <2>2 DEF ChangeMsg, Message, ChangeMsgs
  <2> QED
    BY <2>1, <2>3
<1>2. UNCHANGED <<sessionVars, hostVars, stale>>
  BY DEF Type
<1>3. \A k \in Session : edits'[k].state = edits[k].state /\ edits'[k].text = edits[k].text
  BY DEF Type, TypesOK, Edit
<1>4. PICK n : n = Len(toHost)
  OBVIOUS
<1>5. /\ n \in Nat /\ Index' = Index \cup {n + 1} /\ n + 1 \notin Index /\ toHost'[n + 1] = m
      /\ \A i \in Index : /\ i \in Nat /\ i < n + 1 /\ toHost'[i] = toHost[i]
                          /\ IsChange(i)' <=> IsChange(i)
                          /\ IsReply(i)' <=> IsReply(i)
                          /\ IsOwn(i)' <=> IsOwn(i)
  BY <1>1, <1>4, QueueAppended
<1>6. ~IsReply(n + 1)' /\ ~IsOwn(n + 1)'
  BY <1>1, <1>5 DEF IsReply, IsOwn
<1>7. ASSUME inSession
      PROVE  /\ Live(life)' <=> Live(life)
             /\ edits'[life'].text = edits[life].text /\ edits'[life'].state = edits[life].state
             /\ Took' <=> Took
  <2>1. life \in Session /\ life' = life
    BY <1>2, <1>7 DEF SessionInv, sessionVars
  <2>2. edits'[life].text = edits[life].text /\ edits'[life].state = edits[life].state
    BY <1>3, <2>1
  <2>3. (\E j \in Index' : IsReply(j)' /\ toHost'[j].applied)
          <=> (\E j \in Index : IsReply(j) /\ toHost[j].applied)
    BY <1>5, <1>6
  <2> QED
    BY <2>1, <2>2, <2>3 DEF Live, Took
<1>8. ASSUME NEW i \in Index, IsOwn(i), \A k \in Index : k < i => ~IsChange(k)
      PROVE  IsOwn(i)' /\ i \in Index' /\ \A k \in Index' : k < i => ~IsChange(k)'
  <2>1. ~(n + 1 < i)
    BY <1>5
  <2> QED
    BY <1>5, <1>8, <2>1
<1>9. (\A i \in Index : ~IsOwn(i)) => \A i \in Index' : ~IsOwn(i)'
  BY <1>5, <1>6
<1> HIDE DEF Live, Took
<1>10. UNCHANGED <<syncReady, renders, shadow, crdt, document, seedText, inSession, joined, stale>>
  BY <1>2 DEF sessionVars, hostVars
<1>11. inSession /\ ~stale /\ Live(life)' /\ Took' =>
         \/ document = edits[life].text /\ \A i \in Index' : ~IsOwn(i)'
         \/ \E i \in Index' : IsOwn(i)' /\ \A k \in Index' : k < i => ~IsChange(k)'
  BY <1>7, <1>8, <1>9 DEF SyncInv
<1> QED
  BY <1>7, <1>10, <1>11 DEF SyncInv

\* An edit that the editor takes has its change behind no other.
LEMMA SyncOfEdit ==
  ASSUME EditInv, SyncInv, NEW l \in Session, EditorApplies(l)
  PROVE  SyncInv'
<1> USE DEF EditInv
<1> DEFINE m == ChangeMsg(FullReplace(Len(editor), editor'), editor', TRUE)
<1>1. m \in Message /\ m.type = "change" /\ m.own /\ toHost' = Append(toHost, m)
  <2>1. editor' \in Text
    BY DEF EditorApplies, TypesOK, Edit
  <2>2. FullReplace(Len(editor), editor') \in Changes
    BY <2>1, RenderFits DEF TypesOK
  <2> QED
    BY <2>1, <2>2 DEF ChangeMsg, Message, ChangeMsgs, EditorApplies
<1> HIDE DEF m
<1>2. PICK n : n = Len(toHost)
  OBVIOUS
<1>3. /\ n \in Nat /\ Index' = Index \cup {n + 1} /\ n + 1 \notin Index /\ toHost'[n + 1] = m
      /\ \A i \in Index : i < n + 1 /\ (IsChange(i)' <=> IsChange(i))
  BY <1>1, <1>2, QueueAppended
<1>4. IsOwn(n + 1)'
  BY <1>1, <1>3 DEF IsOwn, IsChange
<1>5. \A k \in Index' : k < n + 1 => ~IsChange(k)'
  BY <1>3, MessagesOfEdit
<1>6. Live(l) /\ UNCHANGED <<sessionVars, hostVars>>
  BY DEF EditorApplies, Live
<1>7. stale' = IF l = life /\ inSession THEN FALSE ELSE stale
  BY DEF EditorApplies
<1>8. inSession /\ l = life => renders # <<>> /\ joined # "no"
  BY <1>6 DEF SessionInv
<1>9. inSession => /\ Live(life)' <=> Live(life)
                   /\ edits'[life'].text = edits[life].text
  BY <1>6 DEF SessionInv, EditorApplies, TypesOK, Edit, Live, sessionVars
<1> HIDE DEF Live
<1>10. UNCHANGED <<syncReady, renders, shadow, crdt, document, seedText, inSession, joined>>
  BY <1>6 DEF sessionVars, hostVars
<1>11. (n + 1) \in Index'
  BY <1>3
<1>12. \E i \in Index' : IsOwn(i)' /\ \A k \in Index' : k < i => ~IsChange(k)'
  BY <1>4, <1>5, <1>11
<1>13. /\ syncReady /\ ~stale' /\ renders = <<>> => shadow = crdt /\ document = crdt
       /\ inSession /\ joined = "no" /\ ~stale' => shadow = seedText /\ document = seedText
  <2>1. CASE l = life /\ inSession
    BY <1>8, <2>1
  <2>2. CASE ~(l = life /\ inSession)
    BY <1>7, <2>2 DEF SyncInv
  <2> QED
    BY <2>1, <2>2
<1>14. inSession /\ Live(life)' /\ Len(renders) = 1 => crdt = edits'[life'].text
  BY <1>9 DEF SyncInv
<1> QED
  BY <1>10, <1>12, <1>13, <1>14 DEF SyncInv

\* An answer says whether the edit was taken.
LEMMA SyncOfReply ==
  ASSUME EditInv, SyncInv, NEW l \in Session, EditorReplies(l)
  PROVE  SyncInv'
<1> USE DEF EditInv
<1> DEFINE m == ReplyMsg(l, edits[l].state = "applied")
<1>1. /\ m \in Message /\ m.type = "reply" /\ (m.applied <=> edits[l].state = "applied")
      /\ toHost' = Append(toHost, m)
  BY DEF ReplyMsg, Message, ReplyMsgs, EditorReplies
<1> HIDE DEF m
<1>2. PICK n : n = Len(toHost)
  OBVIOUS
<1>3. /\ n \in Nat /\ Index' = Index \cup {n + 1} /\ n + 1 \notin Index /\ toHost'[n + 1] = m
      /\ \A i \in Index : /\ i \in Nat /\ i < n + 1
                          /\ IsChange(i)' <=> IsChange(i)
                          /\ IsReply(i)' <=> IsReply(i)
                          /\ IsOwn(i)' <=> IsOwn(i)
  BY <1>1, <1>2, QueueAppended
<1>4. ~IsOwn(n + 1)' /\ ~IsChange(n + 1)'
  BY <1>1, <1>3 DEF IsOwn, IsChange
<1>5. \A i \in Index : ~IsReply(i)
  BY MessagesOfReply
<1>6. \A i \in Index' : IsReply(i)' /\ toHost'[i].applied => edits[l].state = "applied"
  <2> SUFFICES ASSUME NEW i \in Index', IsReply(i)', toHost'[i].applied PROVE edits[l].state = "applied"
    OBVIOUS
  <2>1. i = n + 1
    BY <1>3, <1>5
  <2> QED
    BY <1>1, <1>3, <2>1
<1>7. Live(l) /\ UNCHANGED <<sessionVars, hostVars, stale>>
  BY DEF EditorReplies, Live
<1>8. ASSUME inSession
      PROVE  /\ Live(life)' <=> Live(life)
             /\ edits'[life'].text = edits[life].text
             /\ Live(life) /\ Took' => Took
  <2>1. life \in Session /\ life' = life /\ (Live(life) => life = l)
    BY <1>7, <1>8 DEF SessionInv, OneEdit, sessionVars
  <2>2. edits'[life].text = edits[life].text /\ (Live(life)' <=> Live(life))
    BY <1>7, <2>1 DEF EditorReplies, TypesOK, Edit, Live
  <2>3. Live(life) /\ Took' => edits[l].state = "applied"
    <3>1. edits'[l].state = "answered"
      BY DEF EditorReplies, TypesOK, Edit
    <3> QED
      BY <1>6, <2>1, <3>1 DEF Took
  <2> QED
    BY <2>1, <2>2, <2>3 DEF Took
<1>9. ASSUME NEW i \in Index, IsOwn(i), \A k \in Index : k < i => ~IsChange(k)
      PROVE  IsOwn(i)' /\ i \in Index' /\ \A k \in Index' : k < i => ~IsChange(k)'
  BY <1>3, <1>4, <1>9
<1>10. (\A i \in Index : ~IsOwn(i)) => \A i \in Index' : ~IsOwn(i)'
  BY <1>3, <1>4
<1> HIDE DEF Live, Took
<1>11. UNCHANGED <<syncReady, renders, shadow, crdt, document, seedText, inSession, joined, stale>>
  BY <1>7 DEF sessionVars, hostVars
<1>12. inSession /\ ~stale /\ Live(life)' /\ Took' =>
         \/ document = edits[life].text /\ \A i \in Index' : ~IsOwn(i)'
         \/ \E i \in Index' : IsOwn(i)' /\ \A k \in Index' : k < i => ~IsChange(k)'
  BY <1>8, <1>9, <1>10 DEF SyncInv
<1> QED
  BY <1>8, <1>11, <1>12 DEF SyncInv

\* A change that is taken moves CRDT and shadow alike, or asks for a render.
LEMMA SyncOfChange ==
  ASSUME EditInv, SyncInv, HandleLocalDocumentChange
  PROVE  SyncInv'
<1> USE DEF EditInv
<1> DEFINE m == Head(toHost)
<1>1. /\ toHost # <<>> /\ toHost' = Tail(toHost) /\ m.type = "change" /\ document' = m.text
      /\ UNCHANGED <<sessionVars, syncReady, edits>>
  BY DEF HandleLocalDocumentChange
<1>2. /\ 1 \in Index /\ m = toHost[1]
      /\ \A i \in Index' : /\ i \in Nat \ {0} /\ i + 1 \in Index /\ i + 1 # 1
                           /\ toHost'[i] = toHost[i + 1]
                           /\ IsChange(i)' <=> IsChange(i + 1)
                           /\ IsReply(i)' <=> IsReply(i + 1)
                           /\ IsOwn(i)' <=> IsOwn(i + 1)
  BY <1>1, QueueRemoved
<1>3. IsChange(1) /\ (m.own <=> IsOwn(1))
  BY <1>1, <1>2 DEF IsChange, IsOwn
<1>4. UNCHANGED <<inSession, life, joined, seedText>>
  BY <1>1 DEF sessionVars
<1>5. syncReady => inSession /\ joined # "no"
  BY DEF SessionInv
\* A change that is ignored is an own one, or makes stale.
<1>6. ASSUME IgnoresChange \/ ~syncReady, ~stale', inSession
      PROVE  /\ UNCHANGED <<crdt, shadow, renders>> /\ ~stale
             /\ m.own /\ Live(life) /\ life \in Session
  <2>1. /\ stale' = (stale \/ (inSession /\ (~m.own \/ depth = 0)))
        /\ UNCHANGED <<crdt, shadow, renders>>
    BY <1>6 DEF HandleLocalDocumentChange
  <2> QED
    BY <1>6, <2>1 DEF SessionInv
\* One that is not is met by no edit of this session.
<1>7. ASSUME ~(IgnoresChange \/ ~syncReady)
      PROVE  ~Live(life)
  BY <1>5, <1>7 DEF IgnoresChange, SessionInv
<1>8. Live(life)' <=> Live(life)
  BY <1>1, <1>4 DEF Live
<1>9. Took' => Took
  <2>1. (\E j \in Index' : IsReply(j)' /\ toHost'[j].applied)
          => (\E j \in Index : IsReply(j) /\ toHost[j].applied)
    BY <1>2
  <2> QED
    BY <1>1, <1>4, <2>1 DEF Took
<1> HIDE DEF Live, Took
<1>10. ASSUME syncReady', ~stale', renders' = <<>>
       PROVE  shadow' = crdt' /\ document' = crdt'
  <2>1. syncReady /\ inSession
    BY <1>1, <1>5, <1>10
  <2>2. CASE IgnoresChange
    <3>1. renders = <<>> /\ Live(life)
      BY <1>6, <1>10, <2>1, <2>2
    <3> QED
      BY <2>1, <3>1 DEF SessionInv
  <2>3. CASE ~IgnoresChange
    <3> DEFINE next == ApplyTextChanges(shadow, m.changes)
    <3>1. Append(renders, FALSE) # <<>>
      BY RenderAdded
    <3>2. shadow' = next /\ next = m.text /\ renders' = RendersAfterEdit(crdt', next)
      BY <1>10, <2>1, <2>3, <3>1 DEF HandleLocalDocumentChange
    <3> HIDE DEF next, m
    <3>3. crdt' = next
      BY <1>10, <3>1, <3>2 DEF RendersAfterEdit
    <3> QED
      BY <1>1, <3>2, <3>3
  <2> QED
    BY <2>2, <2>3
<1>11. ASSUME inSession', Live(life)', Len(renders') = 1
       PROVE  crdt' = edits'[life'].text
  <2>1. inSession /\ Live(life) /\ (IgnoresChange \/ ~syncReady)
    BY <1>4, <1>7, <1>8, <1>11
  <2>2. UNCHANGED <<crdt, renders>>
    BY <2>1 DEF HandleLocalDocumentChange
  <2> QED
    BY <1>1, <1>4, <1>11, <2>1, <2>2 DEF SyncInv
<1>12. ASSUME inSession', ~stale', Live(life)', Took'
       PROVE  document' = edits'[life'].text /\ \A i \in Index' : ~IsOwn(i)'
  <2>1. inSession /\ Live(life) /\ (IgnoresChange \/ ~syncReady)
    BY <1>4, <1>7, <1>8, <1>12
  <2>2. m.own /\ IsOwn(1) /\ life \in Session
    BY <1>3, <1>6, <1>12, <2>1
  <2>3. PICK l \in Session : edits[l].state \in {"applied", "answered"} /\ edits[l].text = m.text
    BY <1>2, <2>2 DEF MessageInv
  <2>4. l = life
    BY <2>1, <2>2, <2>3 DEF OneEdit, Live
  <2>5. \A i \in Index' : ~IsOwn(i)'
    BY <1>2, <2>2 DEF MessageInv
  <2> QED
    BY <1>1, <1>4, <2>3, <2>4, <2>5
<1>13. ASSUME inSession', joined' = "no", ~stale'
       PROVE  FALSE
  <2>1. inSession /\ joined = "no" /\ ~syncReady
    BY <1>4, <1>13 DEF SessionInv
  <2>2. Live(life)
    BY <1>6, <1>13, <2>1
  <2> QED
    BY <2>1, <2>2 DEF SessionInv
<1> QED
  BY <1>10, <1>11, <1>12, <1>13 DEF SyncInv

\* A render that has nothing to do makes the shadow the text of both.
LEMMA SyncOfRender ==
  ASSUME EditInv, SyncInv, Render
  PROVE  SyncInv'
<1> USE DEF EditInv
<1>1. /\ inSession /\ life \in Session /\ joined # "no"
      /\ UNCHANGED <<sessionVars, document, crdt, toHost, stale>> /\ ~Live(life) /\ renders # <<>>
  BY DEF Render, SessionInv, Live
<1>2. UNCHANGED <<inSession, life, joined, seedText>>
  BY <1>1 DEF sessionVars
<1>3. CASE document = crdt
  <2>1. shadow' = crdt /\ UNCHANGED edits
    BY <1>3 DEF Render
  <2>2. ~Live(life)'
    BY <1>1, <1>2, <2>1 DEF Live
  <2> HIDE DEF Live
  <2> QED
    BY <1>1, <1>2, <1>3, <2>1, <2>2 DEF SyncInv
<1>4. CASE document # crdt
  <2>1. UNCHANGED <<renders, syncReady, shadow>> /\ edits'[life].state = "sent" /\ edits'[life].text = crdt
    BY <1>1, <1>4 DEF Render, TypesOK
  <2>2. ~Took' /\ edits'[life'].text = crdt'
    BY <1>1, <1>2, <2>1 DEF Took
  <2> HIDE DEF Took, Live
  <2> QED
    BY <1>1, <1>2, <2>1, <2>2 DEF SyncInv
<1> QED
  BY <1>3, <1>4

\* When the last render ends, the document has the text that was rendered.
LEMMA SyncOfReturn ==
  ASSUME EditInv, SyncInv, RenderReturns
  PROVE  SyncInv'
<1> USE DEF EditInv
<1> DEFINE m == Head(toHost)
<1>1. /\ m.life \in Session /\ edits[m.life].state = "answered" /\ IsReply(1) /\ 1 \in Index
      /\ \A i \in Index : ~IsOwn(i)
  BY MessagesOfReturn
<1>2. m = toHost[1]
  BY QueueRemoved DEF RenderReturns
<1>3. Live(m.life)
  BY <1>1 DEF Live
<1>4. \A k \in Session : ~Live(k)'
  BY <1>1, <1>3, SessionOfReturn
<1>5. /\ UNCHANGED <<sessionVars, document, crdt>>
      /\ shadow' = IF m.applied /\ inSession /\ m.life = life THEN edits[m.life].text ELSE shadow
      /\ stale' = (stale \/ (inSession /\ m.life = life /\ ~m.applied))
      /\ IF inSession /\ m.life = life THEN RenderEnds ELSE UNCHANGED <<renders, syncReady>>
  BY DEF RenderReturns
<1>6. UNCHANGED <<inSession, life, joined, seedText>>
  BY <1>5 DEF sessionVars
<1>7. inSession => life \in Session /\ ~Live(life)'
  BY <1>4, <1>6 DEF SessionInv
<1> HIDE DEF m
<1>8. CASE inSession /\ m.life = life
  <2>1. joined # "no" /\ renders # <<>>
    BY <1>3, <1>8 DEF SessionInv
  <2>2. ASSUME ~stale', renders' = <<>>
        PROVE  shadow' = crdt /\ document = crdt
    <3>1. ~stale /\ m.applied /\ shadow' = edits[life].text
      BY <1>5, <1>8, <2>2
    <3>2. Len(renders) = 1
      <4>1. Tail(renders) = <<>> /\ Len(renders) \in Nat /\ Len(Tail(renders)) = Len(renders) - 1
        BY <1>5, <1>8, <2>1, <2>2, RenderAdded DEF RenderEnds
      <4>2. Len(Tail(renders)) = 0
        <5> DEFINE t == Tail(renders)
        <5>1. t = <<>>
          BY <4>1
        <5> HIDE DEF t
        <5>2. Len(t) = 0
          BY <5>1
        <5> QED
          BY <5>2 DEF t
      <4> QED
        BY <4>1, <4>2
    <3>3. crdt = edits[life].text
      BY <1>3, <1>8, <3>2 DEF SyncInv
    <3>4. Took
      BY <1>1, <1>2, <1>8, <3>1 DEF Took
    <3>5. document = edits[life].text
      BY <1>1, <1>3, <1>8, <3>1, <3>4 DEF SyncInv
    <3> QED
      BY <3>1, <3>3, <3>5
  <2> HIDE DEF Live
  <2> QED
    BY <1>5, <1>6, <1>7, <1>8, <2>1, <2>2 DEF SyncInv
<1>9. CASE ~(inSession /\ m.life = life)
  <2>1. ~syncReady
    BY <1>1, <1>3, <1>9 DEF SessionInv
  <2> HIDE DEF Live
  <2> QED
    BY <1>5, <1>6, <1>7, <1>9, <2>1 DEF SyncInv
<1> QED
  BY <1>8, <1>9

\* A session begins with the text of the document, and no CRDT.
LEMMA SyncOfSession ==
  ASSUME EditInv, SyncInv, Connect \/ LeaveSession
  PROVE  SyncInv'
<1> USE DEF EditInv
<1>1. syncReady' = FALSE /\ UNCHANGED edits /\ joined' = "no" /\ UNCHANGED document
  BY DEF Connect, LeaveSession, ResetSession
<1>2. inSession' => ~Live(life)'
  <2>1. SessionInv'
    BY SessionOfSession
  <2> QED
    BY <1>1, <2>1 DEF SessionInv
<1>3. inSession' => shadow' = seedText' /\ document' = seedText'
  BY DEF Connect, LeaveSession, ResetSession
<1> HIDE DEF Live
<1> QED
  BY <1>1, <1>2, <1>3 DEF SyncInv

\* A seed makes the CRDT what the document has; any other text asks for a render.
LEMMA SyncOfJoin ==
  ASSUME ~EmptiedRoom, EditInv, SyncInv, JoinedEmpty \/ JoinedText \/ RemoteOperation
  PROVE  SyncInv'
<1> USE DEF EditInv
<1>1. UNCHANGED <<inSession, life, seedText, document, shadow, toHost, edits, stale>> /\ inSession
  BY DEF JoinedEmpty, JoinedText, RemoteOperation, sessionVars
<1>2. /\ Live(life)' <=> Live(life)
      /\ Took' <=> Took
      /\ Index' = Index
      /\ \A i \in Index : (IsOwn(i)' <=> IsOwn(i)) /\ (IsChange(i)' <=> IsChange(i))
  BY <1>1 DEF Live, Took, Index, IsOwn, IsChange, IsReply
<1>3. Live(life) => renders # <<>> /\ joined # "no"
  BY <1>1 DEF SessionInv
<1>4. joined' # "no"
  BY DEF JoinedEmpty, JoinedText, RemoteOperation, sessionVars, TypesOK
<1> HIDE DEF Live, Took
<1>5. inSession' /\ ~stale' /\ Live(life)' /\ Took' =>
         \/ document' = edits'[life'].text /\ \A i \in Index' : ~IsOwn(i)'
         \/ \E i \in Index' : IsOwn(i)' /\ \A k \in Index' : k < i => ~IsChange(k)'
  BY <1>1, <1>2 DEF SyncInv
<1>6. ASSUME JoinedEmpty
      PROVE  /\ syncReady' /\ ~stale' /\ renders' = <<>> => shadow' = crdt' /\ document' = crdt'
             /\ inSession' /\ Live(life)' /\ Len(renders') = 1 => crdt' = edits'[life'].text
  <2>1. /\ joined # "text" /\ renders' = renders
        /\ crdt' = IF seedSent THEN crdt ELSE seedText \o crdt
    BY <1>6 DEF JoinedEmpty, Seeded
  <2>2. CASE joined = "no"
    <3>1. crdt = <<>> /\ ~seedSent
      BY <2>2 DEF SessionInv
    <3>2. crdt' = seedText
      BY <2>1, <3>1, TextsOfSome DEF TypesOK
    <3> QED
      BY <1>1, <1>2, <1>3, <2>2, <3>2 DEF SyncInv
  <2>3. CASE joined = "empty"
    <3>1. syncReady /\ crdt' = crdt
      BY <2>1, <2>3 DEF SessionInv
    <3> QED
      BY <1>1, <1>2, <2>1, <3>1 DEF SyncInv
  <2> QED
    BY <2>1, <2>2, <2>3 DEF TypesOK
<1>7. ASSUME JoinedText
      PROVE  /\ syncReady' /\ ~stale' /\ renders' = <<>> => shadow' = crdt' /\ document' = crdt'
             /\ inSession' /\ Live(life)' /\ Len(renders') = 1 => crdt' = edits'[life'].text
  <2>1. joined = "no"
    BY <1>7 DEF JoinedText
  <2>2. renders' # <<>>
    <3>1. PICK b \in BOOLEAN : renders' = Append(renders, ~b)
      BY <1>7 DEF JoinedText
    <3> DEFINE nb == ~b
    <3>2. renders' = Append(renders, nb) /\ nb \in BOOLEAN
      BY <3>1
    <3> HIDE DEF nb
    <3> QED
      BY <3>2, RenderAdded
  <2> QED
    BY <1>2, <1>3, <2>1, <2>2
<1>8. ASSUME RemoteOperation
      PROVE  /\ syncReady' /\ ~stale' /\ renders' = <<>> => shadow' = crdt' /\ document' = crdt'
             /\ inSession' /\ Live(life)' /\ Len(renders') = 1 => crdt' = edits'[life'].text
  <2>1. renders' = Append(renders, FALSE)
    BY <1>8 DEF RemoteOperation, RendersAfterOperation
  <2>2. renders' # <<>> /\ Len(renders') = Len(renders) + 1 /\ Len(renders) \in Nat
        /\ (renders # <<>> => Len(renders) > 0)
    BY <2>1, RenderAdded
  <2>3. renders # <<>> => Len(renders') # 1
    BY <2>2
  <2> QED
    BY <1>2, <1>3, <2>2, <2>3
<1> QED
  BY <1>4, <1>5, <1>6, <1>7, <1>8 DEF SyncInv

\* At first nothing is rendered and nothing is to be.
LEMMA InitSync == Init => SyncInv
  BY DEF Init, SyncInv

\* Every step keeps it.  An emptied room would be seeded again, with the text the
\* document had when the session began.
LEMMA NextSync ==
  ASSUME ~EmptiedRoom, ~FastJoin, EditInv, SyncInv, [Next]_vars
  PROVE  SyncInv'
<1>1. CASE UNCHANGED vars
  <2>1. UNCHANGED <<toHost, edits, document, editor, life, inSession, renders, syncReady, joined,
                    crdt, seedSent, depth, shadow, seedText, typed, remote, stale>>
    BY <1>1 DEF vars, editorVars, sessionVars, hostVars
  <2> QED
    BY <2>1 DEF SyncInv, Live, Took, Index, IsOwn, IsChange, IsReply
<1> QED
  BY <1>1, SyncOfType, SyncOfEdit, SyncOfReply, SyncOfChange, SyncOfRender, SyncOfReturn,
     SyncOfSession, SyncOfJoin DEF Next, EditorStep, HostStep, Session

\* When nothing is going on, the last text of the chain is that of the document.
LEMMA QuietFollows ==
  ASSUME EditInv, SyncInv
  PROVE  DocumentFollowsCrdt
<1> USE DEF EditInv
<1> SUFFICES ASSUME Quiet
             PROVE  /\ depth = 0
                    /\ syncReady /\ ~stale => editor = crdt /\ document = crdt /\ shadow = crdt
  BY DEF DocumentFollowsCrdt
<1>1. \A l \in Session : ~Live(l)
  BY DEF Quiet, TypesOK, Live
<1>2. depth = 0
  BY <1>1 DEF SessionInv
<1>3. document = editor
  <2>1. 0 \in 0..Len(toHost) /\ Mark(0) /\ NoneAfter(0) /\ TextAt(0) = document
    BY DEF Quiet, Mark, NoneAfter, TextAt, Index
  <2> QED
    BY <2>1 DEF ChainInv
<1> QED
  BY <1>2, <1>3 DEF Quiet, SyncInv

\* When nothing is going on the guard is released, and the user sees the text of the
\* CRDT unless a change was ignored or an edit refused since the last render, whatever
\* was typed, received, seeded and rendered, in sessions that find no room emptied and
\* were joined after the edits of the one before were answered.
THEOREM DocumentFollows ==
  ASSUME ~EmptiedRoom, ~FastJoin
  PROVE  Spec => []DocumentFollowsCrdt
<1>1. Init => EditInv /\ SyncInv
  BY InitEdit, InitSync
<1>2. EditInv /\ SyncInv /\ [Next]_vars => (EditInv /\ SyncInv)'
  BY NextEdit, NextSync
<1>3. EditInv /\ SyncInv => DocumentFollowsCrdt
  BY QuietFollows
<1> QED
  BY <1>1, <1>2, <1>3, PTL DEF Spec
=============================================================================

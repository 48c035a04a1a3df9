----------------------- MODULE SignalingClientsProofs -----------------------
(***************************************************************************)
(* Proofs about SignalingClients, for any rooms, clients and connections.  *)
(***************************************************************************)
EXTENDS SignalingClients, Integers, TLAPS, WellFoundedInduction, SequenceTheorems, FiniteSetTheorems

-----------------------------------------------------------------------------
(* The inductive invariant.                                                *)

Peers == UNION {[D -> Conn] : D \in SUBSET Client}

Signal == [type : {"signal"}, room : Room, client : Client, target : Client, signal : Conn]

ClientMessage == [type : {"join"}, room : Room, client : Client] \cup Signal \cup {CloseMsg}

ServerMessage == [type : {"joined"}, peers : Peers]
                 \cup [type : {"peerJoined", "peerLeft"}, client : Client, peers : Peers]
                 \cup Signal \cup {Error}

TypesOK ==
  /\ inbox \in [Conn -> Seq(ClientMessage)]
  /\ stream \in [Conn -> Seq(ServerMessage)]
  /\ joined \in [Conn -> (Room \X Client) \cup {NotJoined}]
  /\ newest \in [Room \X Client -> Conn \cup {NotJoined}]
  /\ status \in [Conn -> {"unused", "open", "gone"}]
  /\ signals \in [Conn -> Nat]
  /\ finished \subseteq Conn
  /\ DOMAIN rooms \subseteq Room
  /\ \A room \in DOMAIN rooms : rooms[room] \in Peers

IsJoin(m) == m.type = "join"

\* What a client sends: it joins once, and its signals are its own, for others.
NoJoins(box) == \A i \in DOMAIN box : ~IsJoin(box[i])
BoxOK(c, box) ==
  \A i \in DOMAIN box :
    /\ IsJoin(box[i]) => \A j \in DOMAIN box : IsJoin(box[j]) => i = j
    /\ IsSignal(box[i]) => box[i].signal = c /\ box[i].target # box[i].client
InboxInv ==
  \A c \in Conn :
    /\ BoxOK(c, inbox[c])
    /\ joined[c] # NotJoined => c \in asked
    /\ c \notin asked \/ joined[c] # NotJoined => NoJoins(inbox[c])
    /\ status[c] = "unused" => inbox[c] = <<>>

NewestHasJoined ==
  \A room \in Room, client \in Client :
    newest[<<room, client>>] # NotJoined => joined[newest[<<room, client>>]] = <<room, client>>

\* Connection c is in the room as the client, in the rooms rs.
Has(rs, room, client, c) == room \in DOMAIN rs /\ client \in DOMAIN rs[room] /\ rs[room][client] = c

NewestIsRegistered ==
  \A room \in Room, client \in Client, c \in Conn :
    Has(rooms, room, client, c) <=> newest[<<room, client>>] = c /\ c \notin finished

\* A connection that has not joined is sent nothing but errors.
OnlyErrors(s) == \A i \in DOMAIN s : s[i].type = "error"
SilentBeforeJoin ==
  \A c \in Conn : joined[c] = NotJoined =>
    OnlyErrors(stream[c]) /\ \A client \in Client : View(client, stream[c]) = NoView

\* What the transport of a client makes of its stream is what the room is.
Sees(client, s, peers) == View(client, s) = [peers |-> peers, mesh |-> DOMAIN peers \ {client}]
ViewsFollow ==
  \A room \in DOMAIN rooms : \A x \in DOMAIN rooms[room] : Sees(x, stream[rooms[room][x]], rooms[room])

\* The signals of a stream are from the sessions that its client was told of.
Known(client, s) ==
  \A i \in DOMAIN s : IsSignal(s[i]) =>
    LET peers == ViewAfter(client, s, i - 1).peers
    IN  s[i].client \in DOMAIN peers /\ peers[s[i].client] = s[i].signal
SessionsKnown == \A c \in Conn : Known(joined[c][2], stream[c])

\* Of the n signals of c, one in each of these places: the inbox of c, an error
\* in the stream of c, and the streams f that signals were passed on in.
PassedIn(f, c) ==
  UNION {{d} \X {i \in DOMAIN f[d] : IsSignal(f[d][i]) /\ f[d][i].signal = c} : d \in Conn}
Signals(s) == {i \in DOMAIN s : IsSignal(s[i])}
Errors(s)  == {i \in DOMAIN s : s[i].type = "error"}
Balanced(c, n, box, f) ==
  /\ IsFiniteSet(PassedIn(f, c))
  /\ n = Cardinality(Signals(box)) + Cardinality(Errors(f[c])) + Cardinality(PassedIn(f, c))

\* A connection that has not joined, or is registered, has an answer for each.
SignalsAnswered ==
  \A c \in Conn :
    /\ status[c] # "gone"
    /\ joined[c] # NotJoined => Has(rooms, joined[c][1], joined[c][2], c)
    => Balanced(c, signals[c], inbox[c], stream)

ServerInv == /\ NewestHasJoined /\ NewestIsRegistered /\ SilentBeforeJoin
             /\ ViewsFollow /\ SessionsKnown

IndInv == TypesOK /\ InboxInv /\ ServerInv /\ SignalsAnswered

-----------------------------------------------------------------------------
(* The view that a transport has of its stream.                            *)

LEMMA LeastNumber ==
  ASSUME NEW T \in SUBSET Nat, T # {}
  PROVE  \E x \in T : \A y \in T : x <= y
<1>1. PICK x \in T : \A y \in T : <<y, x>> \notin OpToRel(<, Nat)
  BY NatLessThanWellFounded, WFMin
<1>2. \A y \in T : ~(y < x)
  BY <1>1 DEF OpToRel
<1> QED
  BY <1>2

\* What the recursive definition of ViewAfter says of its function.
Views(f, client, s, n) ==
  f = [k \in 0..n |-> IF k = 0 THEN NoView ELSE HandleSignalingMessage(client, f[k - 1], s[k])]

LEMMA ViewsExist ==
  ASSUME NEW client, NEW s, NEW n \in Nat
  PROVE  \E f : Views(f, client, s, n)
<1> DEFINE bad == {k \in Nat : ~\E f : Views(f, client, s, k)}
<1> SUFFICES ASSUME bad # {} PROVE FALSE
  OBVIOUS
<1>1. PICK k \in bad : \A j \in bad : k <= j
  <2> HIDE DEF bad
  <2>1. bad \in SUBSET Nat
    BY DEF bad
  <2> QED
    BY <2>1, LeastNumber
<1>2. CASE k = 0
  <2>1. Views([j \in 0..0 |-> NoView], client, s, 0)
    BY DEF Views
  <2> QED
    BY <2>1, <1>1, <1>2
<1>3. CASE k # 0
  <2>1. k \in Nat /\ k - 1 \in Nat /\ k - 1 \notin bad
    BY <1>1, <1>3
  <2>2. PICK f : Views(f, client, s, k - 1)
    BY <2>1
  <2> DEFINE g == [j \in 0..k |-> IF j <= k - 1 THEN f[j]
                                  ELSE HandleSignalingMessage(client, f[k - 1], s[k])]
  <2>3. ASSUME NEW j \in 0..k
        PROVE  g[j] = IF j = 0 THEN NoView ELSE HandleSignalingMessage(client, g[j - 1], s[j])
    <3>1. CASE j = k
      BY <2>1, <1>3, <3>1
    <3>2. CASE j # k
      <4>1. f[j] = IF j = 0 THEN NoView ELSE HandleSignalingMessage(client, f[j - 1], s[j])
        BY <2>1, <2>2, <3>2 DEF Views
      <4> QED
        BY <2>1, <3>2, <4>1
    <3> QED
      BY <3>1, <3>2
  <2>4. Views(g, client, s, k)
    BY <2>3 DEF Views
  <2> QED
    BY <2>4, <1>1
<1> QED
  BY <1>2, <1>3

LEMMA ViewIsItsFunction ==
  ASSUME NEW client, NEW s, NEW n \in Nat
  PROVE  \E f : /\ ViewAfter(client, s, n) = f[n]
                /\ \A k \in 0..n : f[k] = IF k = 0 THEN NoView
                                          ELSE HandleSignalingMessage(client, f[k - 1], s[k])
<1> DEFINE f == CHOOSE f : Views(f, client, s, n)
<1>1. Views(f, client, s, n)
  BY ViewsExist
<1>2. ViewAfter(client, s, n) = f[n]
  BY DEF ViewAfter, Views
<1> HIDE DEF f
<1>3. \A k \in 0..n : f[k] = IF k = 0 THEN NoView ELSE HandleSignalingMessage(client, f[k - 1], s[k])
  BY <1>1 DEF Views
<1> QED
  BY <1>2, <1>3

LEMMA ViewTurns ==
  ASSUME NEW client, NEW s, NEW n \in Nat
  PROVE  ViewAfter(client, s, n) = IF n = 0 THEN NoView
                                   ELSE HandleSignalingMessage(client, ViewAfter(client, s, n - 1), s[n])
<1>1. PICK f : /\ ViewAfter(client, s, n) = f[n]
               /\ \A k \in 0..n : f[k] = IF k = 0 THEN NoView
                                         ELSE HandleSignalingMessage(client, f[k - 1], s[k])
  BY ViewIsItsFunction
<1>2. CASE n = 0
  BY <1>1, <1>2
<1>3. CASE n # 0
  <2> DEFINE m == n - 1
  <2>1. m \in Nat
    BY <1>3
  <2> HIDE DEF m
  <2>2. PICK g : /\ ViewAfter(client, s, m) = g[m]
                 /\ \A k \in 0..m : g[k] = IF k = 0 THEN NoView
                                           ELSE HandleSignalingMessage(client, g[k - 1], s[k])
    BY <2>1, ViewIsItsFunction
  <2>3. g[m] = f[m]
    <3> DEFINE bad == {k \in 0..m : f[k] # g[k]}
    <3> SUFFICES ASSUME bad # {} PROVE FALSE
      BY <2>1
    <3>1. PICK k \in bad : \A j \in bad : k <= j
      <4> HIDE DEF bad
      <4>1. bad \in SUBSET Nat
        BY <2>1 DEF bad
      <4> QED
        BY <4>1, LeastNumber
    <3>2. k \in 0..m /\ k \in 0..n /\ f[k] # g[k]
      BY <2>1, <3>1 DEF m
    <3>3. k # 0 /\ k - 1 \in 0..m
      BY <1>1, <2>1, <2>2, <3>2
    <3>4. f[k - 1] = g[k - 1]
      BY <2>1, <3>1, <3>3
    <3> QED
      BY <1>1, <2>2, <3>2, <3>3, <3>4
  <2>4. f[n] = HandleSignalingMessage(client, f[n - 1], s[n])
    BY <1>1, <1>3
  <2> QED
    BY <1>1, <1>3, <2>2, <2>3, <2>4 DEF m
<1> QED
  BY <1>2, <1>3

\* Streams with the same beginning give the same view of it.
LEMMA SameBeginningSameView ==
  ASSUME NEW client, NEW s, NEW t, NEW n \in Nat, \A i \in 1..n : s[i] = t[i]
  PROVE  ViewAfter(client, s, n) = ViewAfter(client, t, n)
<1> DEFINE bad == {k \in 0..n : ViewAfter(client, s, k) # ViewAfter(client, t, k)}
<1> SUFFICES ASSUME bad # {} PROVE FALSE
  OBVIOUS
<1>1. PICK k \in bad : \A j \in bad : k <= j
  <2> HIDE DEF bad
  <2>1. bad \in SUBSET Nat
    BY DEF bad
  <2> QED
    BY <2>1, LeastNumber
<1>2. k \in 0..n /\ k \in Nat /\ ViewAfter(client, s, k) # ViewAfter(client, t, k)
  BY <1>1
<1>3. /\ ViewAfter(client, s, k) = IF k = 0 THEN NoView
                                   ELSE HandleSignalingMessage(client, ViewAfter(client, s, k - 1), s[k])
      /\ ViewAfter(client, t, k) = IF k = 0 THEN NoView
                                   ELSE HandleSignalingMessage(client, ViewAfter(client, t, k - 1), t[k])
  BY <1>2, ViewTurns
<1>4. k # 0 /\ k - 1 \in 0..n /\ s[k] = t[k]
  BY <1>2, <1>3
<1>5. ViewAfter(client, s, k - 1) = ViewAfter(client, t, k - 1)
  BY <1>1, <1>4
<1> QED
  BY <1>2, <1>3, <1>4, <1>5

LEMMA ViewOfNothing == \A client : View(client, <<>>) = NoView
<1> SUFFICES ASSUME NEW client PROVE View(client, <<>>) = NoView
  OBVIOUS
<1>1. ViewAfter(client, <<>>, 0) = NoView
  BY ViewTurns
<1> QED
  BY <1>1 DEF View

\* A message at the end of a stream: the views before it stay, and the last one
\* is what handleSignalingMessage makes of it.
LEMMA ViewAppend ==
  ASSUME NEW T, NEW s \in Seq(T), NEW m \in T, NEW client
  PROVE  /\ \A n \in 0..Len(s) : ViewAfter(client, Append(s, m), n) = ViewAfter(client, s, n)
         /\ View(client, Append(s, m)) = HandleSignalingMessage(client, View(client, s), m)
<1> DEFINE t == Append(s, m)
           len == Len(s)
<1>1. /\ len \in Nat /\ Len(t) = len + 1 /\ t[len + 1] = m
      /\ \A i \in 1..len : s[i] = t[i]
  BY AppendProperties
<1> HIDE DEF t, len
<1>2. ASSUME NEW n \in 0..len
      PROVE  ViewAfter(client, t, n) = ViewAfter(client, s, n)
  <2>1. n \in Nat /\ \A i \in 1..n : s[i] = t[i]
    BY <1>1
  <2> QED
    BY <2>1, SameBeginningSameView
<1>3. ViewAfter(client, t, len + 1) = HandleSignalingMessage(client, ViewAfter(client, s, len), t[len + 1])
  <2> DEFINE k == len + 1
  <2>1. k \in Nat /\ k # 0 /\ k - 1 = len
    BY <1>1
  <2>2. ViewAfter(client, t, len) = ViewAfter(client, s, len)
    BY <1>1, <1>2
  <2> HIDE DEF k
  <2>3. ViewAfter(client, t, k) = HandleSignalingMessage(client, ViewAfter(client, t, k - 1), t[k])
    BY <2>1, ViewTurns
  <2> QED
    BY <2>1, <2>2, <2>3 DEF k
<1> QED
  BY <1>1, <1>2, <1>3 DEF View, t, len

-----------------------------------------------------------------------------
(* A message at the end of a stream.                                       *)

LEMMA MessageAtTheEnd ==
  ASSUME NEW s \in Seq(ServerMessage), NEW m \in ServerMessage
  PROVE  /\ Append(s, m) \in Seq(ServerMessage)
         /\ OnlyErrors(s) /\ m.type = "error" => OnlyErrors(Append(s, m))
         /\ \A client : OnlyErrors(s) => Known(client, s)
         /\ \A client : /\ Known(client, s)
                        /\ IsSignal(m) => /\ m.client \in DOMAIN View(client, s).peers
                                          /\ View(client, s).peers[m.client] = m.signal
                        => Known(client, Append(s, m))
<1> DEFINE t == Append(s, m)
           len == Len(s)
<1>1. /\ t \in Seq(ServerMessage) /\ len \in Nat
      /\ DOMAIN s = 1..len /\ DOMAIN t = 1..(len + 1)
      /\ t[len + 1] = m /\ \A i \in 1..len : t[i] = s[i]
  BY AppendProperties, LenProperties
<1>2. \A client, n : n \in 0..len => ViewAfter(client, t, n) = ViewAfter(client, s, n)
  BY ViewAppend
<1>3. \A client : View(client, s) = ViewAfter(client, s, len)
  BY DEF View
<1> HIDE DEF t, len
<1>4. OnlyErrors(s) /\ m.type = "error" => OnlyErrors(t)
  BY <1>1 DEF OnlyErrors
<1>5. \A client : OnlyErrors(s) => Known(client, s)
  BY DEF OnlyErrors, Known, IsSignal
<1>6. ASSUME NEW client, Known(client, s),
             IsSignal(m) => /\ m.client \in DOMAIN View(client, s).peers
                            /\ View(client, s).peers[m.client] = m.signal
      PROVE  Known(client, t)
  <2> SUFFICES ASSUME NEW i \in DOMAIN t, IsSignal(t[i])
               PROVE  /\ t[i].client \in DOMAIN ViewAfter(client, t, i - 1).peers
                      /\ ViewAfter(client, t, i - 1).peers[t[i].client] = t[i].signal
    BY DEF Known
  <2>1. i - 1 \in 0..len
    BY <1>1
  <2>2. ViewAfter(client, t, i - 1) = ViewAfter(client, s, i - 1)
    BY <1>2, <2>1
  <2>3. CASE i = len + 1
    <3>1. t[i] = m /\ i - 1 = len
      BY <1>1, <2>3
    <3> QED
      BY <1>3, <1>6, <2>2, <3>1
  <2>4. CASE i # len + 1
    <3>1. i \in DOMAIN s /\ t[i] = s[i]
      BY <1>1, <2>4
    <3> QED
      BY <1>6, <2>2, <3>1 DEF Known
  <2> QED
    BY <2>3, <2>4
<1> QED
  BY <1>1, <1>4, <1>5, <1>6 DEF t

-----------------------------------------------------------------------------
(* Counting signals and errors.                                            *)

\* Positions are numbers up to the length: there are finitely many.
LEMMA PositionsAreFinite ==
  ASSUME NEW S, NEW s \in Seq(S), NEW P \in SUBSET DOMAIN s
  PROVE  IsFiniteSet(P) /\ Cardinality(P) \in Nat /\ Len(s) + 1 \notin P
<1>1. DOMAIN s = 1..Len(s) /\ Len(s) \in Nat
  BY LenProperties
<1>2. 1 \in Int /\ Len(s) \in Int
  BY <1>1
<1>3. IsFiniteSet(1..Len(s))
  BY <1>2, FS_Interval
<1>4. IsFiniteSet(P)
  BY <1>1, <1>3, FS_Subset
<1> QED
  BY <1>1, <1>4, FS_CardinalityType

LEMMA CountAtTheEnd ==
  ASSUME NEW S, NEW s \in Seq(S), NEW m \in S
  PROVE  /\ Cardinality(Signals(s)) \in Nat /\ Cardinality(Errors(s)) \in Nat
         /\ Cardinality(Signals(Append(s, m))) = Cardinality(Signals(s)) + IF IsSignal(m) THEN 1 ELSE 0
         /\ Cardinality(Errors(Append(s, m))) = Cardinality(Errors(s)) + IF m.type = "error" THEN 1 ELSE 0
<1> DEFINE t == Append(s, m)
           len == Len(s)
<1>1. /\ len \in Nat /\ DOMAIN s = 1..len /\ DOMAIN t = 1..(len + 1)
      /\ t[len + 1] = m /\ \A i \in 1..len : t[i] = s[i]
  BY AppendProperties, LenProperties
<1> HIDE DEF t
<1>2. /\ IsFiniteSet(Signals(s)) /\ Cardinality(Signals(s)) \in Nat /\ len + 1 \notin Signals(s)
      /\ IsFiniteSet(Errors(s)) /\ Cardinality(Errors(s)) \in Nat /\ len + 1 \notin Errors(s)
  <2>1. Signals(s) \in SUBSET DOMAIN s /\ Errors(s) \in SUBSET DOMAIN s
    BY DEF Signals, Errors
  <2> QED
    BY <2>1, PositionsAreFinite
<1> HIDE DEF len
<1>3. Signals(t) = IF IsSignal(m) THEN Signals(s) \cup {len + 1} ELSE Signals(s)
  BY <1>1 DEF Signals
<1>4. Errors(t) = IF m.type = "error" THEN Errors(s) \cup {len + 1} ELSE Errors(s)
  BY <1>1 DEF Errors
<1>5. /\ Cardinality(Signals(s) \cup {len + 1}) = Cardinality(Signals(s)) + 1
      /\ Cardinality(Errors(s) \cup {len + 1}) = Cardinality(Errors(s)) + 1
  BY <1>2, FS_AddElement
<1> QED
  BY <1>2, <1>3, <1>4, <1>5 DEF t

LEMMA CountOfTail ==
  ASSUME NEW S, NEW s \in Seq(S), s # <<>>
  PROVE  Cardinality(Signals(s)) = Cardinality(Signals(Tail(s))) + IF IsSignal(Head(s)) THEN 1 ELSE 0
<1> DEFINE t == Tail(s)
           shift == [i \in Signals(t) |-> i + 1]
           rest == Signals(s) \ {1}
<1>1. /\ t \in Seq(S) /\ Len(s) \in Nat \ {0} /\ Len(t) = Len(s) - 1
      /\ DOMAIN s = 1..Len(s) /\ DOMAIN t = 1..Len(t)
      /\ Head(s) = s[1] /\ \A i \in 1..Len(t) : t[i] = s[i + 1]
  BY HeadTailProperties, EmptySeq, LenProperties
<1> HIDE DEF t
<1>2. /\ IsFiniteSet(Signals(s)) /\ IsFiniteSet(Signals(t))
      /\ Cardinality(Signals(s)) \in Nat /\ Cardinality(Signals(t)) \in Nat
  <2>1. Signals(s) \in SUBSET DOMAIN s /\ Signals(t) \in SUBSET DOMAIN t
    BY DEF Signals
  <2> QED
    BY <1>1, <2>1, PositionsAreFinite
<1>3. Cardinality(Signals(t)) = Cardinality(rest)
  <2>1. shift \in Bijection(Signals(t), rest)
    <3>1. \A i \in Signals(t) : i \in Nat /\ i + 1 \in rest
      BY <1>1 DEF Signals
    <3>2. \A j \in rest : j - 1 \in Signals(t) /\ shift[j - 1] = j
      BY <1>1 DEF Signals
    <3>3. \A i, j \in Signals(t) : shift[i] = shift[j] => i = j
      BY <3>1
    <3> QED
      BY <3>1, <3>2, <3>3 DEF Bijection, Injection, Surjection, IsInjective
  <2> QED
    BY <1>2, <2>1, FS_Bijection DEF ExistsBijection
<1>4. CASE IsSignal(Head(s))
  <2>1. 1 \in Signals(s)
    BY <1>1, <1>4 DEF Signals
  <2>2. Cardinality(rest) = Cardinality(Signals(s)) - 1
    BY <1>2, <2>1, FS_RemoveElement
  <2> QED
    BY <1>2, <1>3, <1>4, <2>2 DEF t
<1>5. CASE ~IsSignal(Head(s))
  <2>1. rest = Signals(s)
    BY <1>1, <1>5 DEF Signals
  <2>2. Cardinality(Signals(t)) = Cardinality(Signals(s))
    BY <1>3, <2>1
  <2> HIDE DEF shift, rest
  <2> QED
    BY <1>2, <1>5, <2>2 DEF t
<1> QED
  BY <1>4, <1>5

\* Message i in the stream of d is a signal of c.
IsPassed(f, d, i, c) == i \in DOMAIN f[d] /\ IsSignal(f[d][i]) /\ f[d][i].signal = c

LEMMA PassedInMembers ==
  \A f, c, p : p \in PassedIn(f, c) <=> \E d \in Conn : \E i : p = <<d, i>> /\ IsPassed(f, d, i, c)
BY DEF PassedIn, IsPassed

\* Messages other than signals pass nothing on.
LEMMA NothingPassedOn ==
  ASSUME NEW f \in [Conn -> Seq(ServerMessage)], NEW g,
         \A d \in Conn : \/ g[d] = f[d]
                         \/ \E m \in ServerMessage : ~IsSignal(m) /\ g[d] = Append(f[d], m)
  PROVE  \A c : PassedIn(g, c) = PassedIn(f, c)
<1>1. ASSUME NEW d \in Conn, NEW i, NEW c
      PROVE  IsPassed(g, d, i, c) <=> IsPassed(f, d, i, c)
  <2>1. CASE g[d] = f[d]
    BY <2>1 DEF IsPassed
  <2>2. ASSUME NEW m \in ServerMessage, ~IsSignal(m), g[d] = Append(f[d], m)
        PROVE  IsPassed(g, d, i, c) <=> IsPassed(f, d, i, c)
    <3> DEFINE len == Len(f[d])
    <3>1. /\ len \in Nat /\ DOMAIN f[d] = 1..len /\ DOMAIN g[d] = 1..(len + 1)
          /\ g[d][len + 1] = m /\ \A j \in 1..len : g[d][j] = f[d][j]
      BY <2>2, AppendProperties, LenProperties
    <3> HIDE DEF len
    <3> QED
      BY <2>2, <3>1 DEF IsPassed
  <2> QED
    BY <2>1, <2>2
<1>2. \A c, p : p \in PassedIn(g, c) <=> p \in PassedIn(f, c)
  BY <1>1, PassedInMembers
<1>3. ASSUME NEW c PROVE PassedIn(g, c) = PassedIn(f, c)
  <2>1. PassedIn(g, c) \subseteq PassedIn(f, c) /\ PassedIn(f, c) \subseteq PassedIn(g, c)
    BY <1>2
  <2> QED
    BY <2>1
<1> QED
  BY <1>3

-----------------------------------------------------------------------------
(* What a step of the server does to the balance of signals.               *)

LEMMA CloseIsClientMessage == CloseMsg \in ClientMessage
BY DEF ClientMessage

\* The handler of c has read something else than a signal, and nobody is sent a
\* signal or an error.
LEMMA BalanceKept ==
  ASSUME NEW f \in [Conn -> Seq(ServerMessage)], NEW g,
         \A d \in Conn : \/ g[d] = f[d]
                         \/ \E m \in ServerMessage : m.type \notin {"signal", "error"} /\ g[d] = Append(f[d], m),
         NEW c \in Conn, NEW n, NEW box, Balanced(c, n, box, f)
  PROVE  Balanced(c, n, box, g)
<1>1. PassedIn(g, c) = PassedIn(f, c)
  BY NothingPassedOn DEF IsSignal
<1>2. Cardinality(Errors(g[c])) = Cardinality(Errors(f[c]))
  <2>1. CASE g[c] = f[c]
    BY <2>1
  <2>2. ASSUME NEW m \in ServerMessage, m.type \notin {"signal", "error"}, g[c] = Append(f[c], m)
        PROVE  Cardinality(Errors(g[c])) = Cardinality(Errors(f[c]))
    <3>1. f[c] \in Seq(ServerMessage)
      OBVIOUS
    <3>2. /\ Cardinality(Errors(f[c])) \in Nat
          /\ Cardinality(Errors(g[c])) = Cardinality(Errors(f[c])) + IF m.type = "error" THEN 1 ELSE 0
      BY <2>2, <3>1, CountAtTheEnd
    <3> QED
      BY <2>2, <3>2
  <2> QED
    BY <2>1, <2>2
<1> QED
  BY <1>1, <1>2 DEF Balanced

LEMMA BalanceOfTail ==
  ASSUME NEW c, NEW n, NEW f, NEW box \in Seq(ClientMessage), box # <<>>, ~IsSignal(Head(box)),
         Balanced(c, n, box, f)
  PROVE  Balanced(c, n, Tail(box), f)
<1>1. Cardinality(Signals(box)) = Cardinality(Signals(Tail(box))) + 0
  BY CountOfTail
<1>2. Tail(box) \in Seq(ClientMessage)
  BY HeadTailProperties
<1>3. Cardinality(Signals(Tail(box))) \in Nat
  BY <1>2, CountAtTheEnd, CloseIsClientMessage
<1> QED
  BY <1>1, <1>3 DEF Balanced

\* The signal that the handler of c has read is refused.
LEMMA BalanceRefused ==
  ASSUME NEW f \in [Conn -> Seq(ServerMessage)], NEW g, NEW c \in Conn,
         g[c] = Append(f[c], Error), \A d \in Conn \ {c} : g[d] = f[d]
  PROVE  /\ \A n, box : /\ box \in Seq(ClientMessage) /\ box # <<>> /\ IsSignal(Head(box))
                        /\ Balanced(c, n, box, f)
                        => Balanced(c, n, Tail(box), g)
         /\ \A d \in Conn \ {c} : \A n, box : Balanced(d, n, box, f) => Balanced(d, n, box, g)
<1>1. Error \in ServerMessage /\ ~IsSignal(Error) /\ Error.type = "error"
  BY DEF Error, ServerMessage, IsSignal
<1>2. \A d : PassedIn(g, d) = PassedIn(f, d)
  BY <1>1, NothingPassedOn
<1>3. f[c] \in Seq(ServerMessage)
  OBVIOUS
<1>4. /\ Cardinality(Errors(g[c])) = Cardinality(Errors(f[c])) + 1
      /\ Cardinality(Errors(f[c])) \in Nat
  BY <1>1, <1>3, CountAtTheEnd
<1>5. ASSUME NEW n, NEW box \in Seq(ClientMessage), box # <<>>, IsSignal(Head(box)), Balanced(c, n, box, f)
      PROVE  Balanced(c, n, Tail(box), g)
  <2>1. Cardinality(Signals(box)) = Cardinality(Signals(Tail(box))) + 1
    BY <1>5, CountOfTail
  <2>2. Tail(box) \in Seq(ClientMessage)
    BY <1>5, HeadTailProperties
  <2>3. Cardinality(Signals(Tail(box))) \in Nat
    BY <2>2, CountAtTheEnd, CloseIsClientMessage
  <2>4. IsFiniteSet(PassedIn(f, c)) /\ Cardinality(PassedIn(f, c)) \in Nat
    BY <1>5, FS_CardinalityType DEF Balanced
  <2> QED
    BY <1>2, <1>4, <1>5, <2>1, <2>3, <2>4 DEF Balanced
<1>6. \A d \in Conn \ {c} : \A n, box : Balanced(d, n, box, f) => Balanced(d, n, box, g)
  BY <1>2 DEF Balanced
<1> QED
  BY <1>5, <1>6

\* The signal that the handler of c has read is passed on to d.
LEMMA BalancePassedOn ==
  ASSUME NEW f \in [Conn -> Seq(ServerMessage)], NEW g, NEW c \in Conn, NEW d \in Conn,
         NEW m \in ServerMessage, IsSignal(m), m.signal = c,
         g[d] = Append(f[d], m), \A e \in Conn \ {d} : g[e] = f[e]
  PROVE  /\ \A n, box : /\ box \in Seq(ClientMessage) /\ box # <<>> /\ IsSignal(Head(box))
                        /\ Balanced(c, n, box, f)
                        => Balanced(c, n, Tail(box), g)
         /\ \A e \in Conn \ {c} : \A n, box : Balanced(e, n, box, f) => Balanced(e, n, box, g)
<1>1. \A e, p : p \in PassedIn(g, e) <=> p \in PassedIn(f, e) \/ (p = <<d, Len(f[d]) + 1>> /\ e = c)
  <2> DEFINE len == Len(f[d])
  <2>1. /\ len \in Nat /\ DOMAIN f[d] = 1..len /\ DOMAIN g[d] = 1..(len + 1)
        /\ g[d][len + 1] = m /\ \A j \in 1..len : g[d][j] = f[d][j]
    BY AppendProperties, LenProperties
  <2> HIDE DEF len
  <2>2. ASSUME NEW e \in Conn, NEW i, NEW x
        PROVE  IsPassed(g, e, i, x) <=> IsPassed(f, e, i, x) \/ (e = d /\ i = len + 1 /\ x = c)
    <3>1. CASE e # d
      BY <3>1 DEF IsPassed
    <3>2. CASE e = d /\ i = len + 1
      <4>1. i \notin DOMAIN f[d] /\ i \in DOMAIN g[d] /\ g[d][i] = m
        BY <2>1, <3>2
      <4> QED
        BY <3>2, <4>1 DEF IsPassed
    <3>3. CASE e = d /\ i # len + 1
      <4>1. i \in DOMAIN g[d] <=> i \in DOMAIN f[d]
        BY <2>1, <3>3
      <4>2. i \in DOMAIN f[d] => g[d][i] = f[d][i]
        BY <2>1
      <4> QED
        BY <3>3, <4>1, <4>2 DEF IsPassed
    <3> QED
      BY <3>1, <3>2, <3>3
  <2> SUFFICES ASSUME NEW x, NEW p
               PROVE  p \in PassedIn(g, x) <=> p \in PassedIn(f, x) \/ (p = <<d, len + 1>> /\ x = c)
    BY DEF len
  <2>3. p \in PassedIn(g, x) <=> \E e \in Conn : \E i : p = <<e, i>> /\ IsPassed(g, e, i, x)
    BY PassedInMembers
  <2>4. p \in PassedIn(f, x) <=> \E e \in Conn : \E i : p = <<e, i>> /\ IsPassed(f, e, i, x)
    BY PassedInMembers
  <2> QED
    BY <2>2, <2>3, <2>4
<1>2. /\ \A e : e # c => PassedIn(g, e) = PassedIn(f, e)
      /\ \E p : p \notin PassedIn(f, c) /\ PassedIn(g, c) = PassedIn(f, c) \cup {p}
  <2> DEFINE p == <<d, Len(f[d]) + 1>>
  <2>1. p \notin PassedIn(f, c)
    <3> SUFFICES ASSUME p \in PassedIn(f, c) PROVE FALSE
      OBVIOUS
    <3>1. Len(f[d]) + 1 \in DOMAIN f[d]
      BY PassedInMembers DEF IsPassed
    <3>2. DOMAIN f[d] = 1..Len(f[d]) /\ Len(f[d]) \in Nat
      BY LenProperties
    <3> QED
      BY <3>1, <3>2
  <2> HIDE DEF p
  <2>2. \A e, q : q \in PassedIn(g, e) <=> q \in PassedIn(f, e) \/ (q = p /\ e = c)
    BY <1>1 DEF p
  <2>3. PassedIn(g, c) = PassedIn(f, c) \cup {p}
    BY <2>2
  <2>4. ASSUME NEW e, e # c PROVE PassedIn(g, e) = PassedIn(f, e)
    <3>1. PassedIn(g, e) \subseteq PassedIn(f, e) /\ PassedIn(f, e) \subseteq PassedIn(g, e)
      BY <2>2, <2>4
    <3> QED
      BY <3>1
  <2> QED
    BY <2>1, <2>3, <2>4
<1>3. \A e \in Conn : Cardinality(Errors(g[e])) = Cardinality(Errors(f[e])) /\ Cardinality(Errors(f[e])) \in Nat
  <2> SUFFICES ASSUME NEW e \in Conn
               PROVE  Cardinality(Errors(g[e])) = Cardinality(Errors(f[e])) /\ Cardinality(Errors(f[e])) \in Nat
    OBVIOUS
  <2>1. f[e] \in Seq(ServerMessage) /\ m.type # "error"
    BY DEF IsSignal
  <2>2. /\ Cardinality(Errors(f[e])) \in Nat
        /\ Cardinality(Errors(Append(f[e], m))) = Cardinality(Errors(f[e])) + IF m.type = "error" THEN 1 ELSE 0
    BY <2>1, CountAtTheEnd
  <2>3. g[e] = f[e] \/ g[e] = Append(f[e], m)
    OBVIOUS
  <2>4. CASE g[e] = f[e]
    BY <2>2, <2>4
  <2>5. CASE g[e] = Append(f[e], m)
    BY <2>1, <2>2, <2>5
  <2> QED
    BY <2>3, <2>4, <2>5
<1>4. ASSUME NEW n, NEW box \in Seq(ClientMessage), box # <<>>, IsSignal(Head(box)), Balanced(c, n, box, f)
      PROVE  Balanced(c, n, Tail(box), g)
  <2>1. Cardinality(Signals(box)) = Cardinality(Signals(Tail(box))) + 1
    BY <1>4, CountOfTail
  <2>2. Tail(box) \in Seq(ClientMessage)
    BY <1>4, HeadTailProperties
  <2>3. Cardinality(Signals(Tail(box))) \in Nat
    BY <2>2, CountAtTheEnd, CloseIsClientMessage
  <2>4. /\ IsFiniteSet(PassedIn(f, c)) /\ Cardinality(PassedIn(f, c)) \in Nat
        /\ n = Cardinality(Signals(box)) + Cardinality(Errors(f[c])) + Cardinality(PassedIn(f, c))
    BY <1>4, FS_CardinalityType DEF Balanced
  <2>5. PICK p : p \notin PassedIn(f, c) /\ PassedIn(g, c) = PassedIn(f, c) \cup {p}
    BY <1>2
  <2>6. IsFiniteSet(PassedIn(g, c)) /\ Cardinality(PassedIn(g, c)) = Cardinality(PassedIn(f, c)) + 1
    BY <2>4, <2>5, FS_AddElement
  <2> QED
    BY <1>3, <2>1, <2>3, <2>4, <2>6 DEF Balanced
<1>5. \A e \in Conn \ {c} : \A n, box : Balanced(e, n, box, f) => Balanced(e, n, box, g)
  BY <1>2, <1>3 DEF Balanced
<1> QED
  BY <1>4, <1>5

-----------------------------------------------------------------------------
(* The inbox of a connection.                                              *)

LEMMA BoxTail ==
  ASSUME NEW c, NEW box \in Seq(ClientMessage), box # <<>>, BoxOK(c, box)
  PROVE  /\ Head(box) \in ClientMessage /\ Tail(box) \in Seq(ClientMessage)
         /\ BoxOK(c, Tail(box))
         /\ NoJoins(box) => ~IsJoin(Head(box)) /\ NoJoins(Tail(box))
         /\ IsJoin(Head(box)) => NoJoins(Tail(box))
         /\ IsSignal(Head(box)) => Head(box).signal = c /\ Head(box).target # Head(box).client
<1> DEFINE t == Tail(box)
<1>1. /\ Head(box) \in ClientMessage /\ t \in Seq(ClientMessage)
      /\ Len(box) \in Nat \ {0} /\ Len(t) = Len(box) - 1
      /\ DOMAIN box = 1..Len(box) /\ DOMAIN t = 1..Len(t)
      /\ Head(box) = box[1] /\ \A i \in 1..Len(t) : t[i] = box[i + 1]
  BY HeadTailProperties, EmptySeq, LenProperties
<1> HIDE DEF t
<1>2. 1 \in DOMAIN box /\ \A i \in DOMAIN t : i \in Int /\ i + 1 \in DOMAIN box /\ t[i] = box[i + 1] /\ i + 1 # 1
  BY <1>1
<1>3. BoxOK(c, t)
  BY <1>2 DEF BoxOK
<1>4. NoJoins(box) => ~IsJoin(Head(box)) /\ NoJoins(t)
  BY <1>1, <1>2 DEF NoJoins
<1>5. IsJoin(Head(box)) => NoJoins(t)
  BY <1>1, <1>2 DEF NoJoins, BoxOK
<1>6. IsSignal(Head(box)) => Head(box).signal = c /\ Head(box).target # Head(box).client
  BY <1>1, <1>2 DEF BoxOK
<1> QED
  BY <1>1, <1>3, <1>4, <1>5, <1>6 DEF t

LEMMA BoxAppend ==
  ASSUME NEW c, NEW box \in Seq(ClientMessage), NEW m \in ClientMessage, BoxOK(c, box),
         IsJoin(m) => NoJoins(box), IsSignal(m) => m.signal = c /\ m.target # m.client
  PROVE  /\ Append(box, m) \in Seq(ClientMessage) /\ BoxOK(c, Append(box, m))
         /\ NoJoins(box) /\ ~IsJoin(m) => NoJoins(Append(box, m))
<1> DEFINE t == Append(box, m)
           len == Len(box)
<1>1. /\ t \in Seq(ClientMessage) /\ len \in Nat
      /\ DOMAIN box = 1..len /\ DOMAIN t = 1..(len + 1)
      /\ t[len + 1] = m /\ \A i \in 1..len : t[i] = box[i]
  BY AppendProperties, LenProperties
<1> HIDE DEF t, len
<1>2. \A i \in DOMAIN t : (i \in DOMAIN box /\ t[i] = box[i]) \/ (i = len + 1 /\ t[i] = m)
  BY <1>1
<1>3. BoxOK(c, t)
  BY <1>2 DEF BoxOK, NoJoins
<1>4. NoJoins(box) /\ ~IsJoin(m) => NoJoins(t)
  BY <1>2 DEF NoJoins
<1> QED
  BY <1>1, <1>3, <1>4 DEF t

LEMMA BoxBeginning ==
  ASSUME NEW c, NEW box \in Seq(ClientMessage), BoxOK(c, box), NEW kept \in 0..Len(box)
  PROVE  /\ SubSeq(box, 1, kept) \in Seq(ClientMessage) /\ BoxOK(c, SubSeq(box, 1, kept))
         /\ NoJoins(box) => NoJoins(SubSeq(box, 1, kept))
<1> DEFINE t == SubSeq(box, 1, kept)
<1>1. kept \in Nat /\ kept <= Len(box) /\ Len(box) \in Nat /\ DOMAIN box = 1..Len(box)
  BY LenProperties
<1>2. \A i \in 1..kept : box[i] \in ClientMessage
  BY <1>1, ElementOfSeq
<1>3. t \in Seq(ClientMessage) /\ Len(t) = kept /\ \A i \in 1..kept : t[i] = box[i]
  <2>1. /\ t \in Seq(ClientMessage)
        /\ Len(t) = IF 1 <= kept THEN kept - 1 + 1 ELSE 0
        /\ \A i \in 1..(kept - 1 + 1) : t[i] = box[1 + i - 1]
    BY <1>1, <1>2, SubSeqProperties
  <2>2. kept - 1 + 1 = kept /\ \A i \in 1..kept : 1 + i - 1 = i
    BY <1>1
  <2> HIDE DEF t
  <2> QED
    BY <1>1, <2>1, <2>2
<1> HIDE DEF t
<1>4. DOMAIN t = 1..kept
  BY <1>3, LenProperties
<1>5. \A i \in DOMAIN t : i \in DOMAIN box /\ t[i] = box[i]
  BY <1>1, <1>3, <1>4
<1>6. BoxOK(c, t) /\ (NoJoins(box) => NoJoins(t))
  BY <1>5 DEF BoxOK, NoJoins
<1> QED
  BY <1>3, <1>6 DEF t

LEMMA ReadsTakesTheHead ==
  ASSUME TypesOK, InboxInv, NEW c \in Conn, NEW type, Reads(c, type)
  PROVE  /\ inbox' \in [Conn -> Seq(ClientMessage)]
         /\ inbox[c] \in Seq(ClientMessage) /\ inbox[c] # <<>> /\ inbox'[c] = Tail(inbox[c])
         /\ \A d \in Conn \ {c} : inbox'[d] = inbox[d]
         /\ c \notin finished /\ Head(inbox[c]) \in ClientMessage /\ Head(inbox[c]).type = type
         /\ \A d \in Conn : BoxOK(d, inbox'[d])
         /\ NoJoins(inbox[c]) => NoJoins(inbox'[c])
         /\ type = "join" => c \in asked /\ joined[c] = NotJoined /\ NoJoins(inbox'[c])
         /\ type = "signal" => Head(inbox[c]).signal = c /\ Head(inbox[c]).target # Head(inbox[c]).client
         /\ status[c] # "unused"
<1>1. /\ inbox[c] \in Seq(ClientMessage) /\ inbox[c] # <<>>
      /\ Head(inbox[c]).type = type /\ c \notin finished
      /\ inbox' = [inbox EXCEPT ![c] = Tail(inbox[c])]
  BY DEF TypesOK, Reads
<1>2. /\ BoxOK(c, inbox[c]) /\ status[c] # "unused"
      /\ c \notin asked \/ joined[c] # NotJoined => NoJoins(inbox[c])
  BY <1>1 DEF InboxInv
<1>3. /\ Head(inbox[c]) \in ClientMessage /\ Tail(inbox[c]) \in Seq(ClientMessage)
      /\ BoxOK(c, Tail(inbox[c]))
      /\ NoJoins(inbox[c]) => ~IsJoin(Head(inbox[c])) /\ NoJoins(Tail(inbox[c]))
      /\ IsJoin(Head(inbox[c])) => NoJoins(Tail(inbox[c]))
      /\ IsSignal(Head(inbox[c])) => Head(inbox[c]).signal = c /\ Head(inbox[c]).target # Head(inbox[c]).client
  BY <1>1, <1>2, BoxTail
<1>4. inbox' \in [Conn -> Seq(ClientMessage)] /\ inbox'[c] = Tail(inbox[c]) /\ \A d \in Conn \ {c} : inbox'[d] = inbox[d]
  BY <1>1, <1>3 DEF TypesOK
<1>5. ASSUME NEW d \in Conn PROVE BoxOK(d, inbox'[d])
  <2>1. CASE d = c
    BY <1>3, <1>4, <2>1
  <2>2. CASE d # c
    BY <1>4, <2>2 DEF InboxInv
  <2> QED
    BY <2>1, <2>2
<1>6. type = "join" => c \in asked /\ joined[c] = NotJoined /\ NoJoins(inbox'[c])
  BY <1>1, <1>2, <1>3, <1>4 DEF IsJoin
<1>7. type = "signal" => Head(inbox[c]).signal = c /\ Head(inbox[c]).target # Head(inbox[c]).client
  BY <1>1, <1>3 DEF IsSignal
<1> QED
  BY <1>1, <1>2, <1>3, <1>4, <1>5, <1>6, <1>7

-----------------------------------------------------------------------------
(* A registered connection.                                                *)

LEMMA PairIsNotNothing == \A x, y : <<x, y>> # NotJoined
<1>1. \A x, y : Len(<<x, y>>) = 2 /\ Len(<<>>) = 0
  OBVIOUS
<1> QED
  BY <1>1 DEF NotJoined

LEMMA PeersAreFunctions ==
  ASSUME TypesOK, NEW room \in DOMAIN rooms
  PROVE  /\ room \in Room /\ rooms[room] \in Peers
         /\ DOMAIN rooms[room] \subseteq Client
         /\ rooms[room] \in [DOMAIN rooms[room] -> Conn]
<1>1. room \in Room /\ rooms[room] \in Peers
  BY DEF TypesOK
<1>2. PICK D \in SUBSET Client : rooms[room] \in [D -> Conn]
  BY <1>1 DEF Peers
<1> QED
  BY <1>1, <1>2

LEMMA RegisteredIsNewest ==
  ASSUME IndInv, NEW room, NEW x, NEW c, Has(rooms, room, x, c)
  PROVE  /\ room \in DOMAIN rooms /\ room \in Room /\ x \in Client /\ c \in Conn
         /\ c \notin finished /\ newest[<<room, x>>] = c /\ joined[c] = <<room, x>>
         /\ Sees(x, stream[c], rooms[room])
<1>1. room \in DOMAIN rooms /\ x \in DOMAIN rooms[room] /\ rooms[room][x] = c
  BY DEF Has
<1>2. room \in Room /\ x \in Client /\ c \in Conn
  BY <1>1, PeersAreFunctions DEF IndInv
<1>3. newest[<<room, x>>] = c /\ c \notin finished
  BY <1>2 DEF IndInv, ServerInv, NewestIsRegistered
<1>4. joined[c] = <<room, x>>
  BY <1>2, <1>3, ConnAssumption DEF IndInv, ServerInv, NewestHasJoined
<1>5. Sees(x, stream[c], rooms[room])
  BY <1>1 DEF IndInv, ServerInv, ViewsFollow
<1> QED
  BY <1>1, <1>2, <1>3, <1>4, <1>5

\* A connection is a peer once: in the room that it joined, as who it joined.
LEMMA RegisteredOnce ==
  ASSUME IndInv, NEW r, NEW x, NEW c, Has(rooms, r, x, c), NEW s, NEW y, Has(rooms, s, y, c)
  PROVE  r = s /\ x = y
<1>1. joined[c] = <<r, x>> /\ joined[c] = <<s, y>>
  BY RegisteredIsNewest
<1> QED
  BY <1>1

-----------------------------------------------------------------------------
(* What handleSignalingMessage makes of each message of the server.        *)

LEMMA SeesJoined ==
  ASSUME NEW s \in Seq(ServerMessage), NEW x, NEW peers, Joined(peers) \in ServerMessage,
         View(x, s) = NoView
  PROVE  Sees(x, Append(s, Joined(peers)), peers)
<1>1. View(x, Append(s, Joined(peers))) = HandleSignalingMessage(x, NoView, Joined(peers))
  BY ViewAppend
<1> QED
  BY <1>1 DEF HandleSignalingMessage, Joined, NoView, Sees

LEMMA SeesPeerJoined ==
  ASSUME NEW s \in Seq(ServerMessage), NEW x, NEW client, NEW before, NEW peers,
         PeerJoined(client, peers) \in ServerMessage, Sees(x, s, before),
         x # client, DOMAIN peers = DOMAIN before \cup {client}
  PROVE  Sees(x, Append(s, PeerJoined(client, peers)), peers)
<1> DEFINE m == PeerJoined(client, peers)
           view == View(x, s)
<1>1. View(x, Append(s, m)) = HandleSignalingMessage(x, view, m)
  BY ViewAppend
<1>2. m.type = "peerJoined" /\ m.client = client /\ m.peers = peers
  BY DEF PeerJoined
<1>3. view.mesh = DOMAIN before \ {x}
  BY DEF Sees
<1> HIDE DEF m, view
<1>4. HandleSignalingMessage(x, view, m) = [peers |-> peers, mesh |-> (DOMAIN before \ {x}) \cup {client}]
  BY <1>2, <1>3 DEF HandleSignalingMessage
<1>5. (DOMAIN before \ {x}) \cup {client} = DOMAIN peers \ {x}
  OBVIOUS
<1> QED
  BY <1>1, <1>4, <1>5 DEF Sees, m

LEMMA SeesPeerLeft ==
  ASSUME NEW s \in Seq(ServerMessage), NEW x, NEW client, NEW before, NEW peers,
         PeerLeft(client, peers) \in ServerMessage, Sees(x, s, before),
         DOMAIN peers = DOMAIN before \ {client}
  PROVE  Sees(x, Append(s, PeerLeft(client, peers)), peers)
<1> DEFINE m == PeerLeft(client, peers)
           view == View(x, s)
<1>1. View(x, Append(s, m)) = HandleSignalingMessage(x, view, m)
  BY ViewAppend
<1>2. m.type = "peerLeft" /\ m.client = client /\ m.peers = peers
  BY DEF PeerLeft
<1>3. view.mesh = DOMAIN before \ {x}
  BY DEF Sees
<1> HIDE DEF m, view
<1>4. HandleSignalingMessage(x, view, m) = [peers |-> peers, mesh |-> (DOMAIN before \ {x}) \ {client}]
  BY <1>2, <1>3 DEF HandleSignalingMessage
<1>5. (DOMAIN before \ {x}) \ {client} = DOMAIN peers \ {x}
  OBVIOUS
<1> QED
  BY <1>1, <1>4, <1>5 DEF Sees, m

LEMMA SeesSignal ==
  ASSUME NEW s \in Seq(ServerMessage), NEW x, NEW m \in ServerMessage, NEW peers, IsSignal(m),
         Sees(x, s, peers), m.client \in DOMAIN peers, m.client # x
  PROVE  Sees(x, Append(s, m), peers)
<1> DEFINE view == View(x, s)
<1>1. View(x, Append(s, m)) = HandleSignalingMessage(x, view, m)
  BY ViewAppend
<1>2. view = [peers |-> peers, mesh |-> DOMAIN peers \ {x}]
  BY DEF Sees
<1> HIDE DEF view
<1>3. HandleSignalingMessage(x, view, m) = [view EXCEPT !.mesh = view.mesh \cup {m.client}]
  BY DEF HandleSignalingMessage, IsSignal
<1>4. [view EXCEPT !.mesh = view.mesh \cup {m.client}]
        = [peers |-> peers, mesh |-> (DOMAIN peers \ {x}) \cup {m.client}]
  <2>1. \A p, q, r : [[peers |-> p, mesh |-> q] EXCEPT !.mesh = r] = [peers |-> p, mesh |-> r]
    OBVIOUS
  <2>2. view.mesh = DOMAIN peers \ {x}
    BY <1>2
  <2> QED
    BY <1>2, <2>1, <2>2
<1>5. (DOMAIN peers \ {x}) \cup {m.client} = DOMAIN peers \ {x}
  OBVIOUS
<1> QED
  BY <1>1, <1>3, <1>4, <1>5 DEF Sees

LEMMA ErrorIsNoNews ==
  /\ Error \in ServerMessage /\ Error.type = "error" /\ ~IsSignal(Error)
  /\ \A s \in Seq(ServerMessage) : \A x : View(x, Append(s, Error)) = View(x, s)
<1>1. Error \in ServerMessage /\ Error.type = "error" /\ ~IsSignal(Error)
  BY DEF Error, ServerMessage, IsSignal
<1>2. ASSUME NEW s \in Seq(ServerMessage), NEW x
      PROVE  View(x, Append(s, Error)) = View(x, s)
  <2>1. View(x, Append(s, Error)) = HandleSignalingMessage(x, View(x, s), Error)
    BY <1>1, ViewAppend
  <2> QED
    BY <1>1, <2>1 DEF HandleSignalingMessage
<1> QED
  BY <1>1, <1>2

-----------------------------------------------------------------------------
(* The signal that a handler has read.                                     *)

\* A step of c leaves the signals of the others where they were, or passes them on.
LEMMA AnswersFollow ==
  ASSUME SignalsAnswered, NEW c \in Conn,
         \A d \in Conn \ {c} : /\ joined'[d] = joined[d] /\ inbox'[d] = inbox[d]
                               /\ signals'[d] = signals[d] /\ status'[d] = status[d],
         \A d \in Conn \ {c} : \A r, x : Has(rooms', r, x, d) => Has(rooms, r, x, d),
         \A d \in Conn \ {c} : \A n, box : Balanced(d, n, box, stream) => Balanced(d, n, box, stream'),
         /\ status'[c] # "gone"
         /\ joined'[c] # NotJoined => Has(rooms', joined'[c][1], joined'[c][2], c)
         => Balanced(c, signals'[c], inbox'[c], stream')
  PROVE  SignalsAnswered'
<1> SUFFICES ASSUME NEW d \in Conn, status'[d] # "gone",
                    joined'[d] # NotJoined => Has(rooms', joined'[d][1], joined'[d][2], d)
             PROVE  Balanced(d, signals'[d], inbox'[d], stream')
  BY DEF SignalsAnswered
<1>1. CASE d = c
  BY <1>1
<1>2. CASE d # c
  <2>1. joined[d] # NotJoined => Has(rooms, joined[d][1], joined[d][2], d)
    BY <1>2
  <2>2. Balanced(d, signals[d], inbox[d], stream)
    BY <1>2, <2>1 DEF SignalsAnswered
  <2> QED
    BY <1>2, <2>2
<1> QED
  BY <1>1, <1>2

\* A refused signal is answered, and the error is no news to anyone.
LEMMA RefusedStep ==
  ASSUME IndInv, NEW c \in Conn, Reads(c, "signal"), stream' = Refuse(c),
         UNCHANGED <<rooms, joined, status, finished, newest, signals>>
  PROVE  stream' \in [Conn -> Seq(ServerMessage)] /\ ServerInv' /\ SignalsAnswered'
<1>1. ASSUME NEW d \in Conn
      PROVE  /\ stream[d] \in Seq(ServerMessage)
             /\ stream'[d] = IF d = c THEN Append(stream[d], Error) ELSE stream[d]
  BY DEF IndInv, TypesOK, Refuse, SendTo
<1>2. ASSUME NEW d \in Conn
      PROVE  /\ stream'[d] \in Seq(ServerMessage)
             /\ OnlyErrors(stream[d]) => OnlyErrors(stream'[d])
             /\ \A x : View(x, stream'[d]) = View(x, stream[d])
             /\ \A x : Known(x, stream[d]) => Known(x, stream'[d])
  <2> DEFINE s == stream[d]
  <2>1. s \in Seq(ServerMessage) /\ (stream'[d] = s \/ stream'[d] = Append(s, Error))
    BY <1>1
  <2> HIDE DEF s
  <2>2. Error \in ServerMessage /\ Error.type = "error" /\ ~IsSignal(Error)
        /\ \A x : View(x, Append(s, Error)) = View(x, s)
    BY <2>1, ErrorIsNoNews
  <2>3. /\ Append(s, Error) \in Seq(ServerMessage)
        /\ OnlyErrors(s) => OnlyErrors(Append(s, Error))
        /\ \A x : Known(x, s) => Known(x, Append(s, Error))
    BY <2>1, <2>2, MessageAtTheEnd
  <2> QED
    BY <2>1, <2>2, <2>3 DEF s
<1>3. stream' \in [Conn -> Seq(ServerMessage)]
  BY <1>2 DEF Refuse, SendTo
<1>4. NewestHasJoined' /\ NewestIsRegistered'
  BY DEF IndInv, ServerInv, NewestHasJoined, NewestIsRegistered
<1>5. SilentBeforeJoin' /\ SessionsKnown'
  BY <1>2 DEF IndInv, ServerInv, SilentBeforeJoin, SessionsKnown
<1>6. ASSUME NEW room \in DOMAIN rooms, NEW x \in DOMAIN rooms[room]
      PROVE  Sees(x, stream'[rooms[room][x]], rooms[room])
  <2>1. Has(rooms, room, x, rooms[room][x])
    BY DEF Has
  <2>2. rooms[room][x] \in Conn /\ Sees(x, stream[rooms[room][x]], rooms[room])
    BY <2>1, RegisteredIsNewest
  <2> QED
    BY <1>2, <2>2 DEF Sees
<1>7. ViewsFollow'
  BY <1>6 DEF ViewsFollow
<1>8. SignalsAnswered'
  <2> DEFINE before == inbox[c]
  <2>1. /\ before \in Seq(ClientMessage) /\ before # <<>> /\ IsSignal(Head(before))
        /\ inbox'[c] = Tail(before) /\ \A d \in Conn \ {c} : inbox'[d] = inbox[d]
    BY ReadsTakesTheHead DEF IndInv, IsSignal
  <2>2. stream \in [Conn -> Seq(ServerMessage)]
    BY DEF IndInv, TypesOK
  <2>3. /\ \A n, box : /\ box \in Seq(ClientMessage) /\ box # <<>> /\ IsSignal(Head(box))
                       /\ Balanced(c, n, box, stream)
                       => Balanced(c, n, Tail(box), stream')
        /\ \A d \in Conn \ {c} : \A n, box : Balanced(d, n, box, stream) => Balanced(d, n, box, stream')
    BY <1>1, <2>2, BalanceRefused
  <2>4. ASSUME status[c] # "gone", joined[c] # NotJoined => Has(rooms, joined[c][1], joined[c][2], c)
        PROVE  Balanced(c, signals[c], inbox'[c], stream')
    <3>1. Balanced(c, signals[c], before, stream)
      BY <2>4 DEF IndInv, SignalsAnswered
    <3> QED
      BY <2>1, <2>3, <3>1
  <2>5. SignalsAnswered
    BY DEF IndInv
  <2> QED
    BY <2>1, <2>3, <2>4, <2>5, AnswersFollow
<1> QED
  BY <1>3, <1>4, <1>5, <1>7, <1>8 DEF ServerInv

\* A signal from a connection whose room is gone has lost its sender.
LEMMA IgnoredStep ==
  ASSUME IndInv, NEW c \in Conn, IgnoreSignal(c), UNCHANGED <<newest, signals>>
  PROVE  stream' \in [Conn -> Seq(ServerMessage)] /\ ServerInv' /\ SignalsAnswered'
<1>1. /\ UNCHANGED <<rooms, joined, stream, status, finished>> /\ Reads(c, "signal")
      /\ joined[c] = <<Head(inbox[c]).room, Head(inbox[c]).client>>
      /\ Head(inbox[c]).room \notin DOMAIN rooms
  BY DEF IgnoreSignal
<1>2. ServerInv'
  BY <1>1 DEF IndInv, ServerInv, NewestHasJoined, NewestIsRegistered, SilentBeforeJoin, ViewsFollow, SessionsKnown
<1>3. joined[c] # NotJoined /\ ~Has(rooms, joined[c][1], joined[c][2], c)
  BY <1>1, PairIsNotNothing DEF Has
<1>4. \A d \in Conn \ {c} : inbox'[d] = inbox[d]
  BY <1>1, ReadsTakesTheHead DEF IndInv
<1>5. SignalsAnswered'
  BY <1>1, <1>3, <1>4, AnswersFollow DEF IndInv
<1> QED
  BY <1>1, <1>2, <1>5 DEF IndInv, TypesOK

\* A signal that is passed on is from the session that its target knows.
LEMMA ForwardStep ==
  ASSUME IndInv, NEW c \in Conn, ForwardSignal(c), UNCHANGED <<newest, signals>>
  PROVE  stream' \in [Conn -> Seq(ServerMessage)] /\ ServerInv' /\ SignalsAnswered'
<1> DEFINE before == inbox[c]
           m == Head(before)
           room == m.room
           peers == rooms[room]
           d == peers[m.target]
<1>1. /\ UNCHANGED <<rooms, joined, status, finished>> /\ Reads(c, "signal")
      /\ room \in DOMAIN rooms /\ m.client \in DOMAIN peers /\ peers[m.client] = c
      /\ m.target \in DOMAIN peers
      /\ stream' = SendTo({d}, m)
  BY DEF ForwardSignal, MaySignal, IsActiveSender, PeersOf
<1>2. /\ before \in Seq(ClientMessage) /\ before # <<>> /\ inbox'[c] = Tail(before)
      /\ \A e \in Conn \ {c} : inbox'[e] = inbox[e]
      /\ m \in ClientMessage /\ m.type = "signal" /\ m.signal = c /\ m.target # m.client
  BY <1>1, ReadsTakesTheHead DEF IndInv
<1>3. IsSignal(m) /\ m \in ServerMessage /\ m.type # "error"
  BY <1>2 DEF ClientMessage, CloseMsg, ServerMessage, IsSignal
<1> HIDE DEF before, m, room, peers, d
<1>4. Has(rooms, room, m.target, d)
  BY <1>1 DEF Has, d, peers
<1>5. d \in Conn /\ joined[d] = <<room, m.target>> /\ Sees(m.target, stream[d], peers)
  BY <1>4, RegisteredIsNewest DEF peers
<1>6. /\ stream \in [Conn -> Seq(ServerMessage)]
      /\ stream[d] \in Seq(ServerMessage) /\ stream'[d] = Append(stream[d], m)
      /\ \A e \in Conn \ {d} : stream'[e] = stream[e]
  BY <1>1, <1>5 DEF IndInv, TypesOK, SendTo
<1>7. Append(stream[d], m) \in Seq(ServerMessage)
  BY <1>3, <1>6, AppendProperties
<1>8. stream' \in [Conn -> Seq(ServerMessage)]
  <2>1. \A e \in Conn : stream'[e] \in Seq(ServerMessage)
    BY <1>6, <1>7
  <2> QED
    BY <1>1, <2>1 DEF SendTo
<1>9. NewestHasJoined' /\ NewestIsRegistered'
  BY <1>1 DEF IndInv, ServerInv, NewestHasJoined, NewestIsRegistered
<1>10. SilentBeforeJoin'
  <2> SUFFICES ASSUME NEW e \in Conn, joined[e] = NotJoined
               PROVE  OnlyErrors(stream'[e]) /\ \A x \in Client : View(x, stream'[e]) = NoView
    BY <1>1 DEF SilentBeforeJoin
  <2>1. e # d
    BY <1>5, PairIsNotNothing
  <2> QED
    BY <1>6, <2>1 DEF IndInv, ServerInv, SilentBeforeJoin
<1>11. ASSUME NEW r \in DOMAIN rooms, NEW x \in DOMAIN rooms[r]
       PROVE  Sees(x, stream'[rooms[r][x]], rooms[r])
  <2>1. Has(rooms, r, x, rooms[r][x])
    BY DEF Has
  <2>2. rooms[r][x] \in Conn /\ Sees(x, stream[rooms[r][x]], rooms[r])
    BY <2>1, RegisteredIsNewest
  <2>3. CASE rooms[r][x] # d
    BY <1>6, <2>2, <2>3
  <2>4. CASE rooms[r][x] = d
    <3>1. r = room /\ x = m.target
      BY <1>4, <2>1, <2>4, RegisteredOnce
    <3>2. Sees(m.target, Append(stream[d], m), peers)
      BY <1>1, <1>2, <1>3, <1>5, <1>6, SeesSignal
    <3> QED
      BY <1>6, <2>4, <3>1, <3>2 DEF peers
  <2> QED
    BY <2>3, <2>4
<1>12. ViewsFollow'
  BY <1>1, <1>11 DEF ViewsFollow
<1>13. SessionsKnown'
  <2> SUFFICES ASSUME NEW e \in Conn PROVE Known(joined[e][2], stream'[e])
    BY <1>1 DEF SessionsKnown
  <2>1. Known(joined[e][2], stream[e])
    BY DEF IndInv, ServerInv, SessionsKnown
  <2>2. CASE e # d
    BY <1>6, <2>1, <2>2
  <2>3. CASE e = d
    <3>1. joined[e][2] = m.target
      BY <1>5, <2>3
    <3>2. View(m.target, stream[d]).peers = peers
      BY <1>5 DEF Sees
    <3>3. m.client \in DOMAIN View(m.target, stream[d]).peers /\ View(m.target, stream[d]).peers[m.client] = m.signal
      BY <1>1, <1>2, <3>2
    <3>4. Known(m.target, stream[d])
      BY <2>1, <2>3, <3>1
    <3>5. Known(m.target, Append(stream[d], m))
      BY <1>3, <1>6, <3>3, <3>4, MessageAtTheEnd
    <3> QED
      BY <1>6, <2>3, <3>1, <3>5
  <2> QED
    BY <2>2, <2>3
<1>14. SignalsAnswered'
  <2>1. /\ \A n, box : /\ box \in Seq(ClientMessage) /\ box # <<>> /\ IsSignal(Head(box))
                       /\ Balanced(c, n, box, stream)
                       => Balanced(c, n, Tail(box), stream')
        /\ \A e \in Conn \ {c} : \A n, box : Balanced(e, n, box, stream) => Balanced(e, n, box, stream')
    BY <1>2, <1>3, <1>5, <1>6, BalancePassedOn
  <2>2. ASSUME status[c] # "gone", joined[c] # NotJoined => Has(rooms, joined[c][1], joined[c][2], c)
        PROVE  Balanced(c, signals[c], inbox'[c], stream')
    <3>1. Balanced(c, signals[c], before, stream)
      BY <2>2 DEF IndInv, SignalsAnswered, before
    <3> QED
      BY <1>2, <1>3, <2>1, <3>1 DEF m
  <2>3. SignalsAnswered
    BY DEF IndInv
  <2> QED
    BY <1>1, <1>2, <2>1, <2>2, <2>3, AnswersFollow
<1> QED
  BY <1>8, <1>9, <1>10, <1>12, <1>13, <1>14 DEF ServerInv

-----------------------------------------------------------------------------
(* A join.                                                                 *)

LEMMA JoinStep ==
  ASSUME IndInv, NEW c \in Conn, HandleJoin(c), newest' = [newest EXCEPT ![joined'[c]] = c],
         signals' = signals
  PROVE  /\ stream' \in [Conn -> Seq(ServerMessage)]
         /\ joined' \in [Conn -> (Room \X Client) \cup {NotJoined}]
         /\ newest' \in [Room \X Client -> Conn \cup {NotJoined}]
         /\ DOMAIN rooms' \subseteq Room
         /\ \A room \in DOMAIN rooms' : rooms'[room] \in Peers
         /\ \A d \in Conn \ {c} : joined'[d] = joined[d]
         /\ ServerInv' /\ SignalsAnswered'
<1> DEFINE room == Head(inbox[c]).room
           client == Head(inbox[c]).client
           before == PeersOf(room)
           peers == AddPeer(before, client, c)
           others == BroadcastExcept(peers, client)
           answer == Joined(peers)
           notice == PeerJoined(client, peers)
<1>1. /\ Reads(c, "join") /\ UNCHANGED <<status, finished>>
      /\ rooms'  = SetRoom(room, peers)
      /\ joined' = [joined EXCEPT ![c] = <<room, client>>]
      /\ stream' = [x \in Conn |->
                      CASE x = c      -> Append(stream[x], answer)
                        [] x \in others -> Append(stream[x], notice)
                        [] OTHER      -> stream[x]]
  BY DEF HandleJoin
<1>2. /\ Head(inbox[c]) \in ClientMessage /\ Head(inbox[c]).type = "join"
      /\ joined[c] = NotJoined /\ c \notin finished
      /\ inbox[c] \in Seq(ClientMessage) /\ inbox[c] # <<>> /\ inbox'[c] = Tail(inbox[c])
      /\ \A d \in Conn \ {c} : inbox'[d] = inbox[d]
  BY <1>1, ReadsTakesTheHead DEF IndInv
<1>3. room \in Room /\ client \in Client
  BY <1>2 DEF ClientMessage, CloseMsg, Signal
<1>4. /\ before \in Peers
      /\ \A x, d : x \in DOMAIN before /\ before[x] = d <=> Has(rooms, room, x, d)
  <2>1. CASE room \in DOMAIN rooms
    BY <2>1, PeersAreFunctions DEF PeersOf, Has, IndInv
  <2>2. CASE room \notin DOMAIN rooms
    <3>1. NoPeers \in [{} -> Conn] /\ {} \in SUBSET Client
      BY DEF NoPeers
    <3>2. NoPeers \in Peers /\ DOMAIN NoPeers = {}
      BY <3>1 DEF Peers
    <3>3. before = NoPeers
      BY <2>2 DEF PeersOf
    <3> QED
      BY <2>2, <3>2, <3>3 DEF Has
  <2> QED
    BY <2>1, <2>2
<1> HIDE DEF room, client, before
<1>5. PICK D \in SUBSET Client : before \in [D -> Conn]
  BY <1>4 DEF Peers
<1>6. /\ DOMAIN peers = DOMAIN before \cup {client}
      /\ peers[client] = c
      /\ \A x \in DOMAIN before : x # client => peers[x] = before[x]
      /\ others = {before[x] : x \in DOMAIN before \ {client}}
  <2>1. /\ DOMAIN peers = DOMAIN before \cup {client}
        /\ peers[client] = c
        /\ \A x \in DOMAIN before : x # client => peers[x] = before[x]
    BY DEF AddPeer
  <2>2. others = {peers[x] : x \in DOMAIN peers \ {client}}
    BY DEF BroadcastExcept
  <2> HIDE DEF peers, others
  <2>3. DOMAIN peers \ {client} = DOMAIN before \ {client}
    BY <2>1
  <2> QED
    BY <2>1, <2>2, <2>3
<1>7. peers \in Peers
  <2>1. DOMAIN peers \in SUBSET Client
    BY <1>3, <1>5, <1>6
  <2>2. peers \in [DOMAIN peers -> Conn]
    BY <1>5 DEF AddPeer
  <2> QED
    BY <2>1, <2>2 DEF Peers
<1>8. /\ answer \in ServerMessage /\ answer.type = "joined" /\ ~IsSignal(answer)
      /\ notice \in ServerMessage /\ notice.type = "peerJoined" /\ ~IsSignal(notice)
  BY <1>3, <1>7 DEF Joined, PeerJoined, ServerMessage, IsSignal
<1> HIDE DEF peers, others, answer, notice
<1>9. /\ DOMAIN rooms' = DOMAIN rooms \cup {room}
      /\ rooms'[room] = peers
      /\ \A other \in DOMAIN rooms : other # room => rooms'[other] = rooms[other]
  BY <1>1 DEF SetRoom
<1>10. DOMAIN rooms' \subseteq Room /\ \A other \in DOMAIN rooms' : rooms'[other] \in Peers
  <2>1. DOMAIN rooms \subseteq Room /\ \A other \in DOMAIN rooms : rooms[other] \in Peers
    BY DEF IndInv, TypesOK
  <2> QED
    BY <1>3, <1>7, <1>9, <2>1
<1>11. /\ joined'[c] = <<room, client>> /\ joined'[c] # NotJoined
       /\ \A d \in Conn \ {c} : joined'[d] = joined[d]
       /\ joined' \in [Conn -> (Room \X Client) \cup {NotJoined}]
  <2>1. joined \in [Conn -> (Room \X Client) \cup {NotJoined}]
    BY DEF IndInv, TypesOK
  <2> QED
    BY <1>1, <1>3, <2>1, PairIsNotNothing
<1>12. /\ newest' \in [Room \X Client -> Conn \cup {NotJoined}]
       /\ newest'[<<room, client>>] = c
       /\ \A place \in Room \X Client : place # <<room, client>> => newest'[place] = newest[place]
  <2>1. newest \in [Room \X Client -> Conn \cup {NotJoined}] /\ <<room, client>> \in Room \X Client
    BY <1>3 DEF IndInv, TypesOK
  <2>2. newest' = [newest EXCEPT ![<<room, client>>] = c]
    BY <1>11
  <2> QED
    BY <2>1, <2>2
\* Who is where afterwards.
<1>13. ASSUME NEW r, NEW x, NEW d
       PROVE  Has(rooms', r, x, d) <=> IF r = room /\ x = client THEN d = c ELSE Has(rooms, r, x, d)
  <2>1. CASE r = room /\ x = client
    BY <1>6, <1>9, <2>1 DEF Has
  <2>2. CASE r = room /\ x # client
    <3>1. Has(rooms', r, x, d) <=> x \in DOMAIN before /\ before[x] = d
      BY <1>6, <1>9, <2>2 DEF Has
    <3> QED
      BY <1>4, <2>2, <3>1
  <2>3. CASE r # room
    BY <1>9, <2>3 DEF Has
  <2> QED
    BY <2>1, <2>2, <2>3
<1>14. \A d : d \in others <=> \E x : x # client /\ Has(rooms, room, x, d)
  BY <1>4, <1>6
<1>15. ASSUME NEW d \in others
       PROVE  d \in Conn /\ d # c /\ joined[d] # NotJoined
  <2>1. PICK x : Has(rooms, room, x, d)
    BY <1>14
  <2>2. d \in Conn /\ joined[d] = <<room, x>>
    BY <2>1, RegisteredIsNewest
  <2> QED
    BY <1>2, <2>2, PairIsNotNothing
<1>16. ASSUME NEW d \in Conn, d # c
       PROVE  stream'[d] = IF d \in others THEN Append(stream[d], notice) ELSE stream[d]
  BY <1>1, <1>16
<1>17. stream'[c] = Append(stream[c], answer)
  <2>1. c \notin others
    BY <1>15
  <2> QED
    BY <1>1, <2>1
<1>18. \A d \in Conn : stream[d] \in Seq(ServerMessage)
  BY DEF IndInv, TypesOK
<1>19. stream' \in [Conn -> Seq(ServerMessage)]
  <2>1. ASSUME NEW d \in Conn PROVE stream'[d] \in Seq(ServerMessage)
    <3>1. /\ stream[d] \in Seq(ServerMessage)
          /\ Append(stream[d], answer) \in Seq(ServerMessage) /\ Append(stream[d], notice) \in Seq(ServerMessage)
      BY <1>8, <1>18, AppendProperties
    <3> QED
      BY <1>16, <1>17, <3>1
  <2>2. stream' = [d \in Conn |-> stream'[d]]
    BY <1>1
  <2> QED
    BY <2>1, <2>2
<1>20. /\ OnlyErrors(stream[c])
       /\ View(client, stream[c]) = NoView
  BY <1>2, <1>3 DEF IndInv, ServerInv, SilentBeforeJoin
<1>21. NewestHasJoined'
  <2> SUFFICES ASSUME NEW r \in Room, NEW x \in Client, newest'[<<r, x>>] # NotJoined
               PROVE  joined'[newest'[<<r, x>>]] = <<r, x>>
    BY DEF NewestHasJoined
  <2>1. CASE r = room /\ x = client
    BY <1>11, <1>12, <2>1
  <2>2. CASE ~(r = room /\ x = client)
    <3>1. newest'[<<r, x>>] = newest[<<r, x>>] /\ newest[<<r, x>>] \in Conn
      BY <1>12, <2>2 DEF IndInv, TypesOK
    <3>2. joined[newest[<<r, x>>]] = <<r, x>>
      BY <3>1 DEF IndInv, ServerInv, NewestHasJoined
    <3> DEFINE e == newest[<<r, x>>]
    <3>3. e \in Conn /\ joined[e] = <<r, x>> /\ newest'[<<r, x>>] = e
      BY <3>1, <3>2
    <3> HIDE DEF e
    <3>4. e # c
      BY <1>2, <3>3, PairIsNotNothing
    <3> QED
      BY <1>11, <3>3, <3>4
  <2> QED
    BY <2>1, <2>2
<1>22. NewestIsRegistered'
  <2> SUFFICES ASSUME NEW r \in Room, NEW x \in Client, NEW d \in Conn
               PROVE  Has(rooms', r, x, d) <=> newest'[<<r, x>>] = d /\ d \notin finished
    BY <1>1 DEF NewestIsRegistered
  <2>1. CASE r = room /\ x = client
    <3>1. Has(rooms', r, x, d) <=> d = c
      BY <1>13, <2>1
    <3> QED
      BY <1>2, <1>12, <2>1, <3>1
  <2>2. CASE ~(r = room /\ x = client)
    <3>1. Has(rooms', r, x, d) <=> Has(rooms, r, x, d)
      BY <1>13, <2>2
    <3>2. newest'[<<r, x>>] = newest[<<r, x>>]
      BY <1>12, <2>2
    <3> QED
      BY <3>1, <3>2 DEF IndInv, ServerInv, NewestIsRegistered
  <2> QED
    BY <2>1, <2>2
<1>23. SilentBeforeJoin'
  <2> SUFFICES ASSUME NEW d \in Conn, joined'[d] = NotJoined
               PROVE  OnlyErrors(stream'[d]) /\ \A x \in Client : View(x, stream'[d]) = NoView
    BY DEF SilentBeforeJoin
  <2>1. d # c /\ joined[d] = NotJoined
    BY <1>11
  <2>2. d \notin others
    BY <1>15, <2>1
  <2> QED
    BY <1>16, <2>1, <2>2 DEF IndInv, ServerInv, SilentBeforeJoin
<1>24. ASSUME NEW r \in DOMAIN rooms', NEW x \in DOMAIN rooms'[r], NEW d, d = rooms'[r][x]
       PROVE  Sees(x, stream'[d], rooms'[r])
  <2>1. Has(rooms', r, x, d)
    BY <1>24 DEF Has
  <2>2. CASE r = room /\ x = client
    <3>1. d = c /\ rooms'[r] = peers
      BY <1>9, <1>13, <2>1, <2>2
    <3>2. Sees(client, Append(stream[c], answer), peers)
      BY <1>8, <1>18, <1>20, SeesJoined DEF answer
    <3> QED
      BY <1>17, <2>2, <3>1, <3>2
  <2>3. CASE r = room /\ x # client
    <3>1. Has(rooms, room, x, d) /\ rooms'[r] = peers
      BY <1>9, <1>13, <2>1, <2>3
    <3>2. d \in others /\ d \in Conn /\ d # c
      BY <1>14, <1>15, <2>3, <3>1
    <3>3. Sees(x, stream[d], rooms[room]) /\ room \in DOMAIN rooms
      BY <3>1, RegisteredIsNewest
    <3>4. rooms[room] = before
      BY <3>3 DEF before, PeersOf
    <3>5. Sees(x, Append(stream[d], notice), peers)
      BY <1>6, <1>8, <1>18, <2>3, <3>2, <3>3, <3>4, SeesPeerJoined DEF notice
    <3> QED
      BY <1>16, <3>1, <3>2, <3>5
  <2>4. CASE r # room
    <3>1. Has(rooms, r, x, d) /\ rooms'[r] = rooms[r]
      BY <1>9, <1>13, <2>1, <2>4
    <3>2. d \in Conn /\ d # c /\ Sees(x, stream[d], rooms[r])
      <4>1. d \in Conn /\ joined[d] = <<r, x>> /\ Sees(x, stream[d], rooms[r])
        BY <3>1, RegisteredIsNewest
      <4> QED
        BY <1>2, <4>1, PairIsNotNothing
    <3>3. d \notin others
      BY <1>14, <2>4, <3>1, RegisteredOnce
    <3> QED
      BY <1>16, <3>1, <3>2, <3>3
  <2> QED
    BY <2>2, <2>3, <2>4
<1>25. ViewsFollow'
  BY <1>24 DEF ViewsFollow
<1>26. SessionsKnown'
  <2> SUFFICES ASSUME NEW d \in Conn PROVE Known(joined'[d][2], stream'[d])
    BY DEF SessionsKnown
  <2>1. CASE d = c
    <3>1. Known(client, stream[c])
      BY <1>8, <1>18, <1>20, MessageAtTheEnd
    <3>2. Known(client, Append(stream[c], answer))
      BY <1>8, <1>18, <3>1, MessageAtTheEnd
    <3>3. joined'[c][2] = client
      BY <1>11
    <3> QED
      BY <1>17, <2>1, <3>2, <3>3
  <2>2. CASE d # c
    <3>1. Known(joined[d][2], stream[d]) /\ joined'[d] = joined[d]
      BY <1>11, <2>2 DEF IndInv, ServerInv, SessionsKnown
    <3>2. Known(joined[d][2], Append(stream[d], notice))
      BY <1>8, <1>18, <3>1, MessageAtTheEnd
    <3> QED
      BY <1>16, <2>2, <3>1, <3>2
  <2> QED
    BY <2>1, <2>2
<1>27. SignalsAnswered'
  <2>1. stream \in [Conn -> Seq(ServerMessage)]
    BY DEF IndInv, TypesOK
  <2>2. ASSUME NEW d \in Conn
        PROVE  \/ stream'[d] = stream[d]
               \/ \E m \in ServerMessage : m.type \notin {"signal", "error"} /\ stream'[d] = Append(stream[d], m)
    BY <1>8, <1>16, <1>17
  <2>3. \A d \in Conn : \A n, box : Balanced(d, n, box, stream) => Balanced(d, n, box, stream')
    BY <2>1, <2>2, BalanceKept
  <2>4. ASSUME status[c] # "gone" PROVE Balanced(c, signals[c], inbox'[c], stream')
    <3>1. Balanced(c, signals[c], inbox[c], stream')
      BY <1>2, <2>3, <2>4 DEF IndInv, SignalsAnswered
    <3>2. ~IsSignal(Head(inbox[c]))
      BY <1>2 DEF IsSignal
    <3> QED
      BY <1>2, <3>1, <3>2, BalanceOfTail
  <2>5. \A d \in Conn \ {c} : \A r, x : Has(rooms', r, x, d) => Has(rooms, r, x, d)
    BY <1>13
  <2>6. SignalsAnswered
    BY DEF IndInv
  <2> QED
    BY <1>1, <1>2, <1>11, <2>3, <2>4, <2>5, <2>6, AnswersFollow
<1> QED
  BY <1>10, <1>11, <1>12, <1>19, <1>21, <1>22, <1>23, <1>25, <1>26, <1>27 DEF ServerInv

-----------------------------------------------------------------------------
(* The end of a connection.                                                *)

LEMMA NewestAfterClose ==
  ASSUME IndInv, NEW c \in Conn, UNCHANGED <<joined, newest>>, finished' = finished \cup {c},
         \A r, x, d : Has(rooms', r, x, d) <=> Has(rooms, r, x, d) /\ d # c
  PROVE  NewestHasJoined' /\ NewestIsRegistered'
BY DEF IndInv, ServerInv, NewestHasJoined, NewestIsRegistered

\* Who has left has no claim to an answer; who never was in a room keeps the balance.
LEMMA AnswersAfterClose ==
  ASSUME IndInv, NEW c \in Conn, Reads(c, "close"), UNCHANGED <<joined, status, signals>>,
         \A r, x, d : Has(rooms', r, x, d) <=> Has(rooms, r, x, d) /\ d # c,
         \A d \in Conn : \A n, box : Balanced(d, n, box, stream) => Balanced(d, n, box, stream')
  PROVE  SignalsAnswered'
<1>1. /\ inbox[c] \in Seq(ClientMessage) /\ inbox[c] # <<>> /\ inbox'[c] = Tail(inbox[c])
      /\ \A d \in Conn \ {c} : inbox'[d] = inbox[d]
      /\ ~IsSignal(Head(inbox[c]))
  BY ReadsTakesTheHead DEF IndInv, IsSignal
<1>2. ASSUME status[c] # "gone", joined[c] # NotJoined => Has(rooms', joined[c][1], joined[c][2], c)
      PROVE  Balanced(c, signals[c], inbox'[c], stream')
  <2>1. joined[c] = NotJoined
    BY <1>2
  <2>2. Balanced(c, signals[c], inbox[c], stream')
    BY <1>2, <2>1 DEF IndInv, SignalsAnswered
  <2> QED
    BY <1>1, <2>2, BalanceOfTail
<1>3. SignalsAnswered
  BY DEF IndInv
<1> QED
  BY <1>1, <1>2, <1>3, AnswersFollow

LEMMA CloseStep ==
  ASSUME IndInv, NEW c \in Conn, HandleClose(c), UNCHANGED <<newest, signals>>
  PROVE  /\ stream' \in [Conn -> Seq(ServerMessage)]
         /\ finished' \subseteq Conn
         /\ DOMAIN rooms' \subseteq Room
         /\ \A room \in DOMAIN rooms' : rooms'[room] \in Peers
         /\ ServerInv' /\ SignalsAnswered'
<1>1. /\ finished' = finished \cup {c} /\ UNCHANGED <<joined, status>> /\ finished' \subseteq Conn
      /\ Reads(c, "close")
  BY DEF HandleClose, IndInv, TypesOK
\* A connection that is nobody in its room, or has none: nothing is said.
<1>2. ASSUME stream' = stream,
             \A r, x : ~Has(rooms, r, x, c),
             DOMAIN rooms' \subseteq DOMAIN rooms,
             \A r \in DOMAIN rooms' : rooms'[r] = rooms[r],
             \A r, x, d : Has(rooms, r, x, d) => r \in DOMAIN rooms'
      PROVE  /\ stream' \in [Conn -> Seq(ServerMessage)]
             /\ DOMAIN rooms' \subseteq Room
             /\ \A room \in DOMAIN rooms' : rooms'[room] \in Peers
             /\ ServerInv' /\ SignalsAnswered'
  <2>1. \A r, x, d : Has(rooms', r, x, d) <=> Has(rooms, r, x, d) /\ d # c
    BY <1>2 DEF Has
  <2>2. NewestHasJoined' /\ NewestIsRegistered'
    BY <1>1, <2>1, NewestAfterClose
  <2>3. SignalsAnswered'
    BY <1>1, <1>2, <2>1, AnswersAfterClose
  <2>4. SilentBeforeJoin' /\ SessionsKnown'
    BY <1>1, <1>2 DEF IndInv, ServerInv, SilentBeforeJoin, SessionsKnown
  <2>5. ViewsFollow'
    BY <1>2 DEF IndInv, ServerInv, ViewsFollow
  <2> QED
    BY <1>2, <2>2, <2>3, <2>4, <2>5 DEF ServerInv, IndInv, TypesOK
<1>3. CASE joined[c] = NotJoined \/ joined[c][1] \notin DOMAIN rooms
  <2>1. rooms' = rooms /\ stream' = stream
    BY <1>3 DEF HandleClose
  <2>2. ASSUME NEW r, NEW x, Has(rooms, r, x, c) PROVE FALSE
    <3>1. r \in DOMAIN rooms /\ joined[c] = <<r, x>>
      BY <2>2, RegisteredIsNewest
    <3> QED
      BY <1>3, <3>1, PairIsNotNothing
  <2>3. \A r, x, d : Has(rooms, r, x, d) => r \in DOMAIN rooms'
    BY <2>1 DEF Has
  <2> QED
    BY <1>1, <1>2, <2>1, <2>2, <2>3
<1>4. CASE joined[c] # NotJoined /\ joined[c][1] \in DOMAIN rooms
  <2> DEFINE room == joined[c][1]
             client == joined[c][2]
             before == rooms[room]
             after == RemovePeer(before, client, c)
             others == BroadcastExcept(after, client)
             notice == PeerLeft(client, after)
  <2>1. /\ room \in DOMAIN rooms
        /\ stream' = IF after = before THEN stream ELSE SendTo(others, notice)
        /\ rooms' = RoomsAfterClose(room, after)
    BY <1>4 DEF HandleClose
  <2>2. joined[c] = <<room, client>> /\ room \in Room /\ client \in Client
    BY <1>4 DEF IndInv, TypesOK
  <2>3. before \in Peers /\ DOMAIN before \subseteq Client /\ before \in [DOMAIN before -> Conn]
    BY <2>1, PeersAreFunctions DEF IndInv
  <2>4. ASSUME NEW r, NEW x, Has(rooms, r, x, c)
        PROVE  r = room /\ x = client
    <3>1. joined[c] = <<r, x>>
      BY <2>4, RegisteredIsNewest
    <3> QED
      BY <3>1
  <2>5. \A x, d : Has(rooms, room, x, d) <=> x \in DOMAIN before /\ before[x] = d
    BY <2>1 DEF Has
  <2>6. IsActiveSender(before, client, c) <=> Has(rooms, room, client, c)
    BY <2>5 DEF IsActiveSender
  <2>7. /\ DOMAIN rooms' \subseteq DOMAIN rooms
        /\ \A r \in DOMAIN rooms : r # room => r \in DOMAIN rooms' /\ rooms'[r] = rooms[r]
        /\ room \in DOMAIN rooms' => rooms'[room] = after
        /\ room \notin DOMAIN rooms' => DOMAIN after = {}
    <3> HIDE DEF room, after
    <3>1. CASE after = NoPeers
      <4>1. rooms' = [other \in DOMAIN rooms \ {room} |-> rooms[other]]
        BY <2>1, <3>1 DEF RoomsAfterClose, Restrict
      <4>2. DOMAIN after = {}
        BY <3>1 DEF NoPeers
      <4> QED
        BY <4>1, <4>2
    <3>2. CASE after # NoPeers
      <4>1. rooms' = [other \in DOMAIN rooms \cup {room} |-> IF other = room THEN after ELSE rooms[other]]
        BY <2>1, <3>2 DEF RoomsAfterClose, SetRoom
      <4> QED
        BY <2>1, <4>1
    <3> QED
      BY <3>1, <3>2
  <2> HIDE DEF room, client, before, after, others, notice
  <2>8. CASE ~Has(rooms, room, client, c)
    <3>1. after = before
      BY <2>6, <2>8 DEF after, RemovePeer
    <3>2. \A r, x : ~Has(rooms, r, x, c)
      BY <2>4, <2>8
    <3>3. \A r, x, d : Has(rooms, r, x, d) => r \in DOMAIN rooms'
      BY <2>5, <2>7, <3>1 DEF Has
    <3>4. \A r \in DOMAIN rooms' : rooms'[r] = rooms[r]
      BY <2>7, <3>1 DEF before
    <3>5. stream' = stream
      BY <2>1, <3>1
    <3> QED
      BY <1>1, <1>2, <2>7, <3>2, <3>3, <3>4, <3>5
\* The peer leaves, and those that stay are told.
  <2>9. CASE Has(rooms, room, client, c)
    <3>1. after = [x \in DOMAIN before \ {client} |-> before[x]]
      BY <2>6, <2>9 DEF after, RemovePeer, Restrict
    <3>2. /\ DOMAIN after = DOMAIN before \ {client}
          /\ \A x \in DOMAIN after : after[x] = before[x]
          /\ after # before
      BY <2>5, <2>9, <3>1
    <3>3. after \in Peers
      <4>1. DOMAIN after \in SUBSET Client /\ after \in [DOMAIN after -> Conn]
        BY <2>3, <3>1, <3>2
      <4> QED
        BY <4>1 DEF Peers
    <3>4. notice \in ServerMessage /\ notice.type = "peerLeft" /\ ~IsSignal(notice)
      BY <2>2, <3>3 DEF notice, PeerLeft, ServerMessage, IsSignal
    <3>5. \A d : d \in others <=> \E x : x # client /\ Has(rooms, room, x, d)
      BY <2>5, <3>2 DEF others, BroadcastExcept
    <3>6. \A d \in Conn : /\ stream[d] \in Seq(ServerMessage)
                          /\ Append(stream[d], notice) \in Seq(ServerMessage)
                          /\ stream'[d] = IF d \in others THEN Append(stream[d], notice) ELSE stream[d]
      <4>1. stream' = SendTo(others, notice) /\ stream \in [Conn -> Seq(ServerMessage)]
        BY <2>1, <3>2 DEF IndInv, TypesOK
      <4> QED
        BY <3>4, <4>1, AppendProperties DEF SendTo
    <3>7. stream' \in [Conn -> Seq(ServerMessage)]
      <4>1. \A d \in Conn : stream'[d] \in Seq(ServerMessage)
        BY <3>6
      <4> QED
        BY <2>1, <3>2, <4>1 DEF SendTo
    <3>8. ASSUME NEW r, NEW x, NEW d
          PROVE  Has(rooms', r, x, d) <=> Has(rooms, r, x, d) /\ d # c
      <4>1. CASE r # room
        <5>1. Has(rooms', r, x, d) <=> Has(rooms, r, x, d)
          BY <2>7, <4>1 DEF Has
        <5> QED
          BY <2>4, <4>1, <5>1
      <4>2. CASE r = room
        <5>1. Has(rooms', r, x, d) <=> x \in DOMAIN after /\ after[x] = d
          BY <2>7, <4>2 DEF Has
        <5>2. Has(rooms', r, x, d) <=> x \in DOMAIN before /\ before[x] = d /\ x # client
          BY <3>2, <5>1
        <5>3. Has(rooms, r, x, d) => (x # client <=> d # c)
          BY <2>4, <2>5, <2>9, <4>2
        <5> QED
          BY <2>5, <4>2, <5>2, <5>3
      <4> QED
        BY <4>1, <4>2
    <3>9. NewestHasJoined' /\ NewestIsRegistered'
      BY <1>1, <3>8, NewestAfterClose
    <3>10. SilentBeforeJoin'
      <4> SUFFICES ASSUME NEW d \in Conn, joined[d] = NotJoined
                   PROVE  OnlyErrors(stream'[d]) /\ \A x \in Client : View(x, stream'[d]) = NoView
        BY <1>1 DEF SilentBeforeJoin
      <4>1. d \notin others
        <5> SUFFICES ASSUME NEW x, Has(rooms, room, x, d) PROVE FALSE
          BY <3>5
        <5>1. joined[d] = <<room, x>>
          BY RegisteredIsNewest
        <5> QED
          BY <5>1, PairIsNotNothing
      <4> QED
        BY <3>6, <4>1 DEF IndInv, ServerInv, SilentBeforeJoin
    <3>11. ASSUME NEW r \in DOMAIN rooms', NEW x \in DOMAIN rooms'[r], NEW d, d = rooms'[r][x]
           PROVE  Sees(x, stream'[d], rooms'[r])
      <4>1. Has(rooms, r, x, d)
        BY <3>8, <3>11 DEF Has
      <4>2. d \in Conn /\ Sees(x, stream[d], rooms[r])
        BY <4>1, RegisteredIsNewest
      <4>3. CASE r # room
        <5>1. d \notin others
          BY <3>5, <4>1, <4>3, RegisteredOnce
        <5> QED
          BY <2>7, <3>6, <4>2, <4>3, <5>1
      <4>4. CASE r = room
        <5>1. rooms'[r] = after /\ x # client /\ d \in others
          BY <2>7, <3>2, <3>5, <3>11, <4>1, <4>4
        <5>2. Sees(x, stream[d], before)
          BY <4>2, <4>4 DEF before
        <5>3. Sees(x, Append(stream[d], notice), after)
          BY <3>2, <3>4, <3>6, <4>2, <5>2, SeesPeerLeft DEF notice
        <5> QED
          BY <3>6, <4>2, <5>1, <5>3
      <4> QED
        BY <4>3, <4>4
    <3>12. ViewsFollow'
      BY <3>11 DEF ViewsFollow
    <3>13. SessionsKnown'
      <4> SUFFICES ASSUME NEW d \in Conn PROVE Known(joined[d][2], stream'[d])
        BY <1>1 DEF SessionsKnown
      <4>1. Known(joined[d][2], stream[d])
        BY DEF IndInv, ServerInv, SessionsKnown
      <4>2. Known(joined[d][2], Append(stream[d], notice))
        BY <3>4, <3>6, <4>1, MessageAtTheEnd
      <4> QED
        BY <3>6, <4>1, <4>2
    <3>14. SignalsAnswered'
      <4>1. stream \in [Conn -> Seq(ServerMessage)]
        BY DEF IndInv, TypesOK
      <4>2. ASSUME NEW d \in Conn
            PROVE  \/ stream'[d] = stream[d]
                   \/ \E m \in ServerMessage : m.type \notin {"signal", "error"} /\ stream'[d] = Append(stream[d], m)
        BY <3>4, <3>6
      <4>3. \A d \in Conn : \A n, box : Balanced(d, n, box, stream) => Balanced(d, n, box, stream')
        BY <4>1, <4>2, BalanceKept
      <4> QED
        BY <1>1, <3>8, <4>3, AnswersAfterClose
    <3>15. DOMAIN rooms' \subseteq Room /\ \A r \in DOMAIN rooms' : rooms'[r] \in Peers
      <4>1. DOMAIN rooms \subseteq Room /\ \A r \in DOMAIN rooms : rooms[r] \in Peers
        BY DEF IndInv, TypesOK
      <4> QED
        BY <2>7, <3>3, <4>1
    <3> QED
      BY <1>1, <3>7, <3>9, <3>10, <3>12, <3>13, <3>14, <3>15 DEF ServerInv
  <2> QED
    BY <2>8, <2>9
<1> QED
  BY <1>3, <1>4

-----------------------------------------------------------------------------
(* The steps together.                                                     *)

LEMMA InitIndInv == Init => IndInv
<1> SUFFICES ASSUME Init PROVE IndInv
  OBVIOUS
<1>1. /\ joined = [c \in Conn |-> NotJoined] /\ inbox = [c \in Conn |-> <<>>]
      /\ stream = [c \in Conn |-> <<>>] /\ status = [c \in Conn |-> "unused"]
      /\ finished = {} /\ signals = [c \in Conn |-> 0]
      /\ newest = [place \in Room \X Client |-> NotJoined]
      /\ DOMAIN rooms = {}
  BY DEF Init, ServerInit, ConnInit
<1>2. \A S : <<>> \in Seq(S) /\ DOMAIN <<>> = {}
  OBVIOUS
<1>3. TypesOK
  BY <1>1, <1>2 DEF TypesOK
<1>4. InboxInv
  BY <1>1, <1>2 DEF InboxInv, BoxOK, NoJoins
<1>5. NewestHasJoined /\ ViewsFollow
  BY <1>1 DEF NewestHasJoined, ViewsFollow
<1>6. SilentBeforeJoin
  BY <1>1, <1>2, ViewOfNothing DEF SilentBeforeJoin, OnlyErrors
<1>7. NewestIsRegistered
  <2> SUFFICES ASSUME NEW room \in Room, NEW client \in Client, NEW c \in Conn
               PROVE  ~Has(rooms, room, client, c) /\ newest[<<room, client>>] # c
    BY DEF NewestIsRegistered
  <2> QED
    BY <1>1, ConnAssumption DEF Has
<1>8. SessionsKnown
  BY <1>1, <1>2 DEF SessionsKnown, Known
<1>9. SignalsAnswered
  <2> SUFFICES ASSUME NEW c \in Conn PROVE Balanced(c, signals[c], inbox[c], stream)
    BY DEF SignalsAnswered
  <2>1. Signals(inbox[c]) = {} /\ Errors(stream[c]) = {}
    BY <1>1, <1>2 DEF Signals, Errors
  <2>2. PassedIn(stream, c) = {}
    BY <1>1, <1>2, PassedInMembers DEF IsPassed
  <2>3. IsFiniteSet({}) /\ Cardinality({}) = 0
    BY FS_EmptySet
  <2>4. signals[c] = 0
    BY <1>1
  <2>5. IsFiniteSet(PassedIn(stream, c)) /\ Cardinality(PassedIn(stream, c)) = 0
    BY <2>2, <2>3
  <2>6. Cardinality(Signals(inbox[c])) = 0 /\ Cardinality(Errors(stream[c])) = 0
    BY <2>1, <2>3
  <2>7. 0 = 0 + 0 + 0
    OBVIOUS
  <2> QED
    BY <2>4, <2>5, <2>6, <2>7 DEF Balanced
<1> QED
  BY <1>3, <1>4, <1>5, <1>6, <1>7, <1>8, <1>9 DEF IndInv, ServerInv

LEMMA HandlerStep ==
  ASSUME IndInv, NEW c \in Conn, Handler(c)
  PROVE  IndInv'
<1>1. UNCHANGED <<signals, asked>>
  BY DEF Handler
<1>2. CASE HandleJoin(c)
  <2>1. Reads(c, "join") /\ UNCHANGED <<status, finished>>
    BY <1>2 DEF HandleJoin
  <2>2. joined' # joined
    <3>1. joined[c] = NotJoined
      BY <2>1, ReadsTakesTheHead DEF IndInv
    <3>2. joined'[c] = <<Head(inbox[c]).room, Head(inbox[c]).client>>
      BY <1>2 DEF HandleJoin, IndInv, TypesOK
    <3> QED
      BY <3>1, <3>2, PairIsNotNothing
  <2>3. newest' = [newest EXCEPT ![joined'[c]] = c]
    BY <2>2 DEF Handler
  <2>4. /\ stream' \in [Conn -> Seq(ServerMessage)]
        /\ joined' \in [Conn -> (Room \X Client) \cup {NotJoined}]
        /\ newest' \in [Room \X Client -> Conn \cup {NotJoined}]
        /\ DOMAIN rooms' \subseteq Room
        /\ \A room \in DOMAIN rooms' : rooms'[room] \in Peers
        /\ \A d \in Conn \ {c} : joined'[d] = joined[d]
        /\ ServerInv' /\ SignalsAnswered'
    BY <1>1, <1>2, <2>3, JoinStep
  <2>5. TypesOK'
    BY <1>1, <2>1, <2>4, ReadsTakesTheHead DEF IndInv, TypesOK
  <2>6. InboxInv'
    <3> SUFFICES ASSUME NEW d \in Conn
                 PROVE  /\ BoxOK(d, inbox'[d])
                        /\ joined'[d] # NotJoined => d \in asked'
                        /\ d \notin asked' \/ joined'[d] # NotJoined => NoJoins(inbox'[d])
                        /\ status'[d] = "unused" => inbox'[d] = <<>>
      BY DEF InboxInv
    <3>1. BoxOK(d, inbox'[d])
      BY <2>1, ReadsTakesTheHead DEF IndInv
    <3>2. CASE d = c
      BY <1>1, <2>1, <3>1, <3>2, ReadsTakesTheHead DEF IndInv
    <3>3. CASE d # c
      <4>1. inbox'[d] = inbox[d] /\ joined'[d] = joined[d]
        BY <2>1, <2>4, <3>3, ReadsTakesTheHead DEF IndInv
      <4> QED
        BY <1>1, <2>1, <3>1, <4>1 DEF IndInv, InboxInv
    <3> QED
      BY <3>2, <3>3
  <2> QED
    BY <2>4, <2>5, <2>6 DEF IndInv
<1>3. CASE ~HandleJoin(c)
  <2>1. UNCHANGED <<joined, status>> /\ newest' = newest
    BY <1>3 DEF Handler, Handle, RejectSignal, IgnoreSignal, ForwardSignal, TargetNotConnected, HandleClose
  <2>2. PICK type \in {"signal", "close"} : Reads(c, type)
    BY <1>3 DEF Handler, Handle, RejectSignal, IgnoreSignal, ForwardSignal, TargetNotConnected, MaySignal, HandleClose
  <2>3. InboxInv'
    <3> SUFFICES ASSUME NEW d \in Conn
                 PROVE  /\ BoxOK(d, inbox'[d])
                        /\ joined'[d] # NotJoined => d \in asked'
                        /\ d \notin asked' \/ joined'[d] # NotJoined => NoJoins(inbox'[d])
                        /\ status'[d] = "unused" => inbox'[d] = <<>>
      BY DEF InboxInv
    <3>1. /\ BoxOK(d, inbox'[d])
          /\ NoJoins(inbox[c]) => NoJoins(inbox'[c])
          /\ status[c] # "unused"
          /\ d # c => inbox'[d] = inbox[d]
      BY <2>2, ReadsTakesTheHead DEF IndInv
    <3>2. /\ joined[d] # NotJoined => d \in asked
          /\ d \notin asked \/ joined[d] # NotJoined => NoJoins(inbox[d])
          /\ status[d] = "unused" => inbox[d] = <<>>
      BY DEF IndInv, InboxInv
    <3> QED
      BY <1>1, <2>1, <3>1, <3>2
  <2>4. /\ stream' \in [Conn -> Seq(ServerMessage)] /\ finished' \subseteq Conn
        /\ DOMAIN rooms' \subseteq Room /\ \A room \in DOMAIN rooms' : rooms'[room] \in Peers
        /\ ServerInv' /\ SignalsAnswered'
    <3>1. finished \subseteq Conn /\ DOMAIN rooms \subseteq Room /\ \A room \in DOMAIN rooms : rooms[room] \in Peers
      BY DEF IndInv, TypesOK
    <3>2. CASE RejectSignal(c) \/ TargetNotConnected(c)
      <4>1. Reads(c, "signal") /\ stream' = Refuse(c) /\ UNCHANGED <<rooms, joined, status, finished>>
        BY <3>2 DEF RejectSignal, TargetNotConnected, MaySignal
      <4>2. stream' \in [Conn -> Seq(ServerMessage)] /\ ServerInv' /\ SignalsAnswered'
        BY <1>1, <2>1, <4>1, RefusedStep
      <4> QED
        BY <3>1, <4>1, <4>2
    <3>3. CASE IgnoreSignal(c)
      <4>1. UNCHANGED <<rooms, finished>>
        BY <3>3 DEF IgnoreSignal
      <4> QED
        BY <1>1, <2>1, <3>1, <3>3, <4>1, IgnoredStep
    <3>4. CASE ForwardSignal(c)
      <4>1. UNCHANGED <<rooms, finished>>
        BY <3>4 DEF ForwardSignal
      <4> QED
        BY <1>1, <2>1, <3>1, <3>4, <4>1, ForwardStep
    <3>5. CASE HandleClose(c)
      BY <1>1, <2>1, <3>5, CloseStep
    <3> QED
      BY <1>3, <3>2, <3>3, <3>4, <3>5 DEF Handler, Handle
  <2>5. inbox' \in [Conn -> Seq(ClientMessage)]
    BY <2>2, ReadsTakesTheHead DEF IndInv
  <2>6. TypesOK'
    BY <1>1, <2>1, <2>4, <2>5 DEF IndInv, TypesOK
  <2> QED
    BY <2>3, <2>4, <2>6 DEF IndInv
<1> QED
  BY <1>2, <1>3

\* The clients and the network do not touch the server.
LEMMA ServerUntouched == ServerInv /\ UNCHANGED <<rooms, joined, newest, finished, stream>> => ServerInv'
BY DEF ServerInv, NewestHasJoined, NewestIsRegistered, SilentBeforeJoin, ViewsFollow, SessionsKnown

\* What is sent is with the server.
LEMMA BalanceSent ==
  ASSUME NEW f \in [Conn -> Seq(ServerMessage)], NEW c \in Conn, NEW n, NEW box \in Seq(ClientMessage),
         NEW m \in ClientMessage, Balanced(c, n, box, f)
  PROVE  Balanced(c, IF IsSignal(m) THEN n + 1 ELSE n, Append(box, m), f)
<1>1. /\ Cardinality(Signals(box)) \in Nat
      /\ Cardinality(Signals(Append(box, m))) = Cardinality(Signals(box)) + IF IsSignal(m) THEN 1 ELSE 0
  BY CountAtTheEnd
<1>2. Cardinality(Errors(f[c])) \in Nat
  <2>1. f[c] \in Seq(ServerMessage) /\ Error \in ServerMessage
    BY ErrorIsNoNews
  <2> QED
    BY <2>1, CountAtTheEnd
<1>3. IsFiniteSet(PassedIn(f, c)) /\ Cardinality(PassedIn(f, c)) \in Nat
  BY FS_CardinalityType DEF Balanced
<1>4. n = Cardinality(Signals(box)) + Cardinality(Errors(f[c])) + Cardinality(PassedIn(f, c))
  BY DEF Balanced
<1>5. CASE IsSignal(m)
  BY <1>1, <1>2, <1>3, <1>4, <1>5 DEF Balanced
<1>6. CASE ~IsSignal(m)
  BY <1>1, <1>2, <1>3, <1>4, <1>6 DEF Balanced
<1> QED
  BY <1>5, <1>6

LEMMA SendStep ==
  ASSUME IndInv, NEW c \in Conn, NEW m \in ClientMessage, Send(c, m),
         UNCHANGED <<rooms, newest>>,
         signals' = IF IsSignal(m) THEN [signals EXCEPT ![c] = @ + 1] ELSE signals,
         IsJoin(m) => c \notin asked, asked' = IF IsJoin(m) THEN asked \cup {c} ELSE asked,
         IsSignal(m) => m.signal = c /\ m.target # m.client
  PROVE  IndInv'
<1> DEFINE box == inbox[c]
<1>1. /\ box \in Seq(ClientMessage) /\ status[c] = "open"
      /\ inbox' = [inbox EXCEPT ![c] = Append(box, m)]
      /\ inbox \in [Conn -> Seq(ClientMessage)]
      /\ UNCHANGED <<joined, stream, status, finished>>
  BY DEF Send, IndInv, TypesOK
<1>2. /\ BoxOK(c, box) /\ (joined[c] # NotJoined => c \in asked)
      /\ c \notin asked \/ joined[c] # NotJoined => NoJoins(box)
  BY DEF IndInv, InboxInv
<1> HIDE DEF box
<1>3. /\ Append(box, m) \in Seq(ClientMessage) /\ BoxOK(c, Append(box, m))
      /\ NoJoins(box) /\ ~IsJoin(m) => NoJoins(Append(box, m))
  BY <1>1, <1>2, BoxAppend
<1>4. /\ inbox' \in [Conn -> Seq(ClientMessage)] /\ inbox'[c] = Append(box, m)
      /\ \A d \in Conn \ {c} : inbox'[d] = inbox[d]
  BY <1>1, <1>3
<1>5. /\ signals \in [Conn -> Nat] /\ signals' \in [Conn -> Nat]
      /\ signals'[c] = IF IsSignal(m) THEN signals[c] + 1 ELSE signals[c]
      /\ \A d \in Conn \ {c} : signals'[d] = signals[d]
  BY DEF IndInv, TypesOK
<1>6. TypesOK'
  BY <1>1, <1>4, <1>5 DEF IndInv, TypesOK
<1>7. ServerInv'
  BY <1>1, ServerUntouched DEF IndInv
<1>8. InboxInv'
  <2> SUFFICES ASSUME NEW d \in Conn
               PROVE  /\ BoxOK(d, inbox'[d])
                      /\ joined'[d] # NotJoined => d \in asked'
                      /\ d \notin asked' \/ joined'[d] # NotJoined => NoJoins(inbox'[d])
                      /\ status'[d] = "unused" => inbox'[d] = <<>>
    BY DEF InboxInv
  <2>1. CASE d = c
    <3>1. joined'[d] # NotJoined => d \in asked'
      BY <1>1, <1>2, <2>1
    <3>2. d \notin asked' \/ joined'[d] # NotJoined => ~IsJoin(m) /\ NoJoins(box)
      BY <1>1, <1>2, <2>1
    <3> QED
      BY <1>1, <1>3, <1>4, <2>1, <3>1, <3>2
  <2>2. CASE d # c
    <3>1. inbox'[d] = inbox[d] /\ (d \in asked' <=> d \in asked)
      BY <1>4, <2>2
    <3>2. /\ BoxOK(d, inbox[d]) /\ (joined[d] # NotJoined => d \in asked)
          /\ d \notin asked \/ joined[d] # NotJoined => NoJoins(inbox[d])
          /\ status[d] = "unused" => inbox[d] = <<>>
      BY DEF IndInv, InboxInv
    <3> QED
      BY <1>1, <3>1, <3>2
  <2> QED
    BY <2>1, <2>2
<1>9. SignalsAnswered'
  <2>1. ASSUME status[c] # "gone", joined[c] # NotJoined => Has(rooms, joined[c][1], joined[c][2], c)
        PROVE  Balanced(c, signals'[c], inbox'[c], stream)
    <3>1. Balanced(c, signals[c], box, stream)
      BY <2>1 DEF IndInv, SignalsAnswered, box
    <3>2. stream \in [Conn -> Seq(ServerMessage)]
      BY DEF IndInv, TypesOK
    <3>3. Balanced(c, IF IsSignal(m) THEN signals[c] + 1 ELSE signals[c], Append(box, m), stream)
      BY <1>1, <3>1, <3>2, BalanceSent
    <3> QED
      BY <1>4, <1>5, <3>3
  <2>2. SignalsAnswered
    BY DEF IndInv
  <2> QED
    BY <1>1, <1>4, <1>5, <2>1, <2>2, AnswersFollow
<1> QED
  BY <1>6, <1>7, <1>8, <1>9 DEF IndInv

LEMMA NetworkStep ==
  ASSUME IndInv, NEW c \in Conn, Network(c)
  PROVE  IndInv'
<1>1. /\ UNCHANGED <<rooms, joined, newest, finished, stream, asked, signals>>
      /\ inbox[c] \in Seq(ClientMessage) /\ inbox \in [Conn -> Seq(ClientMessage)]
      /\ status \in [Conn -> {"unused", "open", "gone"}]
      /\ BoxOK(c, inbox[c])
  BY DEF Network, Open, Disconnect, IndInv, TypesOK, InboxInv
<1>2. ServerInv'
  BY <1>1, ServerUntouched DEF IndInv
<1>3. CASE Open(c, "unused", <<>>)
  <2>1. status[c] = "unused" /\ status' = [status EXCEPT ![c] = "open"] /\ inbox' = [inbox EXCEPT ![c] = <<>>]
    BY <1>3 DEF Open
  <2>2. inbox[c] = <<>>
    BY <2>1 DEF IndInv, InboxInv
  <2>3. inbox' = inbox /\ status' \in [Conn -> {"unused", "open", "gone"}]
    BY <1>1, <2>1, <2>2
  <2>4. \A d \in Conn : status'[d] = status[d] \/ (status'[d] = "open" /\ status[d] = "unused")
    BY <1>1, <2>1
  <2>5. TypesOK'
    BY <1>1, <2>3 DEF IndInv, TypesOK
  <2>6. InboxInv'
    BY <1>1, <2>3, <2>4 DEF IndInv, InboxInv
  <2>7. SignalsAnswered'
    BY <1>1, <2>3, <2>4 DEF IndInv, SignalsAnswered
  <2> QED
    BY <1>2, <2>5, <2>6, <2>7 DEF IndInv
<1>4. ASSUME NEW kept \in 0..Len(inbox[c]), Disconnect(c, kept)
      PROVE  IndInv'
  <2> DEFINE box == SubSeq(inbox[c], 1, kept)
  <2>1. /\ status' = [status EXCEPT ![c] = "gone"]
        /\ inbox' = [inbox EXCEPT ![c] = Append(box, CloseMsg)]
    BY <1>4 DEF Disconnect
  <2>2. box \in Seq(ClientMessage) /\ BoxOK(c, box) /\ (NoJoins(inbox[c]) => NoJoins(box))
    BY <1>1, BoxBeginning
  <2> HIDE DEF box
  <2>3. CloseMsg \in ClientMessage /\ ~IsJoin(CloseMsg) /\ ~IsSignal(CloseMsg)
    BY DEF ClientMessage, CloseMsg, IsJoin, IsSignal
  <2>4. /\ Append(box, CloseMsg) \in Seq(ClientMessage) /\ BoxOK(c, Append(box, CloseMsg))
        /\ NoJoins(inbox[c]) => NoJoins(Append(box, CloseMsg))
    BY <2>2, <2>3, BoxAppend
  <2>5. /\ inbox' \in [Conn -> Seq(ClientMessage)] /\ inbox'[c] = Append(box, CloseMsg)
        /\ \A d \in Conn \ {c} : inbox'[d] = inbox[d] /\ status'[d] = status[d]
        /\ status' \in [Conn -> {"unused", "open", "gone"}] /\ status'[c] = "gone"
    BY <1>1, <2>1, <2>4
  <2>6. TypesOK'
    BY <1>1, <2>5 DEF IndInv, TypesOK
  <2>7. InboxInv'
    <3> SUFFICES ASSUME NEW d \in Conn
                 PROVE  /\ BoxOK(d, inbox'[d])
                        /\ joined'[d] # NotJoined => d \in asked'
                        /\ d \notin asked' \/ joined'[d] # NotJoined => NoJoins(inbox'[d])
                        /\ status'[d] = "unused" => inbox'[d] = <<>>
      BY DEF InboxInv
    <3>1. /\ BoxOK(d, inbox[d]) /\ (joined[d] # NotJoined => d \in asked)
          /\ d \notin asked \/ joined[d] # NotJoined => NoJoins(inbox[d])
          /\ status[d] = "unused" => inbox[d] = <<>>
      BY DEF IndInv, InboxInv
    <3>2. CASE d = c
      BY <1>1, <2>4, <2>5, <3>1, <3>2
    <3>3. CASE d # c
      BY <1>1, <2>5, <3>1, <3>3
    <3> QED
      BY <3>2, <3>3
  <2>8. SignalsAnswered'
    <3> SUFFICES ASSUME NEW d \in Conn, status'[d] # "gone",
                        joined[d] # NotJoined => Has(rooms, joined[d][1], joined[d][2], d)
                 PROVE  Balanced(d, signals[d], inbox'[d], stream)
      BY <1>1 DEF SignalsAnswered
    <3> QED
      BY <2>5 DEF IndInv, SignalsAnswered
  <2> QED
    BY <1>2, <2>6, <2>7, <2>8 DEF IndInv
<1> QED
  BY <1>3, <1>4 DEF Network

LEMMA NextIndInv == IndInv /\ [Next]_vars => IndInv'
<1> SUFFICES ASSUME IndInv, [Next]_vars PROVE IndInv'
  OBVIOUS
<1>1. ASSUME NEW c \in Conn, NEW room \in Room, NEW client \in Client, SendJoin(c, room, client)
      PROVE  IndInv'
  <2>1. JoinMsg(room, client) \in ClientMessage /\ IsJoin(JoinMsg(room, client)) /\ ~IsSignal(JoinMsg(room, client))
    BY DEF JoinMsg, ClientMessage, IsJoin, IsSignal
  <2>2. /\ Send(c, JoinMsg(room, client)) /\ UNCHANGED <<rooms, newest, signals>>
        /\ c \notin asked /\ asked' = asked \cup {c}
    BY <1>1 DEF SendJoin
  <2> QED
    BY <2>1, <2>2, SendStep
<1>2. ASSUME NEW c \in Conn, NEW room \in Room, NEW client \in Client, NEW target \in Client,
             SendSignal(c, room, client, target)
      PROVE  IndInv'
  <2> DEFINE m == SignalMsg(room, client, target, c)
  <2>1. /\ m \in ClientMessage /\ ~IsJoin(m) /\ IsSignal(m)
        /\ m.signal = c /\ m.target = target /\ m.client = client
    BY DEF SignalMsg, ClientMessage, Signal, IsJoin, IsSignal
  <2>2. /\ Send(c, m) /\ UNCHANGED <<rooms, newest, asked>> /\ target # client
        /\ signals' = [signals EXCEPT ![c] = @ + 1]
    BY <1>2 DEF SendSignal
  <2> HIDE DEF m
  <2> QED
    BY <2>1, <2>2, SendStep
<1>3. CASE UNCHANGED vars
  BY <1>3 DEF IndInv, TypesOK, InboxInv, ServerInv, NewestHasJoined, NewestIsRegistered, SilentBeforeJoin,
              ViewsFollow, SessionsKnown, SignalsAnswered, vars, serverVars, connVars
<1> QED
  BY <1>1, <1>2, <1>3, HandlerStep, NetworkStep DEF Next

THEOREM IndInvHolds == Spec => []IndInv
BY InitIndInv, NextIndInv, PTL DEF Spec

\* The room is who is present, by what joined and ended.
LEMMA PresentIsRoom ==
  ASSUME IndInv, NEW room \in Room, NEW client \in DOMAIN Present(room)
  PROVE  /\ room \in DOMAIN rooms /\ Present(room) = rooms[room]
         /\ Has(rooms, room, client, Present(room)[client])
<1> DEFINE present == Present(room)
<1>1. ASSUME NEW x
      PROVE  x \in DOMAIN present <=> x \in Client /\ IsPresent(room, x)
  BY DEF Present
<1>2. ASSUME NEW x \in DOMAIN present
      PROVE  present[x] = newest[<<room, x>>] /\ Has(rooms, room, x, present[x])
  <2>1. x \in Client /\ IsPresent(room, x) /\ present[x] = newest[<<room, x>>]
    BY <1>2 DEF Present
  <2>2. newest[<<room, x>>] \in Conn \ finished
    BY <2>1 DEF IsPresent, IndInv, TypesOK
  <2> QED
    BY <2>1, <2>2 DEF IndInv, ServerInv, NewestIsRegistered
<1>3. room \in DOMAIN rooms
  BY <1>2 DEF Has
<1>4. DOMAIN present = DOMAIN rooms[room]
  <2>1. ASSUME NEW x \in DOMAIN rooms[room] PROVE x \in DOMAIN present
    <3> DEFINE c == rooms[room][x]
    <3>1. Has(rooms, room, x, c)
      BY <1>3 DEF Has
    <3> HIDE DEF c
    <3>2. x \in Client /\ c \in Conn /\ c \notin finished /\ newest[<<room, x>>] = c
      BY <3>1, RegisteredIsNewest
    <3> QED
      BY <1>1, <3>2, ConnAssumption DEF IsPresent
  <2>2. ASSUME NEW x \in DOMAIN present PROVE x \in DOMAIN rooms[room]
    BY <1>2 DEF Has
  <2> QED
    BY <2>1, <2>2
<1>5. \A x \in DOMAIN present : present[x] = rooms[room][x]
  BY <1>2 DEF Has
<1>6. rooms[room] = [x \in DOMAIN rooms[room] |-> rooms[room][x]]
  BY <1>3, PeersAreFunctions DEF IndInv
<1>7. present = [x \in DOMAIN present |-> present[x]]
  BY DEF Present
<1> HIDE DEF present
<1>8. present = rooms[room]
  BY <1>4, <1>5, <1>6, <1>7
<1> QED
  BY <1>2, <1>3, <1>8 DEF present

\* Whoever has read its stream knows who is present and by which session, and
\* keeps a mesh peer for each of the others, in whatever order connections of a
\* client replace each other and end (p2pMeshTransport.ts:110, room.rs:40).
THEOREM MeshFollows == Spec => []MeshFollowsRoom
<1>1. IndInv => MeshFollowsRoom
  <2> SUFFICES ASSUME IndInv, NEW room \in Room, NEW client \in DOMAIN Present(room)
               PROVE  LET view == View(client, stream[Present(room)[client]])
                      IN  /\ view.peers = Present(room)
                          /\ view.mesh = DOMAIN Present(room) \ {client}
    BY DEF MeshFollowsRoom
  <2>1. Present(room) = rooms[room] /\ Has(rooms, room, client, Present(room)[client])
    BY PresentIsRoom
  <2> DEFINE c == Present(room)[client]
  <2>2. Has(rooms, room, client, c)
    BY <2>1
  <2> HIDE DEF c
  <2>3. Sees(client, stream[c], rooms[room])
    BY <2>2, RegisteredIsNewest
  <2> QED
    BY <2>1, <2>3 DEF Sees, c
<1> QED
  BY <1>1, IndInvHolds, PTL

\* A transport gets signals from the sessions that it was told of only: none of a
\* replaced connection comes through after its replacement (server.rs:157).
THEOREM SignalsFromKnownSessions == Spec => []SignalsAreOfTheKnownSession
<1>1. IndInv => SignalsAreOfTheKnownSession
  BY DEF IndInv, ServerInv, SessionsKnown, Known, SignalsAreOfTheKnownSession
<1> QED
  BY <1>1, IndInvHolds, PTL

\* Each signal of a present connection is with the server, passed on once, or
\* refused with an error to its sender (server.rs:150).
THEOREM SignalsNeverVanish == Spec => []NoSignalVanishes
<1>1. IndInv => NoSignalVanishes
  <2> SUFFICES ASSUME IndInv, NEW room \in Room, NEW c \in Range(Present(room)), status[c] = "open"
               PROVE  signals[c] = Cardinality(Waiting(c)) + Cardinality(Refused(c)) + Cardinality(PassedOn(c))
    BY DEF NoSignalVanishes
  <2>1. PICK client \in DOMAIN Present(room) : c = Present(room)[client]
    BY DEF Range
  <2>2. Has(rooms, room, client, c)
    BY <2>1, PresentIsRoom
  <2>3. c \in Conn /\ joined[c] = <<room, client>>
    BY <2>2, RegisteredIsNewest
  <2>4. Balanced(c, signals[c], inbox[c], stream)
    BY <2>2, <2>3 DEF IndInv, SignalsAnswered
  <2>5. Waiting(c) = Signals(inbox[c]) /\ Refused(c) = Errors(stream[c]) /\ PassedOn(c) = PassedIn(stream, c)
    BY DEF Waiting, Signals, Refused, Errors, PassedOn, PassedIn
  <2> QED
    BY <2>4, <2>5 DEF Balanced
<1> QED
  BY <1>1, IndInvHolds, PTL
=============================================================================

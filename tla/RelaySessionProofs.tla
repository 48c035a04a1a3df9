------------------------- MODULE RelaySessionProofs -------------------------
(***************************************************************************)
(* Proofs about RelaySession, for any rooms, clients and connections and   *)
(* whatever the environment may do.                                        *)
(***************************************************************************)
EXTENDS RelaySession, Integers, TLAPS, WellFoundedInduction, SequenceTheorems, FiniteSetTheorems

-----------------------------------------------------------------------------
(* The inductive invariant.                                                *)

IsList(s) == s \in Seq(Range(s))
IsFunction(f, S) == f = [x \in S |-> f[x]]

FunctionsOK ==
  /\ IsFunction(status, Conn) /\ IsFunction(inbox, Conn) /\ IsFunction(stream, Conn)
  /\ IsFunction(owner, Conn) /\ IsFunction(known, Client) /\ IsFunction(lives, Client)
  /\ IsFunction(offlineQueue, Client)
  /\ \A c \in Conn : owner[c] # NoOwner => owner[c][1] \in Client

LogsAreLists(s) == \A i \in DOMAIN s : s[i].type = "joined" => IsList(s[i].opLog)
IsRoom(r) == r = [peers |-> r.peers, log |-> r.log] /\ IsList(r.log)
ListsOK ==
  /\ \A c \in Conn : IsList(inbox[c]) /\ IsList(stream[c]) /\ LogsAreLists(stream[c])
  /\ \A cl \in Client : IsList(offlineQueue[cl])
  /\ \A room \in DOMAIN rooms : IsRoom(rooms[room])

\* A connection that is not open yet has sent nothing and is in no room.
Waits(c) == status[c] \in {"unused", "connecting"}
NewConns ==
  /\ \A cl \in Client : InSession(cl) => status[transport[cl]] # "unused"
  /\ \A c \in Conn : Waits(c) =>
       /\ inbox[c] = <<>>
       /\ \A room \in DOMAIN rooms : c \notin PeerConns(rooms[room].peers)

\* Client cl is in the room with connection c, in the rooms rs.
At(rs, room, cl, c) == room \in DOMAIN rs /\ cl \in DOMAIN rs[room].peers /\ rs[room].peers[cl] = c

LogIds(rs, room) == OpIds(Range(rs[room].log))

\* The ids that the unread messages of a stream tell of.
IdsOf(m) == IF m.type = "joined" THEN OpIds(Range(m.opLog))
            ELSE IF m.type = "operation" THEN {m.op.id} ELSE {}
Unread(s) == UNION {IdsOf(s[i]) : i \in DOMAIN s}

\* What a registered client has not seen of the log is in its stream.
LogIsSeenOrUnread ==
  \A cl \in Client : IsOpen(cl) /\ At(rooms, session[cl], cl, transport[cl]) =>
    LogIds(rooms, session[cl]) \subseteq OpIds(known[cl]) \cup Unread(stream[transport[cl]])

IndInv == TypeOK /\ FunctionsOK /\ ListsOK /\ NewConns /\ LogIsSeenOrUnread

-----------------------------------------------------------------------------
(* Sequences.                                                              *)

LEMMA SeqIsList == \A S : \A s \in Seq(S) : IsList(s)
<1> SUFFICES ASSUME NEW S, NEW s \in Seq(S) PROVE s \in Seq(Range(s))
  BY DEF IsList
<1>1. Len(s) \in Nat /\ s \in [1..Len(s) -> S] /\ DOMAIN s = 1..Len(s)
  BY LenProperties
<1>2. s \in [1..Len(s) -> Range(s)]
  BY <1>1 DEF Range
<1> QED
  BY <1>1, <1>2, SeqDef

LEMMA ListAppend ==
  ASSUME NEW s, NEW m, IsList(s)
  PROVE  /\ IsList(Append(s, m)) /\ Len(s) \in Nat
         /\ DOMAIN s = 1..Len(s) /\ DOMAIN Append(s, m) = 1..(Len(s) + 1)
         /\ Append(s, m)[Len(s) + 1] = m /\ \A i \in 1..Len(s) : Append(s, m)[i] = s[i]
<1> DEFINE S == Range(s) \cup {m}
<1>1. s \in Seq(Range(s)) /\ Len(s) \in Nat /\ s \in [1..Len(s) -> Range(s)] /\ DOMAIN s = 1..Len(s)
  BY LenProperties DEF IsList
<1>2. s \in [1..Len(s) -> S]
  BY <1>1
<1>3. s \in Seq(S) /\ m \in S
  BY <1>1, <1>2, SeqDef
<1> HIDE DEF S
<1>4. /\ Append(s, m) \in Seq(S) /\ DOMAIN Append(s, m) = 1..(Len(s) + 1)
      /\ Append(s, m)[Len(s) + 1] = m /\ \A i \in 1..Len(s) : Append(s, m)[i] = s[i]
  BY <1>3, AppendProperties, LenProperties
<1> QED
  BY <1>1, <1>4, SeqIsList

LEMMA ListConcat ==
  ASSUME NEW s, NEW t, IsList(s), IsList(t)
  PROVE  /\ IsList(s \o t) /\ Len(s) \in Nat /\ Len(t) \in Nat
         /\ DOMAIN s = 1..Len(s) /\ DOMAIN t = 1..Len(t) /\ DOMAIN (s \o t) = 1..(Len(s) + Len(t))
         /\ \A i \in 1..Len(s) : (s \o t)[i] = s[i]
         /\ \A i \in 1..Len(t) : (s \o t)[Len(s) + i] = t[i]
<1> DEFINE S == Range(s) \cup Range(t)
<1>1. /\ s \in Seq(Range(s)) /\ Len(s) \in Nat /\ s \in [1..Len(s) -> Range(s)] /\ DOMAIN s = 1..Len(s)
      /\ t \in Seq(Range(t)) /\ Len(t) \in Nat /\ t \in [1..Len(t) -> Range(t)] /\ DOMAIN t = 1..Len(t)
  BY LenProperties DEF IsList
<1>2. s \in [1..Len(s) -> S] /\ t \in [1..Len(t) -> S]
  BY <1>1
<1>3. s \in Seq(S) /\ t \in Seq(S)
  BY <1>1, <1>2, SeqDef
<1> HIDE DEF S
<1>4. /\ s \o t \in Seq(S) /\ Len(s \o t) = Len(s) + Len(t)
      /\ \A i \in 1..(Len(s) + Len(t)) : (s \o t)[i] = IF i <= Len(s) THEN s[i] ELSE t[i - Len(s)]
  BY <1>3, ConcatProperties
<1>5. DOMAIN (s \o t) = 1..(Len(s) + Len(t))
  BY <1>4, LenProperties
<1>6. ASSUME NEW i \in 1..Len(t) PROVE (s \o t)[Len(s) + i] = t[i]
  <2>1. Len(s) + i \in 1..(Len(s) + Len(t)) /\ ~(Len(s) + i <= Len(s)) /\ (Len(s) + i) - Len(s) = i
    BY <1>1
  <2> QED
    BY <1>4, <2>1
<1>7. \A i \in 1..Len(s) : (s \o t)[i] = s[i]
  BY <1>1, <1>4
<1> QED
  BY <1>1, <1>4, <1>5, <1>6, <1>7, SeqIsList

LEMMA ListTail ==
  ASSUME NEW s, IsList(s), s # <<>>
  PROVE  /\ IsList(Tail(s)) /\ Len(s) \in Nat \ {0}
         /\ DOMAIN s = 1..Len(s) /\ DOMAIN Tail(s) = 1..(Len(s) - 1)
         /\ Head(s) = s[1] /\ \A i \in 1..(Len(s) - 1) : Tail(s)[i] = s[i + 1]
<1>1. /\ s \in Seq(Range(s)) /\ DOMAIN s = 1..Len(s) /\ Len(s) \in Nat \ {0}
      /\ Tail(s) \in Seq(Range(s)) /\ Len(Tail(s)) = Len(s) - 1 /\ Head(s) = s[1]
      /\ \A i \in 1..Len(Tail(s)) : Tail(s)[i] = s[i + 1]
  BY HeadTailProperties, EmptySeq, LenProperties DEF IsList
<1>2. DOMAIN Tail(s) = 1..(Len(s) - 1)
  BY <1>1, LenProperties
<1> QED
  BY <1>1, <1>2, SeqIsList

LEMMA EmptyList == IsList(<<>>) /\ DOMAIN <<>> = {} /\ Range(<<>>) = {}
<1>1. <<>> \in Seq({}) /\ DOMAIN <<>> = {}
  OBVIOUS
<1> QED
  BY <1>1, SeqIsList DEF Range

-----------------------------------------------------------------------------
(* What a stream tells.                                                    *)

LEMMA UnreadOfNothing == IsList(<<>>) /\ LogsAreLists(<<>>) /\ Unread(<<>>) = {}
<1>1. IsList(<<>>) /\ DOMAIN <<>> = {}
  BY EmptyList
<1> QED
  BY <1>1 DEF LogsAreLists, Unread

LEMMA UnreadOfOne ==
  ASSUME NEW m, m.type = "joined" => IsList(m.opLog)
  PROVE  IsList(<<m>>) /\ LogsAreLists(<<m>>) /\ Unread(<<m>>) = IdsOf(m)
<1>1. <<m>> \in Seq({m}) /\ DOMAIN <<m>> = {1} /\ <<m>>[1] = m
  OBVIOUS
<1>2. IsList(<<m>>)
  BY <1>1, SeqIsList
<1>3. LogsAreLists(<<m>>)
  BY <1>1 DEF LogsAreLists
<1>4. Unread(<<m>>) = IdsOf(m)
  BY <1>1 DEF Unread
<1> QED
  BY <1>2, <1>3, <1>4

LEMMA UnreadAppend ==
  ASSUME NEW s, NEW m, IsList(s), LogsAreLists(s), m.type = "joined" => IsList(m.opLog)
  PROVE  /\ IsList(Append(s, m)) /\ LogsAreLists(Append(s, m))
         /\ Unread(Append(s, m)) = Unread(s) \cup IdsOf(m)
<1> DEFINE t == Append(s, m)
           len == Len(s)
<1>1. /\ IsList(t) /\ len \in Nat /\ DOMAIN s = 1..len /\ DOMAIN t = 1..(len + 1)
      /\ t[len + 1] = m /\ \A i \in 1..len : t[i] = s[i]
  BY ListAppend
<1> HIDE DEF t, len
<1>2. \A i \in DOMAIN t : (i \in DOMAIN s /\ t[i] = s[i]) \/ t[i] = m
  BY <1>1
<1>3. \A i \in DOMAIN s : i \in DOMAIN t /\ t[i] = s[i]
  BY <1>1
<1>4. LogsAreLists(t)
  BY <1>2 DEF LogsAreLists
<1>5. Unread(t) \subseteq Unread(s) \cup IdsOf(m)
  BY <1>2 DEF Unread
<1>6. Unread(s) \subseteq Unread(t)
  BY <1>3 DEF Unread
<1>7. IdsOf(m) \subseteq Unread(t)
  <2>1. len + 1 \in DOMAIN t
    BY <1>1
  <2> QED
    BY <1>1, <2>1 DEF Unread
<1> QED
  BY <1>1, <1>4, <1>5, <1>6, <1>7 DEF t

LEMMA UnreadConcat ==
  ASSUME NEW s, NEW t, IsList(s), IsList(t), LogsAreLists(s), LogsAreLists(t)
  PROVE  /\ IsList(s \o t) /\ LogsAreLists(s \o t)
         /\ Unread(s) \subseteq Unread(s \o t) /\ Unread(t) \subseteq Unread(s \o t)
<1> DEFINE u == s \o t
           m == Len(s)
           n == Len(t)
<1>1. /\ IsList(u) /\ m \in Nat /\ n \in Nat
      /\ DOMAIN s = 1..m /\ DOMAIN t = 1..n /\ DOMAIN u = 1..(m + n)
      /\ \A i \in 1..m : u[i] = s[i]
      /\ \A i \in 1..n : u[m + i] = t[i]
  BY ListConcat
<1> HIDE DEF u, m, n
<1>2. \A i \in DOMAIN s : i \in DOMAIN u /\ u[i] = s[i]
  BY <1>1
<1>3. \A i \in DOMAIN t : m + i \in DOMAIN u /\ u[m + i] = t[i]
  BY <1>1
<1>4. LogsAreLists(u)
  <2> SUFFICES ASSUME NEW i \in DOMAIN u, u[i].type = "joined" PROVE IsList(u[i].opLog)
    BY DEF LogsAreLists
  <2>1. CASE i <= m
    BY <1>1, <2>1 DEF LogsAreLists
  <2>2. CASE ~(i <= m)
    <3>1. i - m \in 1..n /\ m + (i - m) = i
      BY <1>1, <2>2
    <3>2. u[i] = t[i - m]
      BY <1>1, <3>1
    <3> QED
      BY <1>1, <3>1, <3>2 DEF LogsAreLists
  <2> QED
    BY <2>1, <2>2
<1>5. Unread(s) \subseteq Unread(u)
  BY <1>2 DEF Unread
<1>6. Unread(t) \subseteq Unread(u)
  BY <1>3 DEF Unread
<1> QED
  BY <1>1, <1>4, <1>5, <1>6 DEF u

LEMMA UnreadTail ==
  ASSUME NEW s, IsList(s), LogsAreLists(s), s # <<>>
  PROVE  /\ IsList(Tail(s)) /\ LogsAreLists(Tail(s))
         /\ Unread(s) \subseteq IdsOf(Head(s)) \cup Unread(Tail(s))
         /\ Head(s).type = "joined" => IsList(Head(s).opLog)
<1> DEFINE t == Tail(s)
           len == Len(s)
<1>1. /\ IsList(t) /\ len \in Nat \ {0} /\ DOMAIN s = 1..len /\ DOMAIN t = 1..(len - 1)
      /\ Head(s) = s[1] /\ \A i \in 1..(len - 1) : t[i] = s[i + 1]
  BY ListTail
<1> HIDE DEF t, len
<1>2. \A i \in DOMAIN t : i + 1 \in DOMAIN s /\ t[i] = s[i + 1]
  BY <1>1
<1>3. \A i \in DOMAIN s : i = 1 \/ (i - 1 \in DOMAIN t /\ t[i - 1] = s[i])
  BY <1>1
<1>4. LogsAreLists(t)
  BY <1>2 DEF LogsAreLists
<1>5. Unread(s) \subseteq IdsOf(Head(s)) \cup Unread(t)
  BY <1>1, <1>3 DEF Unread
<1>6. Head(s).type = "joined" => IsList(Head(s).opLog)
  BY <1>1 DEF LogsAreLists
<1> QED
  BY <1>1, <1>4, <1>5, <1>6 DEF t

-----------------------------------------------------------------------------
(* What the CRDT learns.                                                   *)

LEMMA LearnIds == \A K, op : OpIds(K) \subseteq OpIds(Learn(K, op)) /\ op.id \in OpIds(Learn(K, op))
BY DEF OpIds, Learn, Seen

LEMMA LeastNumber ==
  ASSUME NEW T \in SUBSET Nat, T # {}
  PROVE  \E x \in T : \A y \in T : x <= y
<1>1. PICK x \in T : \A y \in T : <<y, x>> \notin OpToRel(<, Nat)
  BY NatLessThanWellFounded, WFMin
<1>2. \A y \in T : ~(y < x)
  BY <1>1 DEF OpToRel
<1> QED
  BY <1>2

\* What the recursive definition of LearnAll says of its function.
Learnt(f, K, log, n) == f = [i \in 0..n |-> IF i = 0 THEN K ELSE Learn(f[i - 1], log[i])]

LEMMA LearntExists ==
  ASSUME NEW K, NEW log, NEW n \in Nat
  PROVE  \E f : Learnt(f, K, log, n)
<1> DEFINE bad == {k \in Nat : ~\E f : Learnt(f, K, log, k)}
<1> SUFFICES ASSUME bad # {} PROVE FALSE
  OBVIOUS
<1>1. PICK k \in bad : \A j \in bad : k <= j
  <2> HIDE DEF bad
  <2>1. bad \in SUBSET Nat
    BY DEF bad
  <2> QED
    BY <2>1, LeastNumber
<1>2. CASE k = 0
  <2>1. Learnt([j \in 0..0 |-> K], K, log, 0)
    BY DEF Learnt
  <2> QED
    BY <2>1, <1>1, <1>2
<1>3. CASE k # 0
  <2>1. k \in Nat /\ k - 1 \in Nat /\ k - 1 \notin bad
    BY <1>1, <1>3
  <2>2. PICK f : Learnt(f, K, log, k - 1)
    BY <2>1
  <2> DEFINE g == [j \in 0..k |-> IF j <= k - 1 THEN f[j] ELSE Learn(f[k - 1], log[k])]
  <2>3. ASSUME NEW j \in 0..k
        PROVE  g[j] = IF j = 0 THEN K ELSE Learn(g[j - 1], log[j])
    <3>1. CASE j = k
      BY <2>1, <1>3, <3>1
    <3>2. CASE j # k
      <4>1. f[j] = IF j = 0 THEN K ELSE Learn(f[j - 1], log[j])
        BY <2>1, <2>2, <3>2 DEF Learnt
      <4> QED
        BY <2>1, <3>2, <4>1
    <3> QED
      BY <3>1, <3>2
  <2>4. Learnt(g, K, log, k)
    BY <2>3 DEF Learnt
  <2> QED
    BY <2>4, <1>1
<1> QED
  BY <1>2, <1>3

\* A replay forgets nothing, and has seen every operation of the log.
LEMMA LearnAllIds ==
  ASSUME NEW K, NEW log, IsList(log)
  PROVE  OpIds(K) \subseteq OpIds(LearnAll(K, log)) /\ OpIds(Range(log)) \subseteq OpIds(LearnAll(K, log))
<1> DEFINE len == Len(log)
           f == CHOOSE f : Learnt(f, K, log, len)
<1>1. len \in Nat /\ DOMAIN log = 1..len
  BY LenProperties DEF IsList
<1>2. Learnt(f, K, log, len)
  BY <1>1, LearntExists
<1>3. LearnAll(K, log) = f[len]
  BY DEF LearnAll, Learnt
<1> HIDE DEF f, len
<1>4. \A i \in 0..len : f[i] = IF i = 0 THEN K ELSE Learn(f[i - 1], log[i])
  BY <1>2 DEF Learnt
\* Once seen, always seen.
<1>5. ASSUME NEW id, NEW from \in 0..len, id \in OpIds(f[from])
      PROVE  id \in OpIds(f[len])
  <2> DEFINE bad == {i \in 0..len : from <= i /\ id \notin OpIds(f[i])}
  <2> SUFFICES ASSUME bad # {} PROVE FALSE
    BY <1>1
  <2>1. PICK k \in bad : \A j \in bad : k <= j
    <3> HIDE DEF bad
    <3>1. bad \in SUBSET Nat
      BY <1>1 DEF bad
    <3> QED
      BY <3>1, LeastNumber
  <2>2. k \in 0..len /\ k # from /\ k - 1 \in 0..len /\ from <= k - 1 /\ k # 0
    BY <1>1, <1>5, <2>1
  <2>3. id \in OpIds(f[k - 1])
    BY <1>1, <2>1, <2>2
  <2>4. f[k] = Learn(f[k - 1], log[k])
    BY <1>4, <2>2
  <2>5. id \in OpIds(f[k])
    BY <2>3, <2>4, LearnIds
  <2> QED
    BY <2>1, <2>5
<1>6. OpIds(K) \subseteq OpIds(f[len])
  <2>1. 0 \in 0..len /\ f[0] = K
    BY <1>1, <1>4
  <2> QED
    BY <1>5, <2>1
<1>7. ASSUME NEW i \in DOMAIN log PROVE log[i].id \in OpIds(f[len])
  <2>1. i \in 0..len /\ i # 0
    BY <1>1
  <2>2. log[i].id \in OpIds(f[i])
    BY <1>4, <2>1, LearnIds
  <2> QED
    BY <1>5, <2>1, <2>2
<1>8. OpIds(Range(log)) \subseteq OpIds(f[len])
  BY <1>7 DEF OpIds, Range
<1> QED
  BY <1>3, <1>6, <1>8

-----------------------------------------------------------------------------
(* The handlers of the server.                                             *)

LEMMA HandlerReads ==
  ASSUME IndInv, NEW c \in Conn, NEW type, Reads(c, type)
  PROVE  /\ inbox[c] # <<>> /\ Head(inbox[c]).type = type /\ IsFunction(inbox', Conn)
         /\ \A d \in Conn : IsList(inbox'[d]) /\ (inbox[d] = <<>> => inbox'[d] = <<>>)
<1>1. /\ inbox[c] # <<>> /\ Head(inbox[c]).type = type
      /\ inbox' = [inbox EXCEPT ![c] = Tail(inbox[c])]
      /\ inbox = [d \in Conn |-> inbox[d]]
  BY DEF Reads, IndInv, FunctionsOK, IsFunction
<1>2. \A d \in Conn : inbox'[d] = IF d = c THEN Tail(inbox[d]) ELSE inbox[d]
  BY <1>1
<1>3. \A d \in Conn : IsList(inbox[d])
  BY DEF IndInv, ListsOK
<1>4. IsList(Tail(inbox[c]))
  BY <1>1, <1>3, ListTail
<1>5. IsFunction(inbox', Conn)
  BY <1>1 DEF IsFunction
<1> QED
  BY <1>1, <1>2, <1>3, <1>4, <1>5

\* A handler sends more, and whoever is in a room afterwards was there and is
\* told what is new in its log, or has joined and is told the log.
LEMMA ServerKeeps ==
  ASSUME IndInv, NEW c \in Conn, NEW type, Reads(c, type), UNCHANGED <<clientVars, status>>,
         IsFunction(stream', Conn),
         \A d \in Conn : /\ IsList(stream'[d]) /\ LogsAreLists(stream'[d])
                         /\ Unread(stream[d]) \subseteq Unread(stream'[d]),
         \A room \in DOMAIN rooms' : IsRoom(rooms'[room]),
         \A room, cl : \A d \in Conn : At(rooms', room, cl, d) =>
           \/ /\ At(rooms, room, cl, d)
              /\ LogIds(rooms', room) \subseteq LogIds(rooms, room) \cup Unread(stream'[d])
           \/ d = c /\ LogIds(rooms', room) \subseteq Unread(stream'[d])
  PROVE  IndInv'
<1>1. /\ inbox[c] # <<>> /\ IsFunction(inbox', Conn)
      /\ \A d \in Conn : IsList(inbox'[d]) /\ (inbox[d] = <<>> => inbox'[d] = <<>>)
  BY HandlerReads
<1>2. TypeOK'
  BY DEF IndInv, TypeOK, InSession, clientVars, crdtVars, managerVars
<1>3. FunctionsOK'
  BY <1>1 DEF IndInv, FunctionsOK, clientVars, crdtVars, managerVars
<1>4. ListsOK'
  BY <1>1 DEF IndInv, ListsOK, clientVars, managerVars
<1>5. NewConns'
  <2>1. \A cl \in Client : InSession(cl)' => status'[transport'[cl]] # "unused"
    BY DEF IndInv, NewConns, InSession, clientVars, managerVars
  <2>2. ASSUME NEW d \in Conn, status[d] \in {"unused", "connecting"}
        PROVE  inbox'[d] = <<>> /\ \A room \in DOMAIN rooms' : d \notin PeerConns(rooms'[room].peers)
    <3>1. inbox[d] = <<>> /\ \A room \in DOMAIN rooms : d \notin PeerConns(rooms[room].peers)
      BY <2>2 DEF IndInv, NewConns, Waits
    <3>2. ASSUME NEW room \in DOMAIN rooms', d \in PeerConns(rooms'[room].peers) PROVE FALSE
      <4>1. PICK cl : At(rooms', room, cl, d)
        BY <3>2 DEF PeerConns, Range, At
      <4>2. d # c
        BY <1>1, <3>1
      <4>3. At(rooms, room, cl, d)
        BY <4>1, <4>2
      <4> QED
        BY <3>1, <4>3 DEF At, PeerConns, Range
    <3> QED
      BY <1>1, <3>1, <3>2
  <2> QED
    BY <2>1, <2>2 DEF NewConns, Waits
<1>6. LogIsSeenOrUnread'
  <2> SUFFICES ASSUME NEW cl \in Client, IsOpen(cl), At(rooms', session[cl], cl, transport[cl])
               PROVE  LogIds(rooms', session[cl]) \subseteq OpIds(known[cl]) \cup Unread(stream'[transport[cl]])
    BY DEF LogIsSeenOrUnread, IsOpen, clientVars, managerVars, crdtVars
  <2> DEFINE d == transport[cl]
             room == session[cl]
  <2>1. d \in Conn
    BY DEF IsOpen, IndInv, TypeOK
  <2>2. At(rooms, room, cl, d) => LogIds(rooms, room) \subseteq OpIds(known[cl]) \cup Unread(stream[d])
    BY DEF IndInv, LogIsSeenOrUnread
  <2>3. At(rooms', room, cl, d)
    OBVIOUS
  <2>4. Unread(stream[d]) \subseteq Unread(stream'[d])
    BY <2>1
  <2> HIDE DEF d, room
  <2>5. \/ /\ At(rooms, room, cl, d)
           /\ LogIds(rooms', room) \subseteq LogIds(rooms, room) \cup Unread(stream'[d])
        \/ LogIds(rooms', room) \subseteq Unread(stream'[d])
    BY <2>1, <2>3
  <2>6. LogIds(rooms', room) \subseteq OpIds(known[cl]) \cup Unread(stream'[d])
    BY <2>2, <2>4, <2>5
  <2> QED
    BY <2>6 DEF d, room
<1> QED
  BY <1>2, <1>3, <1>4, <1>5, <1>6 DEF IndInv

LEMMA RoomOfIsRoom == IndInv => \A room : IsRoom(RoomOf(room))
<1>1. IsRoom(NewRoom)
  <2>1. NewRoom = [peers |-> NoPeers, log |-> <<>>]
    BY DEF NewRoom
  <2> QED
    BY <2>1, EmptyList DEF IsRoom
<1> QED
  BY <1>1 DEF RoomOf, IndInv, ListsOK

\* A step that sends every connection one message at most, other than joined.
LEMMA SendToKeeps ==
  ASSUME IndInv, NEW conns, NEW m, m.type # "joined", stream' = SendTo(conns, m)
  PROVE  /\ IsFunction(stream', Conn)
         /\ \A d \in Conn : /\ IsList(stream'[d]) /\ LogsAreLists(stream'[d])
                            /\ Unread(stream[d]) \subseteq Unread(stream'[d])
                            /\ d \in conns => IdsOf(m) \subseteq Unread(stream'[d])
<1>1. IsFunction(stream', Conn)
  BY DEF SendTo, IsFunction
<1>2. ASSUME NEW d \in Conn
      PROVE  /\ IsList(stream'[d]) /\ LogsAreLists(stream'[d])
             /\ Unread(stream[d]) \subseteq Unread(stream'[d])
             /\ d \in conns => IdsOf(m) \subseteq Unread(stream'[d])
  <2>1. IsList(stream[d]) /\ LogsAreLists(stream[d])
    BY DEF IndInv, ListsOK
  <2>2. stream'[d] = IF d \in conns THEN Append(stream[d], m) ELSE stream[d]
    BY DEF SendTo
  <2>3. /\ IsList(Append(stream[d], m)) /\ LogsAreLists(Append(stream[d], m))
        /\ Unread(Append(stream[d], m)) = Unread(stream[d]) \cup IdsOf(m)
    BY <2>1, UnreadAppend
  <2> QED
    BY <2>1, <2>2, <2>3
<1> QED
  BY <1>1, <1>2

LEMMA RefusedOperation ==
  ASSUME IndInv, NEW c \in Conn, RejectOperation(c) \/ IgnoreOperation(c), UNCHANGED clientVars
  PROVE  IndInv'
<1>1. Reads(c, "operation") /\ rooms' = rooms /\ status' = status
  BY DEF RejectOperation, IgnoreOperation
<1>2. \A room \in DOMAIN rooms' : IsRoom(rooms'[room])
  BY <1>1 DEF IndInv, ListsOK
<1>3. \A room, cl : \A d \in Conn : At(rooms', room, cl, d) =>
        /\ At(rooms, room, cl, d)
        /\ LogIds(rooms', room) \subseteq LogIds(rooms, room) \cup Unread(stream'[d])
  BY <1>1
<1>4. /\ IsFunction(stream', Conn)
      /\ \A d \in Conn : /\ IsList(stream'[d]) /\ LogsAreLists(stream'[d])
                         /\ Unread(stream[d]) \subseteq Unread(stream'[d])
  <2>1. CASE RejectOperation(c)
    <3>1. stream' = SendTo({c}, Error) /\ Error.type # "joined"
      BY <2>1 DEF RejectOperation, Error
    <3> QED
      BY <3>1, SendToKeeps
  <2>2. CASE IgnoreOperation(c)
    <3>1. stream' = stream
      BY <2>2 DEF IgnoreOperation
    <3> QED
      BY <3>1 DEF IndInv, ListsOK, FunctionsOK
  <2> QED
    BY <2>1, <2>2
<1> QED
  BY <1>1, <1>2, <1>3, <1>4, ServerKeeps

\* What is new in the log goes to everybody in the room.
LEMMA AcceptedOperation ==
  ASSUME IndInv, NEW c \in Conn, AcceptOperation(c), UNCHANGED clientVars
  PROVE  IndInv'
<1> DEFINE room == Head(inbox[c]).room
           client == Head(inbox[c]).client
           op == Head(inbox[c]).op
           old == rooms[room].log
           peers == rooms[room].peers
           log == AppendOperation(old, op)
           m == OperationMsg(room, client, op)
           conns == Recipients(log # old, peers)
<1>1. /\ Reads(c, "operation") /\ status' = status
      /\ room \in DOMAIN rooms
      /\ rooms'  = SetRoom(room, [rooms[room] EXCEPT !.log = log])
      /\ stream' = SendTo(conns, m)
  BY DEF AcceptOperation
<1>2. rooms[room] = [peers |-> peers, log |-> old] /\ IsList(old)
  BY <1>1 DEF IndInv, ListsOK, IsRoom
<1>3. m.type = "operation" /\ m.op = op
  BY DEF OperationMsg
<1> HIDE DEF room, client, op, old, peers, m
<1>4. IsList(log) /\ (log = old \/ Range(log) \subseteq Range(old) \cup {op})
  <2>1. CASE log = old
    BY <1>2, <2>1
  <2>2. CASE log # old
    <3>1. log = Append(old, op)
      BY <2>2 DEF AppendOperation
    <3>2. /\ IsList(Append(old, op)) /\ Len(old) \in Nat
          /\ DOMAIN old = 1..Len(old) /\ DOMAIN Append(old, op) = 1..(Len(old) + 1)
          /\ Append(old, op)[Len(old) + 1] = op /\ \A i \in 1..Len(old) : Append(old, op)[i] = old[i]
      BY <1>2, ListAppend
    <3> HIDE DEF log
    <3>3. \A i \in DOMAIN log : (i \in DOMAIN old /\ log[i] = old[i]) \/ log[i] = op
      BY <3>1, <3>2
    <3> QED
      BY <3>1, <3>2, <3>3 DEF Range
  <2> QED
    BY <2>1, <2>2
<1> HIDE DEF log
<1>5. /\ DOMAIN rooms' = DOMAIN rooms
      /\ rooms'[room] = [peers |-> peers, log |-> log]
      /\ \A other \in DOMAIN rooms : other # room => rooms'[other] = rooms[other]
  <2>1. [rooms[room] EXCEPT !.log = log] = [peers |-> peers, log |-> log]
    BY <1>2
  <2>2. rooms' = [x \in DOMAIN rooms \cup {room} |-> IF x = room THEN [peers |-> peers, log |-> log] ELSE rooms[x]]
    BY <1>1, <2>1 DEF SetRoom
  <2> QED
    BY <1>1, <2>2
<1>6. \A r \in DOMAIN rooms' : IsRoom(rooms'[r])
  <2>1. \A r \in DOMAIN rooms : IsRoom(rooms[r])
    BY DEF IndInv, ListsOK
  <2>2. IsRoom(rooms'[room])
    BY <1>4, <1>5 DEF IsRoom
  <2> QED
    BY <1>5, <2>1, <2>2
<1>7. /\ IsFunction(stream', Conn)
      /\ \A d \in Conn : /\ IsList(stream'[d]) /\ LogsAreLists(stream'[d])
                         /\ Unread(stream[d]) \subseteq Unread(stream'[d])
                         /\ d \in conns => IdsOf(m) \subseteq Unread(stream'[d])
  <2>1. m.type # "joined"
    BY <1>3
  <2> HIDE DEF conns
  <2> QED
    BY <1>1, <2>1, SendToKeeps
<1>8. ASSUME NEW r, NEW cl, NEW d \in Conn, At(rooms', r, cl, d)
      PROVE  /\ At(rooms, r, cl, d)
             /\ LogIds(rooms', r) \subseteq LogIds(rooms, r) \cup Unread(stream'[d])
  <2>1. At(rooms, r, cl, d)
    BY <1>1, <1>2, <1>5, <1>8 DEF At
  <2>2. CASE r # room \/ log = old
    <3>1. rooms'[r].log = rooms[r].log
      BY <1>2, <1>5, <1>8, <2>2 DEF At
    <3> QED
      BY <2>1, <3>1 DEF LogIds
  <2>3. CASE r = room /\ log # old
    <3>1. d \in conns
      BY <1>2, <2>1, <2>3 DEF At, Recipients, PeerConns, Range
    <3>2. op.id \in Unread(stream'[d])
      BY <1>3, <1>7, <3>1 DEF IdsOf
    <3>3. rooms'[r].log = log /\ rooms[r].log = old
      BY <1>2, <1>5, <2>3
    <3>4. LogIds(rooms', r) \subseteq LogIds(rooms, r) \cup {op.id}
      BY <1>4, <2>3, <3>3 DEF LogIds, OpIds
    <3> QED
      BY <2>1, <3>2, <3>4
  <2> QED
    BY <2>2, <2>3
<1> QED
  BY <1>1, <1>6, <1>7, <1>8, ServerKeeps

\* Who joins is told the log, and a new peer changes no log.
LEMMA JoinHandled ==
  ASSUME IndInv, NEW c \in Conn, HandleJoin(c), UNCHANGED clientVars
  PROVE  IndInv'
<1> DEFINE room == Head(inbox[c]).room
           client == Head(inbox[c]).client
           old == RoomOf(room)
           peers == AddPeer(old.peers, client, c)
           answer == Joined(room, client, PeerList(peers), old.log)
           notice == Presence(room, PeerList(peers))
           replies(d) == JoinReplies(d, c, peers, answer, notice)
<1>1. /\ Reads(c, "join") /\ status' = status
      /\ rooms' = SetRoom(room, [old EXCEPT !.peers = peers])
      /\ stream' = [d \in Conn |-> stream[d] \o replies(d)]
  BY DEF HandleJoin
<1>2. IsRoom(old)
  BY RoomOfIsRoom
<1>3. answer.type = "joined" /\ answer.opLog = old.log /\ notice.type = "presence"
  BY DEF Joined, Presence
<1>4. room \in DOMAIN rooms => old = rooms[room]
  BY DEF RoomOf
<1>5. peers = [x \in DOMAIN old.peers \cup {client} |-> IF x = client THEN c ELSE old.peers[x]]
  BY DEF AddPeer
<1> HIDE DEF room, client, old, peers, answer, notice
<1>6. ASSUME NEW d \in Conn
      PROVE  /\ IsList(replies(d)) /\ LogsAreLists(replies(d))
             /\ d = c => IdsOf(answer) \subseteq Unread(replies(d))
  <2> DEFINE s == IF d = c THEN <<answer>> ELSE <<>>
             t == IF d \in PeerConns(peers) THEN <<notice>> ELSE <<>>
  <2>1. IsList(<<answer>>) /\ LogsAreLists(<<answer>>) /\ Unread(<<answer>>) = IdsOf(answer)
    BY <1>2, <1>3, UnreadOfOne DEF IsRoom
  <2>2. IsList(<<notice>>) /\ LogsAreLists(<<notice>>)
    BY <1>3, UnreadOfOne
  <2>3. IsList(s) /\ LogsAreLists(s) /\ (d = c => Unread(s) = IdsOf(answer))
    BY <2>1, UnreadOfNothing
  <2>4. IsList(t) /\ LogsAreLists(t)
    BY <2>2, UnreadOfNothing
  <2>5. replies(d) = s \o t
    BY DEF JoinReplies
  <2> HIDE DEF s, t, replies
  <2> QED
    BY <2>3, <2>4, <2>5, UnreadConcat
<1>7. ASSUME NEW d \in Conn
      PROVE  /\ IsList(stream'[d]) /\ LogsAreLists(stream'[d])
             /\ Unread(stream[d]) \subseteq Unread(stream'[d])
             /\ d = c => IdsOf(answer) \subseteq Unread(stream'[d])
  <2>1. IsList(stream[d]) /\ LogsAreLists(stream[d])
    BY DEF IndInv, ListsOK
  <2>2. stream'[d] = stream[d] \o replies(d)
    BY <1>1
  <2> HIDE DEF replies
  <2> QED
    BY <1>6, <2>1, <2>2, UnreadConcat
<1>8. IsFunction(stream', Conn)
  <2> HIDE DEF replies
  <2> QED
    BY <1>1 DEF IsFunction
<1>9. /\ DOMAIN rooms' = DOMAIN rooms \cup {room}
      /\ rooms'[room] = [peers |-> peers, log |-> old.log]
      /\ \A r \in DOMAIN rooms : r # room => rooms'[r] = rooms[r]
  <2>1. [old EXCEPT !.peers = peers] = [peers |-> peers, log |-> old.log]
    BY <1>2 DEF IsRoom
  <2>2. rooms' = [x \in DOMAIN rooms \cup {room} |-> IF x = room THEN [peers |-> peers, log |-> old.log] ELSE rooms[x]]
    BY <1>1, <2>1 DEF SetRoom
  <2> QED
    BY <2>2
<1>10. \A r \in DOMAIN rooms' : IsRoom(rooms'[r])
  <2>1. IsRoom(rooms'[room])
    BY <1>2, <1>9 DEF IsRoom
  <2> QED
    BY <1>9, <2>1 DEF IndInv, ListsOK
<1>11. ASSUME NEW r, NEW cl, NEW d \in Conn, At(rooms', r, cl, d)
       PROVE  \/ /\ At(rooms, r, cl, d)
                 /\ LogIds(rooms', r) \subseteq LogIds(rooms, r) \cup Unread(stream'[d])
              \/ d = c /\ LogIds(rooms', r) \subseteq Unread(stream'[d])
  <2>1. CASE r # room
    BY <1>9, <1>11, <2>1 DEF At, LogIds
  <2>2. CASE r = room /\ d # c
    <3>1. cl \in DOMAIN old.peers /\ old.peers[cl] = d
      BY <1>5, <1>9, <1>11, <2>2 DEF At
    <3>2. room \in DOMAIN rooms
      <4> SUFFICES ASSUME room \notin DOMAIN rooms PROVE FALSE
        OBVIOUS
      <4>1. DOMAIN old.peers = {}
        BY DEF old, RoomOf, NewRoom, NoPeers
      <4> QED
        BY <3>1, <4>1
    <3>3. At(rooms, r, cl, d) /\ rooms'[r].log = rooms[r].log
      BY <1>4, <1>9, <2>2, <3>1, <3>2 DEF At
    <3> QED
      BY <3>3 DEF LogIds
  <2>3. CASE r = room /\ d = c
    <3>1. LogIds(rooms', r) = IdsOf(answer)
      BY <1>3, <1>9, <2>3 DEF LogIds, IdsOf
    <3> QED
      BY <1>7, <2>3, <3>1
  <2> QED
    BY <2>1, <2>2, <2>3
<1> HIDE DEF replies
<1>12. \A d \in Conn : /\ IsList(stream'[d]) /\ LogsAreLists(stream'[d])
                       /\ Unread(stream[d]) \subseteq Unread(stream'[d])
  BY <1>7
<1>13. UNCHANGED <<clientVars, status>>
  BY <1>1
<1> QED
  BY <1>1, <1>8, <1>10, <1>11, <1>12, <1>13, ServerKeeps

\* Who stays in the room has the connection and the log it had.
LEMMA CloseHandled ==
  ASSUME IndInv, NEW c \in Conn, HandleClose(c), UNCHANGED clientVars
  PROVE  IndInv'
<1>1. Reads(c, "close") /\ status' = status
  BY DEF HandleClose
<1>2. CASE UNCHANGED <<rooms, stream>>
  <2>1. /\ IsFunction(stream', Conn)
        /\ \A d \in Conn : /\ IsList(stream'[d]) /\ LogsAreLists(stream'[d])
                           /\ Unread(stream[d]) \subseteq Unread(stream'[d])
    BY <1>2 DEF IndInv, ListsOK, FunctionsOK
  <2>2. \A room \in DOMAIN rooms' : IsRoom(rooms'[room])
    BY <1>2 DEF IndInv, ListsOK
  <2>3. \A room, cl : \A d \in Conn : At(rooms', room, cl, d) =>
          /\ At(rooms, room, cl, d)
          /\ LogIds(rooms', room) \subseteq LogIds(rooms, room) \cup Unread(stream'[d])
    BY <1>2
  <2> QED
    BY <1>1, <2>1, <2>2, <2>3, ServerKeeps
<1>3. CASE ~UNCHANGED <<rooms, stream>>
  <2> DEFINE room == joined[c][1]
             client == joined[c][2]
             before == rooms[room].peers
             after == RemovePeer(before, client, c)
             conns == Recipients(after # before, after)
             m == Presence(room, PeerList(after))
  <2>1. room \in DOMAIN rooms /\ stream' = SendTo(conns, m) /\ rooms' = RoomsAfterClose(room, after)
    BY <1>3 DEF HandleClose
  <2>2. m.type # "joined"
    BY DEF Presence
  <2>3. \A x \in DOMAIN after : x \in DOMAIN before /\ after[x] = before[x]
    BY DEF RemovePeer, Restrict
  <2>4. IsRoom(rooms[room])
    BY <2>1 DEF IndInv, ListsOK
  <2> HIDE DEF room, client, after, conns, m
  <2>5. /\ IsFunction(stream', Conn)
        /\ \A d \in Conn : /\ IsList(stream'[d]) /\ LogsAreLists(stream'[d])
                           /\ Unread(stream[d]) \subseteq Unread(stream'[d])
    BY <2>1, <2>2, SendToKeeps
  <2>6. ASSUME NEW r \in DOMAIN rooms'
        PROVE  /\ r \in DOMAIN rooms /\ IsRoom(rooms'[r]) /\ rooms'[r].log = rooms[r].log
               /\ \A x \in DOMAIN rooms'[r].peers : x \in DOMAIN rooms[r].peers /\ rooms'[r].peers[x] = rooms[r].peers[x]
    <3>1. IsRoom(rooms[r]) \/ r \notin DOMAIN rooms
      BY DEF IndInv, ListsOK
    <3>2. CASE after = NoPeers
      <4>1. rooms' = [x \in DOMAIN rooms \ {room} |-> rooms[x]]
        BY <2>1, <3>2 DEF RoomsAfterClose, Restrict
      <4> QED
        BY <3>1, <4>1
    <3>3. CASE after # NoPeers
      <4>1. [rooms[room] EXCEPT !.peers = after] = [peers |-> after, log |-> rooms[room].log]
        BY <2>4 DEF IsRoom
      <4>2. rooms' = [x \in DOMAIN rooms \cup {room} |->
                        IF x = room THEN [peers |-> after, log |-> rooms[room].log] ELSE rooms[x]]
        BY <2>1, <3>3, <4>1 DEF RoomsAfterClose, SetRoom
      <4>3. r \in DOMAIN rooms /\ (r # room => rooms'[r] = rooms[r])
            /\ (r = room => rooms'[r] = [peers |-> after, log |-> rooms[room].log])
        BY <2>1, <4>2
      <4>4. CASE r = room
        BY <2>3, <2>4, <4>3, <4>4 DEF IsRoom
      <4> QED
        BY <3>1, <4>3, <4>4
    <3> QED
      BY <3>2, <3>3
  <2>7. \A r \in DOMAIN rooms' : IsRoom(rooms'[r])
    BY <2>6
  <2>8. ASSUME NEW r, NEW cl, NEW d \in Conn, At(rooms', r, cl, d)
        PROVE  /\ At(rooms, r, cl, d)
               /\ LogIds(rooms', r) \subseteq LogIds(rooms, r) \cup Unread(stream'[d])
    BY <2>6, <2>8 DEF At, LogIds
  <2>9. UNCHANGED <<clientVars, status>>
    BY <1>1
  <2> QED
    BY <1>1, <2>5, <2>7, <2>8, <2>9, ServerKeeps
<1> QED
  BY <1>2, <1>3

LEMMA ServerStep ==
  ASSUME IndInv, NEW c \in Conn, Server(c)
  PROVE  IndInv'
<1>1. Handle(c) /\ UNCHANGED clientVars
  BY DEF Server
<1> QED
  BY <1>1, JoinHandled, RefusedOperation, AcceptedOperation, CloseHandled DEF Handle

-----------------------------------------------------------------------------
(* The steps of a client.                                                  *)

\* A session that a step leaves where it is, and that has seen or will read
\* what it had seen or would read.
LEMMA SeenStays ==
  ASSUME IndInv, rooms' = rooms,
         \A cl \in Client : IsOpen(cl)' /\ At(rooms, session'[cl], cl, transport'[cl]) =>
           /\ IsOpen(cl) /\ session'[cl] = session[cl] /\ transport'[cl] = transport[cl]
           /\ OpIds(known[cl]) \cup Unread(stream[transport[cl]])
                \subseteq OpIds(known'[cl]) \cup Unread(stream'[transport[cl]])
  PROVE  LogIsSeenOrUnread'
<1> SUFFICES ASSUME NEW cl \in Client, IsOpen(cl)', At(rooms', session'[cl], cl, transport'[cl])
             PROVE  LogIds(rooms', session'[cl]) \subseteq OpIds(known'[cl]) \cup Unread(stream'[transport'[cl]])
  BY DEF LogIsSeenOrUnread
<1>1. /\ IsOpen(cl) /\ session'[cl] = session[cl] /\ transport'[cl] = transport[cl]
      /\ OpIds(known[cl]) \cup Unread(stream[transport[cl]])
           \subseteq OpIds(known'[cl]) \cup Unread(stream'[transport[cl]])
  OBVIOUS
<1>2. LogIds(rooms, session[cl]) \subseteq OpIds(known[cl]) \cup Unread(stream[transport[cl]])
  BY <1>1 DEF IndInv, LogIsSeenOrUnread
<1> QED
  BY <1>1, <1>2

LEMMA OperationsAreAList ==
  ASSUME NEW cl, NEW ops, IsList(ops) PROVE IsList(Operations(cl, ops))
<1>1. Len(ops) \in Nat /\ DOMAIN ops = 1..Len(ops)
  BY LenProperties DEF IsList
<1> DEFINE S == {OperationMsg(session[cl], cl, ops[i]) : i \in DOMAIN ops}
<1>2. Operations(cl, ops) \in [1..Len(ops) -> S]
  BY <1>1 DEF Operations
<1> HIDE DEF S
<1>3. Operations(cl, ops) \in Seq(S)
  BY <1>1, <1>2, SeqDef
<1> QED
  BY <1>3, SeqIsList

\* What is sent goes into the inbox of an open connection.
LEMMA SentKeeps ==
  ASSUME IndInv, NEW cl \in Client, NEW box, NEW ops, IsList(ops), IsFunction(box, Conn),
         \A c \in Conn : IsList(box[c]) /\ (Waits(c) => box[c] = <<>>)
  PROVE  /\ IsFunction(Sent(cl, box, ops), Conn)
         /\ \A c \in Conn : /\ IsList(Sent(cl, box, ops)[c])
                            /\ Waits(c) => Sent(cl, box, ops)[c] = <<>>
<1>1. CASE ~IsOpen(cl)
  BY <1>1 DEF Sent
<1>2. CASE IsOpen(cl)
  <2> DEFINE t == transport[cl]
             new == box[t] \o Operations(cl, ops)
  <2>1. t \in Conn /\ status[t] = "open"
    BY <1>2 DEF IsOpen, IndInv, TypeOK
  <2>2. IsList(new)
    BY <2>1, OperationsAreAList, ListConcat
  <2>3. Sent(cl, box, ops) = [box EXCEPT ![t] = new]
    BY <1>2 DEF Sent
  <2> HIDE DEF new, t
  <2>4. Sent(cl, box, ops) = [c \in Conn |-> IF c = t THEN new ELSE box[c]]
    BY <2>3 DEF IsFunction
  <2>5. ~Waits(t)
    BY <2>1 DEF Waits
  <2>6. ASSUME NEW c \in Conn
        PROVE  IsList(Sent(cl, box, ops)[c]) /\ (Waits(c) => Sent(cl, box, ops)[c] = <<>>)
    BY <2>2, <2>4, <2>5
  <2> QED
    BY <2>4, <2>6 DEF IsFunction
<1> QED
  BY <1>1, <1>2

LEMMA QueuedIsAList ==
  ASSUME NEW cl, NEW queue, NEW ops, IsList(queue), IsList(ops) PROVE IsList(Queued(cl, queue, ops))
BY ListConcat DEF Queued

LEMMA OneOperation == \A op : IsList(<<op>>)
<1> SUFFICES ASSUME NEW op PROVE IsList(<<op>>)
  OBVIOUS
<1>1. <<op>> \in Seq({op})
  OBVIOUS
<1> QED
  BY <1>1, SeqIsList

\* What a client may send and keep of its queue, in a step that leaves the
\* connections and the rooms alone.
BoxOK(box) == /\ IsFunction(box, Conn)
              /\ \A c \in Conn : IsList(box[c]) /\ (Waits(c) => box[c] = <<>>)
QueueOK(queue) == /\ IsFunction(queue, Client)
                  /\ \A cl \in Client : /\ IsList(queue[cl])
                                        /\ session[cl] = NoRoom => queue[cl] = <<>>

LEMMA BoxesAndQueues == IndInv => BoxOK(inbox) /\ QueueOK(offlineQueue)
BY DEF IndInv, TypeOK, FunctionsOK, ListsOK, NewConns, BoxOK, QueueOK, InSession

LEMMA QueueOfOne ==
  ASSUME QueueOK(offlineQueue), NEW cl \in Client, NEW queue, IsList(queue), session[cl] = NoRoom => queue = <<>>
  PROVE  QueueOK([offlineQueue EXCEPT ![cl] = queue])
<1>1. [offlineQueue EXCEPT ![cl] = queue] = [x \in Client |-> IF x = cl THEN queue ELSE offlineQueue[x]]
  BY DEF QueueOK, IsFunction
<1> HIDE DEF QueueOK
<1>2. \A x \in Client : IsList(offlineQueue[x]) /\ (session[x] = NoRoom => offlineQueue[x] = <<>>)
  BY DEF QueueOK
<1> QED
  BY <1>1, <1>2 DEF QueueOK, IsFunction

\* A step within a session: it may send, queue, read and learn.
LEMMA WithinSession ==
  ASSUME IndInv,
         UNCHANGED <<rooms, status, session, transport, owner, lives, reconnect, breaks>>,
         BoxOK(inbox'), QueueOK(offlineQueue'), IsFunction(stream', Conn), IsFunction(known', Client),
         \A c \in Conn : IsList(stream'[c]) /\ LogsAreLists(stream'[c]),
         syncReady' \subseteq Client, seedSent' \subseteq Client, edits' \in [Client -> Nat],
         \A cl \in Client : IsOpen(cl) =>
           OpIds(known[cl]) \cup Unread(stream[transport[cl]])
             \subseteq OpIds(known'[cl]) \cup Unread(stream'[transport[cl]])
  PROVE  IndInv'
<1>1. TypeOK'
  BY DEF IndInv, TypeOK, InSession, QueueOK
<1>2. FunctionsOK'
  BY DEF IndInv, FunctionsOK, BoxOK, QueueOK
<1>3. ListsOK'
  BY DEF IndInv, ListsOK, BoxOK, QueueOK
<1>4. NewConns'
  BY DEF IndInv, NewConns, BoxOK, Waits, InSession
<1>5. LogIsSeenOrUnread'
  BY SeenStays DEF IsOpen
<1> QED
  BY <1>1, <1>2, <1>3, <1>4, <1>5 DEF IndInv

\* Ready sends the queue of a session that there is.
LEMMA ReadyKeeps ==
  ASSUME IndInv, NEW cl \in Client, NEW box, NEW queue, Ready(cl, box, queue), BoxOK(box), IsList(queue),
         session[cl] = NoRoom => queue = <<>>
  PROVE  BoxOK(inbox') /\ QueueOK(offlineQueue') /\ syncReady' \subseteq Client
<1>1. syncReady' \subseteq Client
  BY DEF Ready, IndInv, TypeOK
<1>2. QueueOK(offlineQueue)
  BY BoxesAndQueues
<1>3. CASE InSession(cl)
  <2>1. inbox' = Sent(cl, box, queue) /\ offlineQueue' = [offlineQueue EXCEPT ![cl] = Queued(cl, <<>>, queue)]
    BY <1>3 DEF Ready
  <2>2. BoxOK(inbox')
    BY <2>1, SentKeeps DEF BoxOK
  <2>3. IsList(Queued(cl, <<>>, queue))
    BY QueuedIsAList, EmptyList
  <2>4. QueueOK(offlineQueue')
    BY <1>2, <1>3, <2>1, <2>3, QueueOfOne DEF InSession
  <2> QED
    BY <1>1, <2>2, <2>4
<1>4. CASE ~InSession(cl)
  <2>1. inbox' = box /\ offlineQueue' = [offlineQueue EXCEPT ![cl] = queue]
    BY <1>4 DEF Ready
  <2>2. QueueOK(offlineQueue')
    BY <1>2, <2>1, QueueOfOne
  <2> QED
    BY <1>1, <2>1, <2>2
<1> QED
  BY <1>3, <1>4

\* An operation that is learnt: what was known stays known.
LEMMA KnownGrows ==
  ASSUME IndInv, NEW cl, NEW K, known' = [known EXCEPT ![cl] = K], OpIds(known[cl]) \subseteq OpIds(K)
  PROVE  /\ IsFunction(known', Client)
         /\ \A dl \in Client : OpIds(known[dl]) \subseteq OpIds(known'[dl])
         /\ cl \in Client => known'[cl] = K
<1>1. known' = [dl \in Client |-> IF dl = cl THEN K ELSE known[dl]]
  BY DEF IndInv, FunctionsOK, IsFunction
<1> QED
  BY <1>1 DEF IsFunction

\* Of the streams and CRDTs, what a step leaves alone.
LEMMA StreamsAsTheyAre ==
  IndInv => \A c \in Conn : IsList(stream[c]) /\ LogsAreLists(stream[c])
BY DEF IndInv, ListsOK

LEMMA EditKeeps ==
  ASSUME IndInv, NEW cl \in Client, NEW dep, Edit(cl, dep)
  PROVE  IndInv'
<1> DEFINE op == NewOp(cl, dep)
           K == known[cl] \cup {op}
<1>1. /\ InSession(cl) /\ edits' = [edits EXCEPT ![cl] = edits[cl] + 1]
      /\ known' = [known EXCEPT ![cl] = K]
      /\ inbox' = Sent(cl, inbox, <<op>>)
      /\ offlineQueue' = [offlineQueue EXCEPT ![cl] = Queued(cl, offlineQueue[cl], <<op>>)]
      /\ UNCHANGED <<rooms, stream, status, session, transport, owner, syncReady, seedSent,
                     reconnect, lives, breaks>>
  BY DEF Edit, Make
<1>2. OpIds(known[cl]) \subseteq OpIds(K)
  BY DEF OpIds
<1> HIDE DEF op, K
<1>3. IsList(<<op>>)
  BY OneOperation
<1>4. BoxOK(inbox')
  BY <1>1, <1>3, BoxesAndQueues, SentKeeps DEF BoxOK
<1>5. QueueOK(offlineQueue')
  <2>1. IsList(Queued(cl, offlineQueue[cl], <<op>>))
    BY <1>3, QueuedIsAList DEF IndInv, ListsOK
  <2> QED
    BY <1>1, <2>1, BoxesAndQueues, QueueOfOne DEF InSession
<1>6. IsFunction(known', Client) /\ \A dl \in Client : OpIds(known[dl]) \subseteq OpIds(known'[dl])
  BY <1>1, <1>2, KnownGrows
<1>7. edits' \in [Client -> Nat]
  BY <1>1 DEF IndInv, TypeOK
<1>8. IsFunction(stream', Conn) /\ syncReady' \subseteq Client /\ seedSent' \subseteq Client
  BY <1>1 DEF IndInv, TypeOK, FunctionsOK
<1>9. \A c \in Conn : IsList(stream'[c]) /\ LogsAreLists(stream'[c])
  BY <1>1, StreamsAsTheyAre
<1>10. \A dl \in Client : IsOpen(dl) =>
         OpIds(known[dl]) \cup Unread(stream[transport[dl]])
           \subseteq OpIds(known'[dl]) \cup Unread(stream'[transport[dl]])
  BY <1>1, <1>6
<1>11. UNCHANGED <<rooms, status, session, transport, owner, lives, reconnect, breaks>>
  BY <1>1
<1> QED
  BY <1>4, <1>5, <1>6, <1>7, <1>8, <1>9, <1>10, <1>11, WithinSession

LEMMA RenderKeeps ==
  ASSUME IndInv, NEW cl \in Client, NEW i, RenderDone(cl, i)
  PROVE  IndInv'
<1>1. /\ Ready(cl, inbox, offlineQueue[cl])
      /\ UNCHANGED <<rooms, stream, status, known, edits, session, transport, owner, seedSent,
                     reconnect, lives, breaks>>
  BY DEF RenderDone, crdtVars
<1>2. BoxOK(inbox) /\ QueueOK(offlineQueue)
  BY BoxesAndQueues
<1>3. IsList(offlineQueue[cl]) /\ (session[cl] = NoRoom => offlineQueue[cl] = <<>>)
  BY <1>2 DEF QueueOK
<1>4. BoxOK(inbox') /\ QueueOK(offlineQueue') /\ syncReady' \subseteq Client
  BY <1>1, <1>2, <1>3, ReadyKeeps
<1>5. /\ IsFunction(stream', Conn) /\ IsFunction(known', Client) /\ seedSent' \subseteq Client
      /\ edits' \in [Client -> Nat]
  BY <1>1 DEF IndInv, TypeOK, FunctionsOK
<1>6. \A c \in Conn : IsList(stream'[c]) /\ LogsAreLists(stream'[c])
  BY <1>1, StreamsAsTheyAre
<1>7. \A dl \in Client : IsOpen(dl) =>
        OpIds(known[dl]) \cup Unread(stream[transport[dl]])
          \subseteq OpIds(known'[dl]) \cup Unread(stream'[transport[dl]])
  BY <1>1
<1>8. UNCHANGED <<rooms, status, session, transport, owner, lives, reconnect, breaks>>
  BY <1>1
<1> QED
  BY <1>4, <1>5, <1>6, <1>7, <1>8, WithinSession

\* What a message leaves unread of the streams.
LEMMA ReadingKeeps ==
  ASSUME IndInv, NEW c \in Conn, NEW type, Reading(c, type)
  PROVE  /\ Head(stream[c]).type = type /\ (type = "joined" => IsList(Head(stream[c]).opLog))
         /\ UNCHANGED <<rooms, status>> /\ IsFunction(stream', Conn)
         /\ \A d \in Conn : /\ IsList(stream'[d]) /\ LogsAreLists(stream'[d])
                            /\ Unread(stream[d]) \subseteq
                                 Unread(stream'[d]) \cup (IF d = c THEN IdsOf(Head(stream[c])) ELSE {})
<1>1. /\ stream[c] # <<>> /\ Head(stream[c]).type = type /\ UNCHANGED <<rooms, status>>
      /\ stream' = [stream EXCEPT ![c] = Tail(stream[c])]
  BY DEF Reading
<1>2. stream' = [d \in Conn |-> IF d = c THEN Tail(stream[c]) ELSE stream[d]]
  BY <1>1 DEF IndInv, FunctionsOK, IsFunction
<1>3. /\ IsList(Tail(stream[c])) /\ LogsAreLists(Tail(stream[c]))
      /\ Unread(stream[c]) \subseteq IdsOf(Head(stream[c])) \cup Unread(Tail(stream[c]))
      /\ Head(stream[c]).type = "joined" => IsList(Head(stream[c]).opLog)
  BY <1>1, StreamsAsTheyAre, UnreadTail
<1>4. IsFunction(stream', Conn)
  BY <1>2 DEF IsFunction
<1>5. ASSUME NEW d \in Conn
      PROVE  /\ IsList(stream'[d]) /\ LogsAreLists(stream'[d])
             /\ Unread(stream[d]) \subseteq
                  Unread(stream'[d]) \cup (IF d = c THEN IdsOf(Head(stream[c])) ELSE {})
  BY <1>2, <1>3, StreamsAsTheyAre
<1> QED
  BY <1>1, <1>3, <1>4, <1>5

\* A message has been seen when its client has learnt what it tells of: the
\* connection that a session reads is its own.
LEMMA MessageSeen ==
  ASSUME IndInv, NEW c \in Conn, NEW type, Reading(c, type),
         \A dl \in Client : OpIds(known[dl]) \subseteq OpIds(known'[dl]),
         TheOwner(c) \in Client /\ InSession(TheOwner(c)) =>
           IdsOf(Head(stream[c])) \subseteq OpIds(known'[TheOwner(c)])
  PROVE  \A dl \in Client : IsOpen(dl) =>
           OpIds(known[dl]) \cup Unread(stream[transport[dl]])
             \subseteq OpIds(known'[dl]) \cup Unread(stream'[transport[dl]])
<1> SUFFICES ASSUME NEW dl \in Client, IsOpen(dl)
             PROVE  OpIds(known[dl]) \cup Unread(stream[transport[dl]])
                      \subseteq OpIds(known'[dl]) \cup Unread(stream'[transport[dl]])
  OBVIOUS
<1> DEFINE d == transport[dl]
<1>1. d \in Conn /\ InSession(dl) /\ owner[d] = <<dl, lives[dl]>>
  BY DEF IsOpen, IndInv, TypeOK
<1>2. d = c => TheOwner(c) = dl
  BY <1>1 DEF TheOwner
<1> HIDE DEF d
<1>3. Unread(stream[d]) \subseteq
        Unread(stream'[d]) \cup (IF d = c THEN IdsOf(Head(stream[c])) ELSE {})
  BY <1>1, ReadingKeeps
<1>4. d = c => IdsOf(Head(stream[c])) \subseteq OpIds(known'[dl])
  BY <1>1, <1>2
<1>5. OpIds(known[dl]) \cup Unread(stream[d]) \subseteq OpIds(known'[dl]) \cup Unread(stream'[d])
  BY <1>3, <1>4
<1> QED
  BY <1>5 DEF d

\* Nothing is done for a message that tells nothing, or that no session reads.
LEMMA NothingKeeps ==
  ASSUME IndInv, NEW c \in Conn, HandleNothing(c)
  PROVE  IndInv'
<1>1. UNCHANGED inbox /\ UNCHANGED clientVars
  BY DEF HandleNothing
<1>2. PICK type \in {"error", "presence", "joined", "operation"} :
        /\ Reading(c, type)
        /\ type \in {"joined", "operation"} => ~InSession(TheOwner(c))
  BY DEF HandleNothing
<1>3. /\ Head(stream[c]).type = type
      /\ UNCHANGED <<rooms, status>> /\ IsFunction(stream', Conn)
      /\ \A d \in Conn : IsList(stream'[d]) /\ LogsAreLists(stream'[d])
  BY <1>2, ReadingKeeps
<1>4. InSession(TheOwner(c)) => IdsOf(Head(stream[c])) = {}
  BY <1>2, <1>3 DEF IdsOf
<1>5. known' = known /\ UNCHANGED <<edits, managerVars, breaks>>
  BY <1>1 DEF clientVars, crdtVars
<1>6. \A dl \in Client : IsOpen(dl) =>
        OpIds(known[dl]) \cup Unread(stream[transport[dl]])
          \subseteq OpIds(known'[dl]) \cup Unread(stream'[transport[dl]])
  BY <1>2, <1>4, <1>5, MessageSeen
<1>7. BoxOK(inbox') /\ QueueOK(offlineQueue')
  BY <1>1, <1>5, BoxesAndQueues DEF managerVars, QueueOK
<1>8. /\ IsFunction(known', Client) /\ seedSent' \subseteq Client /\ syncReady' \subseteq Client
      /\ edits' \in [Client -> Nat]
  BY <1>5 DEF IndInv, TypeOK, FunctionsOK, managerVars
<1>9. UNCHANGED <<rooms, status, session, transport, owner, lives, reconnect, breaks>>
  BY <1>3, <1>5 DEF managerVars
<1> QED
  BY <1>3, <1>6, <1>7, <1>8, <1>9, WithinSession

LEMMA OperationKeeps ==
  ASSUME IndInv, NEW c \in Conn, HandleTransportOperation(c)
  PROVE  IndInv'
<1> DEFINE cl == TheOwner(c)
           op == Head(stream[c]).op
<1>1. /\ Reading(c, "operation") /\ UNCHANGED inbox /\ UNCHANGED <<edits, managerVars, breaks>>
      /\ known' = [known EXCEPT ![cl] = Learn(known[cl], op)]
  BY DEF HandleTransportOperation
<1>2. /\ Head(stream[c]).type = "operation"
      /\ UNCHANGED <<rooms, status>> /\ IsFunction(stream', Conn)
      /\ \A d \in Conn : IsList(stream'[d]) /\ LogsAreLists(stream'[d])
  BY <1>1, ReadingKeeps
<1>3. IdsOf(Head(stream[c])) = {op.id}
  BY <1>2 DEF IdsOf
<1>4. OpIds(known[cl]) \subseteq OpIds(Learn(known[cl], op)) /\ op.id \in OpIds(Learn(known[cl], op))
  BY LearnIds
<1> HIDE DEF cl, op
<1>5. /\ IsFunction(known', Client)
      /\ \A dl \in Client : OpIds(known[dl]) \subseteq OpIds(known'[dl])
      /\ cl \in Client => known'[cl] = Learn(known[cl], op)
  BY <1>1, <1>4, KnownGrows
<1>6. \A dl \in Client : IsOpen(dl) =>
        OpIds(known[dl]) \cup Unread(stream[transport[dl]])
          \subseteq OpIds(known'[dl]) \cup Unread(stream'[transport[dl]])
  <2>1. cl \in Client => IdsOf(Head(stream[c])) \subseteq OpIds(known'[cl])
    BY <1>3, <1>4, <1>5
  <2> QED
    BY <1>1, <1>5, <2>1, MessageSeen DEF cl
<1>7. BoxOK(inbox') /\ QueueOK(offlineQueue')
  BY <1>1, BoxesAndQueues DEF managerVars, QueueOK
<1>8. /\ seedSent' \subseteq Client /\ syncReady' \subseteq Client /\ edits' \in [Client -> Nat]
  BY <1>1 DEF IndInv, TypeOK, managerVars
<1>9. UNCHANGED <<rooms, status, session, transport, owner, lives, reconnect, breaks>>
  BY <1>1, <1>2 DEF managerVars
<1> QED
  BY <1>2, <1>5, <1>6, <1>7, <1>8, <1>9, WithinSession

LEMMA ReplayKeeps ==
  ASSUME IndInv, NEW c \in Conn, ReplayLog(c)
  PROVE  IndInv'
<1> DEFINE cl == TheOwner(c)
           log == Head(stream[c]).opLog
<1>1. /\ Reading(c, "joined") /\ UNCHANGED inbox
      /\ known' = [known EXCEPT ![cl] = LearnAll(known[cl], log)]
      /\ UNCHANGED <<edits, session, transport, owner, syncReady, seedSent, offlineQueue,
                     reconnect, lives, breaks>>
  BY DEF ReplayLog
<1>2. /\ Head(stream[c]).type = "joined" /\ IsList(log)
      /\ UNCHANGED <<rooms, status>> /\ IsFunction(stream', Conn)
      /\ \A d \in Conn : IsList(stream'[d]) /\ LogsAreLists(stream'[d])
  BY <1>1, ReadingKeeps
<1>3. IdsOf(Head(stream[c])) = OpIds(Range(log))
  BY <1>2 DEF IdsOf
<1> HIDE DEF cl, log
<1>4. /\ OpIds(known[cl]) \subseteq OpIds(LearnAll(known[cl], log))
      /\ OpIds(Range(log)) \subseteq OpIds(LearnAll(known[cl], log))
  BY <1>2, LearnAllIds
<1>5. /\ IsFunction(known', Client)
      /\ \A dl \in Client : OpIds(known[dl]) \subseteq OpIds(known'[dl])
      /\ cl \in Client => known'[cl] = LearnAll(known[cl], log)
  BY <1>1, <1>4, KnownGrows
<1>6. \A dl \in Client : IsOpen(dl) =>
        OpIds(known[dl]) \cup Unread(stream[transport[dl]])
          \subseteq OpIds(known'[dl]) \cup Unread(stream'[transport[dl]])
  <2>1. cl \in Client => IdsOf(Head(stream[c])) \subseteq OpIds(known'[cl])
    BY <1>3, <1>4, <1>5
  <2> QED
    BY <1>1, <1>5, <2>1, MessageSeen DEF cl
<1>7. BoxOK(inbox') /\ QueueOK(offlineQueue')
  BY <1>1, BoxesAndQueues
<1>8. /\ seedSent' \subseteq Client /\ syncReady' \subseteq Client /\ edits' \in [Client -> Nat]
  BY <1>1 DEF IndInv, TypeOK
<1>9. UNCHANGED <<rooms, status, session, transport, owner, lives, reconnect, breaks>>
  BY <1>1, <1>2
<1> QED
  BY <1>2, <1>5, <1>6, <1>7, <1>8, <1>9, WithinSession

\* The document seeds an empty room, or does not.
LEMMA EmptyLogKeeps ==
  ASSUME IndInv, NEW c \in Conn, owner[c] # NoOwner, EmptyLog(c)
  PROVE  IndInv'
<1> DEFINE cl == TheOwner(c)
<1>1. /\ Reading(c, "joined") /\ InSession(cl) /\ Head(stream[c]).opLog = <<>>
      /\ seedSent' = seedSent \cup {cl}
      /\ UNCHANGED <<session, transport, owner, reconnect, lives, breaks>>
  BY DEF EmptyLog
<1>2. cl \in Client
  BY DEF TheOwner, IndInv, FunctionsOK
<1>3. /\ Head(stream[c]).type = "joined"
      /\ UNCHANGED <<rooms, status>> /\ IsFunction(stream', Conn)
      /\ \A d \in Conn : IsList(stream'[d]) /\ LogsAreLists(stream'[d])
  BY <1>1, ReadingKeeps
<1>4. IdsOf(Head(stream[c])) = {}
  BY <1>1, <1>3, EmptyList DEF IdsOf, OpIds
<1>5. BoxOK(inbox) /\ QueueOK(offlineQueue) /\ IsList(offlineQueue[cl]) /\ session[cl] # NoRoom
  BY <1>1, <1>2, BoxesAndQueues DEF QueueOK, InSession
<1>6. /\ BoxOK(inbox') /\ QueueOK(offlineQueue') /\ syncReady' \subseteq Client
      /\ IsFunction(known', Client) /\ \A dl \in Client : OpIds(known[dl]) \subseteq OpIds(known'[dl])
      /\ edits' \in [Client -> Nat]
  <2> DEFINE op == NewOp(cl, Root)
  <2>1. \/ /\ edits' = [edits EXCEPT ![cl] = edits[cl] + 1]
           /\ known' = [known EXCEPT ![cl] = known[cl] \cup {op}]
           /\ Ready(cl, Sent(cl, inbox, <<op>>), Queued(cl, offlineQueue[cl], <<op>>))
        \/ Ready(cl, inbox, offlineQueue[cl]) /\ UNCHANGED crdtVars
    BY DEF EmptyLog, Make
  <2> HIDE DEF cl, op
  <2>2. CASE Ready(cl, inbox, offlineQueue[cl]) /\ UNCHANGED crdtVars
    <3>1. known' = known /\ edits' = edits
      BY <2>2 DEF crdtVars
    <3>2. IsFunction(known', Client) /\ edits' \in [Client -> Nat]
      BY <3>1 DEF IndInv, FunctionsOK, TypeOK
    <3> QED
      BY <1>2, <1>5, <2>2, <3>1, <3>2, ReadyKeeps
  <2>3. CASE /\ edits' = [edits EXCEPT ![cl] = edits[cl] + 1]
             /\ known' = [known EXCEPT ![cl] = known[cl] \cup {op}]
             /\ Ready(cl, Sent(cl, inbox, <<op>>), Queued(cl, offlineQueue[cl], <<op>>))
    <3>1. IsList(<<op>>)
      BY OneOperation
    <3>2. BoxOK(Sent(cl, inbox, <<op>>))
      BY <1>2, <1>5, <3>1, SentKeeps DEF BoxOK
    <3>3. IsList(Queued(cl, offlineQueue[cl], <<op>>))
      BY <1>5, <3>1, QueuedIsAList
    <3>4. BoxOK(inbox') /\ QueueOK(offlineQueue') /\ syncReady' \subseteq Client
      BY <1>2, <1>5, <2>3, <3>2, <3>3, ReadyKeeps
    <3>5. OpIds(known[cl]) \subseteq OpIds(known[cl] \cup {op})
      BY DEF OpIds
    <3>6. IsFunction(known', Client) /\ \A dl \in Client : OpIds(known[dl]) \subseteq OpIds(known'[dl])
      BY <2>3, <3>5, KnownGrows
    <3>7. edits' \in [Client -> Nat]
      BY <1>2, <2>3 DEF IndInv, TypeOK
    <3> QED
      BY <3>4, <3>6, <3>7
  <2> QED
    BY <2>1, <2>2, <2>3
<1>7. \A dl \in Client : IsOpen(dl) =>
        OpIds(known[dl]) \cup Unread(stream[transport[dl]])
          \subseteq OpIds(known'[dl]) \cup Unread(stream'[transport[dl]])
  BY <1>1, <1>4, <1>6, MessageSeen
<1>8. seedSent' \subseteq Client
  BY <1>1, <1>2 DEF IndInv, TypeOK
<1>9. UNCHANGED <<rooms, status, session, transport, owner, lives, reconnect, breaks>>
  BY <1>1, <1>3
<1> QED
  BY <1>3, <1>6, <1>7, <1>8, <1>9, WithinSession

LEMMA MessageStep ==
  ASSUME IndInv, NEW c \in Conn, Message(c)
  PROVE  IndInv'
BY NothingKeeps, OperationKeeps, ReplayKeeps, EmptyLogKeeps DEF Message

-----------------------------------------------------------------------------
(* Connections come and go.                                                *)

\* A connection that opens is in no room yet, and says who joins.
LEMMA OpenKeeps ==
  ASSUME IndInv, NEW cl \in Client, SocketOpens(cl)
  PROVE  IndInv'
<1> DEFINE t == transport[cl]
           first == <<JoinMsg(session[cl], cl)>>
<1>1. /\ t # NoConn /\ status[t] = "connecting"
      /\ status' = [status EXCEPT ![t] = "open"] /\ inbox' = [inbox EXCEPT ![t] = first]
      /\ UNCHANGED <<rooms, stream, clientVars>>
  BY DEF SocketOpens, Open
<1>2. t \in Conn
  BY <1>1 DEF IndInv, TypeOK
<1>3. IsList(first)
  BY OneOperation
<1> HIDE DEF first
<1>4. /\ status' = [c \in Conn |-> IF c = t THEN "open" ELSE status[c]]
      /\ inbox' = [c \in Conn |-> IF c = t THEN first ELSE inbox[c]]
  BY <1>1 DEF IndInv, FunctionsOK, IsFunction
<1>5. UNCHANGED <<session, transport, owner, known, lives, offlineQueue, reconnect, syncReady, seedSent, edits, breaks>>
  BY <1>1 DEF clientVars, crdtVars, managerVars
<1>6. TypeOK'
  BY <1>5 DEF IndInv, TypeOK, InSession
<1>7. FunctionsOK'
  <2>1. IsFunction(status', Conn) /\ IsFunction(inbox', Conn)
    BY <1>4 DEF IsFunction
  <2> QED
    BY <1>1, <1>5, <2>1 DEF IndInv, FunctionsOK
<1>8. ListsOK'
  BY <1>1, <1>3, <1>4, <1>5 DEF IndInv, ListsOK
<1>9. NewConns'
  BY <1>1, <1>2, <1>4, <1>5 DEF IndInv, NewConns, InSession, Waits, TypeOK
<1>10. LogIsSeenOrUnread'
  <2>1. \A room \in DOMAIN rooms : t \notin PeerConns(rooms[room].peers)
    BY <1>1, <1>2 DEF IndInv, NewConns, Waits
  <2>2. ASSUME NEW dl \in Client, IsOpen(dl)', At(rooms, session'[dl], dl, transport'[dl])
        PROVE  IsOpen(dl)
    <3>1. transport[dl] # t
      BY <1>5, <2>1, <2>2 DEF At, PeerConns, Range
    <3>2. transport[dl] \in Conn
      BY <1>5, <2>2 DEF IsOpen, IndInv, TypeOK
    <3>3. transport[dl] # NoConn /\ status'[transport[dl]] = "open"
      BY <1>5, <2>2 DEF IsOpen
    <3> QED
      BY <1>4, <3>1, <3>2, <3>3 DEF IsOpen
  <2> QED
    BY <1>1, <1>5, <2>2, SeenStays
<1> QED
  BY <1>6, <1>7, <1>8, <1>9, <1>10 DEF IndInv

\* Of the messages under way to the server some arrive, and the close does.
LEMMA CutIsAList ==
  ASSUME NEW s, IsList(s), NEW kept \in 0..Len(s), NEW m
  PROVE  IsList(Append(SubSeq(s, 1, kept), m))
<1>1. s \in Seq(Range(s)) /\ Len(s) \in Nat
  BY LenProperties DEF IsList
<1>2. SubSeq(s, 1, kept) \in Seq(Range(s))
  BY <1>1, SubSeqProperties
<1> QED
  BY <1>2, SeqIsList, ListAppend

LEMMA BreakKeeps ==
  ASSUME IndInv, NEW cl \in Client, SocketCloses(cl)
  PROVE  IndInv'
<1> DEFINE t == transport[cl]
<1>1. /\ InSession(cl) /\ breaks < MaxBreaks /\ breaks' = breaks + 1 /\ rooms' = rooms
      /\ reconnect' = reconnect \cup {cl}
      /\ UNCHANGED <<session, transport, owner, known, lives, offlineQueue, syncReady, seedSent, edits>>
  BY DEF SocketCloses, crdtVars
<1>2. t \in Conn /\ status[t] # "unused"
  BY <1>1 DEF IndInv, TypeOK, NewConns
<1>3. /\ status' = [status EXCEPT ![t] = "gone"]
      /\ \/ UNCHANGED <<inbox, stream>>
         \/ /\ stream' = [stream EXCEPT ![t] = <<>>]
            /\ \E kept \in 0..Len(inbox[t]) : inbox' = [inbox EXCEPT ![t] = Append(SubSeq(inbox[t], 1, kept), CloseMsg)]
  BY DEF SocketCloses, Disconnect
<1>4. status' = [c \in Conn |-> IF c = t THEN "gone" ELSE status[c]]
  BY <1>3 DEF IndInv, FunctionsOK, IsFunction
<1>5. /\ IsFunction(inbox', Conn) /\ IsFunction(stream', Conn)
      /\ \A c \in Conn : /\ IsList(inbox'[c]) /\ IsList(stream'[c]) /\ LogsAreLists(stream'[c])
                         /\ c # t => inbox'[c] = inbox[c] /\ stream'[c] = stream[c]
  <2> HIDE DEF t
  <2>1. CASE UNCHANGED <<inbox, stream>>
    BY <2>1 DEF IndInv, FunctionsOK, ListsOK
  <2>2. CASE /\ stream' = [stream EXCEPT ![t] = <<>>]
             /\ \E kept \in 0..Len(inbox[t]) : inbox' = [inbox EXCEPT ![t] = Append(SubSeq(inbox[t], 1, kept), CloseMsg)]
    <3>1. PICK kept \in 0..Len(inbox[t]) : inbox' = [inbox EXCEPT ![t] = Append(SubSeq(inbox[t], 1, kept), CloseMsg)]
      BY <2>2
    <3>2. IsList(inbox[t])
      BY <1>2 DEF t, IndInv, ListsOK
    <3>3. IsList(Append(SubSeq(inbox[t], 1, kept), CloseMsg))
      BY <3>2, CutIsAList
    <3>4. inbox' = [c \in Conn |-> IF c = t THEN Append(SubSeq(inbox[t], 1, kept), CloseMsg) ELSE inbox[c]]
      BY <3>1 DEF IndInv, FunctionsOK, IsFunction
    <3>5. stream' = [c \in Conn |-> IF c = t THEN <<>> ELSE stream[c]]
      BY <2>2 DEF IndInv, FunctionsOK, IsFunction
    <3>6. IsFunction(inbox', Conn) /\ IsFunction(stream', Conn)
      BY <3>4, <3>5 DEF IsFunction
    <3>7. \A c \in Conn : IsList(inbox[c]) /\ IsList(stream[c]) /\ LogsAreLists(stream[c])
      BY DEF IndInv, ListsOK
    <3>8. ASSUME NEW c \in Conn
          PROVE  /\ IsList(inbox'[c]) /\ IsList(stream'[c]) /\ LogsAreLists(stream'[c])
                 /\ c # t => inbox'[c] = inbox[c] /\ stream'[c] = stream[c]
      BY <3>3, <3>4, <3>5, <3>7, UnreadOfNothing
    <3> QED
      BY <3>6, <3>8
  <2> QED
    BY <1>3, <2>1, <2>2 DEF t
<1>6. TypeOK'
  BY <1>1, EnvironmentAssumption DEF IndInv, TypeOK, InSession
<1>7. FunctionsOK'
  <2>1. IsFunction(status', Conn)
    BY <1>4 DEF IsFunction
  <2> QED
    BY <1>1, <1>5, <2>1 DEF IndInv, FunctionsOK
<1>8. ListsOK'
  BY <1>1, <1>5 DEF IndInv, ListsOK
<1>9. NewConns'
  BY <1>1, <1>2, <1>4, <1>5 DEF IndInv, NewConns, InSession, Waits, TypeOK
<1>10. LogIsSeenOrUnread'
  <2>1. ASSUME NEW dl \in Client, IsOpen(dl)'
        PROVE  IsOpen(dl) /\ stream'[transport[dl]] = stream[transport[dl]]
    <3>1. transport[dl] # NoConn /\ status'[transport[dl]] = "open" /\ transport[dl] \in Conn
      BY <1>1, <2>1 DEF IsOpen, IndInv, TypeOK
    <3>2. transport[dl] # t /\ status[transport[dl]] = "open"
      BY <1>4, <3>1
    <3> QED
      BY <1>5, <3>1, <3>2 DEF IsOpen
  <2> QED
    BY <1>1, <2>1, SeenStays
<1> QED
  BY <1>6, <1>7, <1>8, <1>9, <1>10 DEF IndInv

\* The rooms of a server that starts again have nobody in them.
LEMMA RestartKeeps ==
  ASSUME IndInv, ServerRestarts
  PROVE  IndInv'
<1>1. /\ breaks < MaxBreaks /\ breaks' = breaks + 1
      /\ DOMAIN rooms' = {}
      /\ status' = [c \in Conn |-> IF status[c] = "unused" THEN "unused" ELSE "gone"]
      /\ inbox' = [c \in Conn |-> <<>>] /\ stream' = [c \in Conn |-> <<>>]
      /\ reconnect' = reconnect \cup {cl \in Client : InSession(cl)}
      /\ UNCHANGED <<session, transport, owner, known, lives, offlineQueue, syncReady, seedSent, edits>>
  BY DEF ServerRestarts, crdtVars
<1>2. TypeOK'
  BY <1>1, EnvironmentAssumption DEF IndInv, TypeOK, InSession
<1>3. FunctionsOK'
  <2>1. IsFunction(status', Conn) /\ IsFunction(inbox', Conn) /\ IsFunction(stream', Conn)
    BY <1>1 DEF IsFunction
  <2> QED
    BY <1>1, <2>1 DEF IndInv, FunctionsOK
<1>4. ListsOK'
  BY <1>1, UnreadOfNothing DEF IndInv, ListsOK
<1>5. NewConns'
  <2>1. \A cl \in Client : InSession(cl) => transport[cl] \in Conn /\ status[transport[cl]] # "unused"
    BY DEF IndInv, TypeOK, NewConns
  <2> QED
    BY <1>1, <2>1 DEF NewConns, InSession
<1>6. LogIsSeenOrUnread'
  BY <1>1 DEF LogIsSeenOrUnread, At
<1> QED
  BY <1>2, <1>3, <1>4, <1>5, <1>6 DEF IndInv

\* The connection of FreshConn was never used.
LEMMA FreshIsUnused ==
  ASSUME IndInv, \E c \in Conn : status[c] = "unused"
  PROVE  /\ FreshConn \in Conn /\ status[FreshConn] = "unused" /\ FreshConn # NoConn
         /\ \A cl \in Client : InSession(cl) => transport[cl] # FreshConn
<1>1. FreshConn \in Conn /\ status[FreshConn] = "unused"
  BY DEF FreshConn
<1> QED
  BY <1>1, NamesAssumption DEF IndInv, NewConns

LEMMA ReconnectKeeps ==
  ASSUME IndInv, NEW cl \in Client, Reconnect(cl)
  PROVE  IndInv'
<1> DEFINE new == FreshConn
<1>1. /\ cl \in reconnect /\ reconnect' = reconnect \ {cl}
      /\ \E c \in Conn : status[c] = "unused"
      /\ transport' = [transport EXCEPT ![cl] = new]
      /\ owner' = [owner EXCEPT ![new] = <<cl, lives[cl]>>]
      /\ status' = [status EXCEPT ![new] = "connecting"]
      /\ UNCHANGED <<rooms, inbox, stream, known, edits, session, syncReady, seedSent, offlineQueue, lives, breaks>>
  BY DEF Reconnect, ClearReconnectTimer, crdtVars
<1>2. /\ new \in Conn /\ status[new] = "unused" /\ new # NoConn
      /\ \A dl \in Client : InSession(dl) => transport[dl] # new
  BY <1>1, FreshIsUnused
<1> HIDE DEF new
<1>3. InSession(cl)
  BY <1>1 DEF IndInv, TypeOK
<1>4. transport' = [dl \in Client |-> IF dl = cl THEN new ELSE transport[dl]]
  BY <1>1 DEF IndInv, TypeOK
<1>5. /\ owner' = [c \in Conn |-> IF c = new THEN <<cl, lives[cl]>> ELSE owner[c]]
      /\ status' = [c \in Conn |-> IF c = new THEN "connecting" ELSE status[c]]
  BY <1>1 DEF IndInv, FunctionsOK, IsFunction
<1>6. TypeOK'
  <2>1. transport' \in [Client -> Conn \cup {NoConn}]
    BY <1>2, <1>4 DEF IndInv, TypeOK
  <2>2. \A dl \in Client : InSession(dl)' <=> transport'[dl] # NoConn
    BY <1>1, <1>2, <1>3, <1>4 DEF IndInv, TypeOK, InSession
  <2>3. \A dl \in Client : InSession(dl)' => owner'[transport'[dl]] = <<dl, lives'[dl]>>
    <3> SUFFICES ASSUME NEW dl \in Client, InSession(dl) PROVE owner'[transport'[dl]] = <<dl, lives[dl]>>
      BY <1>1 DEF InSession
    <3>1. CASE dl = cl
      BY <1>2, <1>4, <1>5, <3>1
    <3>2. CASE dl # cl
      <4>1. transport[dl] \in Conn /\ transport[dl] # new /\ owner[transport[dl]] = <<dl, lives[dl]>>
        BY <1>2 DEF IndInv, TypeOK
      <4> QED
        BY <1>4, <1>5, <3>2, <4>1
    <3> QED
      BY <3>1, <3>2
  <2> QED
    BY <1>1, <2>1, <2>2, <2>3 DEF IndInv, TypeOK, InSession
<1>7. FunctionsOK'
  <2>1. IsFunction(owner', Conn) /\ IsFunction(status', Conn)
    BY <1>5 DEF IsFunction
  <2>2. \A c \in Conn : owner'[c] # NoOwner => owner'[c][1] \in Client
    BY <1>5 DEF IndInv, FunctionsOK
  <2> QED
    BY <1>1, <2>1, <2>2 DEF IndInv, FunctionsOK
<1>8. ListsOK'
  BY <1>1 DEF IndInv, ListsOK
<1>9. NewConns'
  <2>1. ASSUME NEW dl \in Client, InSession(dl)' PROVE status'[transport'[dl]] # "unused"
    <3>1. InSession(dl) /\ transport[dl] \in Conn /\ status[transport[dl]] # "unused"
      BY <1>1, <2>1 DEF IndInv, TypeOK, NewConns, InSession
    <3> QED
      BY <1>2, <1>4, <1>5, <3>1
  <2>2. \A c \in Conn : Waits(c)' => Waits(c)
    BY <1>2, <1>5 DEF Waits
  <2> QED
    BY <1>1, <2>1, <2>2 DEF IndInv, NewConns
<1>10. LogIsSeenOrUnread'
  <2>1. ASSUME NEW dl \in Client, IsOpen(dl)' PROVE IsOpen(dl) /\ transport'[dl] = transport[dl]
    <3>1. dl # cl
      BY <1>2, <1>4, <1>5, <2>1 DEF IsOpen
    <3>2. transport'[dl] = transport[dl]
      BY <1>4, <3>1
    <3>3. transport[dl] # NoConn /\ status'[transport[dl]] = "open" /\ transport[dl] \in Conn
      BY <2>1, <3>2 DEF IsOpen, IndInv, TypeOK
    <3> QED
      BY <1>5, <3>2, <3>3 DEF IsOpen
  <2> QED
    BY <1>1, <2>1, SeenStays
<1> QED
  BY <1>6, <1>7, <1>8, <1>9, <1>10 DEF IndInv

\* leaveSession: the connection it had does not open any more.
LEMMA ChangeFacts ==
  ASSUME IndInv, NEW cl \in Client, NEW room, NEW new, ChangeSession(cl, room, new),
         new = NoConn \/ (new \in Conn /\ status[new] = "unused")
  PROVE  /\ session' = [dl \in Client |-> IF dl = cl THEN room ELSE session[dl]]
         /\ transport' = [dl \in Client |-> IF dl = cl THEN new ELSE transport[dl]]
         /\ known' = [dl \in Client |-> IF dl = cl THEN {} ELSE known[dl]]
         /\ offlineQueue' = [dl \in Client |-> IF dl = cl THEN <<>> ELSE offlineQueue[dl]]
         /\ syncReady' = syncReady \ {cl} /\ seedSent' = seedSent \ {cl} /\ reconnect' = reconnect \ {cl}
         /\ hydrated' = hydrated \ {cl}
         /\ inbox' = IF IsOpen(cl) THEN [inbox EXCEPT ![transport[cl]] = Append(inbox[transport[cl]], CloseMsg)]
                     ELSE inbox
         /\ UNCHANGED <<rooms, stream, edits, breaks, rendering>>
         /\ IsFunction(status', Conn)
         /\ \A c \in Conn : c = new => status[c] = "unused"
         /\ \A dl \in Client : InSession(dl) =>
              transport[dl] # new /\ transport[dl] \in Conn /\ status[transport[dl]] # "unused"
         /\ \A c \in Conn :
              /\ c = new => status'[c] = "connecting"
              /\ status'[c] = "open" => status[c] = "open"
              /\ status[c] # "unused" => status'[c] # "unused"
              /\ c # new /\ status'[c] \in {"unused", "connecting"} => status'[c] = status[c]
              /\ c # new /\ c # transport[cl] => status'[c] = status[c]
              /\ c = transport[cl] => status'[c] \notin {"connecting", "open"}
<1> DEFINE old == transport[cl]
           next(c) == CASE c = new -> "connecting"
                        [] c = old /\ status[c] = "open" -> "closing"
                        [] c = old /\ status[c] = "connecting" -> "gone"
                        [] OTHER -> status[c]
<1>1. /\ session' = [session EXCEPT ![cl] = room] /\ transport' = [transport EXCEPT ![cl] = new]
      /\ known' = [known EXCEPT ![cl] = {}]
      /\ syncReady' = syncReady \ {cl} /\ seedSent' = seedSent \ {cl} /\ reconnect' = reconnect \ {cl}
      /\ hydrated' = hydrated \ {cl}
      /\ offlineQueue' = [offlineQueue EXCEPT ![cl] = <<>>]
      /\ status' = [c \in Conn |-> next(c)]
      /\ inbox' = IF IsOpen(cl) THEN [inbox EXCEPT ![old] = Append(inbox[old], CloseMsg)] ELSE inbox
      /\ UNCHANGED <<rooms, stream, edits, breaks, rendering>>
  BY DEF ChangeSession, SyncReadyAfterLeave, ClearReconnectTimer, QueueAfterLeave
<1>2. /\ \A c \in Conn : c = new => status[c] = "unused"
      /\ \A dl \in Client : InSession(dl) =>
           transport[dl] # new /\ transport[dl] \in Conn /\ status[transport[dl]] # "unused"
  BY NamesAssumption DEF IndInv, TypeOK, NewConns
<1>3. /\ session' = [dl \in Client |-> IF dl = cl THEN room ELSE session[dl]]
      /\ transport' = [dl \in Client |-> IF dl = cl THEN new ELSE transport[dl]]
  BY <1>1 DEF IndInv, TypeOK
<1>4. /\ known' = [dl \in Client |-> IF dl = cl THEN {} ELSE known[dl]]
      /\ offlineQueue' = [dl \in Client |-> IF dl = cl THEN <<>> ELSE offlineQueue[dl]]
  BY <1>1 DEF IndInv, FunctionsOK, IsFunction
<1>5. \A c \in Conn : c = old => c # new
  <2>1. \A c \in Conn : c = old => InSession(cl)
    BY NamesAssumption DEF IndInv, TypeOK
  <2> QED
    BY <1>2, <2>1
<1>6. ASSUME NEW c \in Conn
      PROVE  /\ c = new => next(c) = "connecting"
             /\ next(c) = "open" => status[c] = "open"
             /\ status[c] # "unused" => next(c) # "unused"
             /\ c # new /\ next(c) \in {"unused", "connecting"} => next(c) = status[c]
             /\ c # new /\ c # old => next(c) = status[c]
             /\ c = old => next(c) \notin {"connecting", "open"}
  <2>1. CASE c = new
    <3>1. status[c] = "unused" /\ c # old
      BY <1>2, <1>5, <2>1
    <3>2. next(c) = "connecting"
      BY <2>1, <3>1
    <3> QED
      BY <2>1, <3>1, <3>2
  <2>2. CASE c # new
    <3>1. CASE c = old /\ status[c] = "open"
      <4>1. next(c) = "closing"
        BY <2>2, <3>1
      <4> QED
        BY <2>2, <3>1, <4>1
    <3>2. CASE c = old /\ status[c] = "connecting"
      <4>1. next(c) = "gone"
        BY <2>2, <3>2
      <4> QED
        BY <2>2, <3>2, <4>1
    <3>3. CASE ~(c = old /\ status[c] = "open") /\ ~(c = old /\ status[c] = "connecting")
      <4>1. next(c) = status[c]
        BY <2>2, <3>3
      <4> QED
        BY <2>2, <3>3, <4>1
    <3> QED
      BY <3>1, <3>2, <3>3
  <2> QED
    BY <2>1, <2>2
<1> HIDE DEF next
<1>7. IsFunction(status', Conn) /\ \A c \in Conn : status'[c] = next(c)
  BY <1>1 DEF IsFunction
<1> QED
  BY <1>1, <1>2, <1>3, <1>4, <1>6, <1>7

\* leaveSession, whatever session follows: to room with an unused connection,
\* or to none.
LEMMA ChangeKeeps ==
  ASSUME IndInv, NEW cl \in Client, NEW room, NEW new, ChangeSession(cl, room, new),
         IsFunction(owner', Conn), \A c \in Conn : owner'[c] # NoOwner => owner'[c][1] \in Client,
         IsFunction(lives', Client),
         \A dl \in Client : dl # cl => lives'[dl] = lives[dl],
         \A c \in Conn : c # new => owner'[c] = owner[c],
         \/ room = NoRoom /\ new = NoConn
         \/ /\ room \in Room /\ new \in Conn /\ status[new] = "unused"
            /\ owner'[new] = <<cl, lives'[cl]>>
  PROVE  IndInv'
<1> DEFINE old == transport[cl]
<1>1. /\ syncReady' = syncReady \ {cl} /\ seedSent' = seedSent \ {cl} /\ reconnect' = reconnect \ {cl}
      /\ inbox' = IF IsOpen(cl) THEN [inbox EXCEPT ![old] = Append(inbox[old], CloseMsg)] ELSE inbox
      /\ UNCHANGED <<rooms, stream, edits, breaks>>
  BY ChangeFacts
<1>2. /\ \A c \in Conn : c = new => status[c] = "unused"
      /\ \A dl \in Client : InSession(dl) =>
           transport[dl] # new /\ transport[dl] \in Conn /\ status[transport[dl]] # "unused"
  BY ChangeFacts
<1>3. /\ session' = [dl \in Client |-> IF dl = cl THEN room ELSE session[dl]]
      /\ transport' = [dl \in Client |-> IF dl = cl THEN new ELSE transport[dl]]
  BY ChangeFacts
<1>4. /\ known' = [dl \in Client |-> IF dl = cl THEN {} ELSE known[dl]]
      /\ offlineQueue' = [dl \in Client |-> IF dl = cl THEN <<>> ELSE offlineQueue[dl]]
      /\ IsFunction(status', Conn)
  BY ChangeFacts
<1> HIDE DEF old
<1>5. \A c \in Conn :
        /\ c = new => status'[c] = "connecting"
        /\ status'[c] = "open" => status[c] = "open"
        /\ status[c] # "unused" => status'[c] # "unused"
        /\ c # new /\ status'[c] \in {"unused", "connecting"} => status'[c] = status[c]
  BY ChangeFacts
<1>6. TypeOK'
  <2>1. session' \in [Client -> Room \cup {NoRoom}] /\ transport' \in [Client -> Conn \cup {NoConn}]
    BY <1>3 DEF IndInv, TypeOK
  <2>2. \A dl \in Client : InSession(dl)' <=> transport'[dl] # NoConn
    BY <1>3, NamesAssumption DEF IndInv, TypeOK, InSession
  <2>3. \A dl \in Client : ~InSession(dl)' => offlineQueue'[dl] = <<>> /\ dl \notin reconnect'
    BY <1>1, <1>3, <1>4 DEF IndInv, TypeOK, InSession
  <2>4. ASSUME NEW dl \in Client, InSession(dl)' PROVE owner'[transport'[dl]] = <<dl, lives'[dl]>>
    <3>1. CASE dl = cl
      BY <1>3, <2>4, <3>1 DEF InSession
    <3>2. CASE dl # cl
      <4>1. InSession(dl) /\ transport'[dl] = transport[dl]
        BY <1>3, <2>4, <3>2 DEF InSession
      <4>2. transport[dl] \in Conn /\ transport[dl] # new /\ owner[transport[dl]] = <<dl, lives[dl]>>
        BY <1>2, <4>1 DEF IndInv, TypeOK
      <4> QED
        BY <3>2, <4>1, <4>2
    <3> QED
      BY <3>1, <3>2
  <2> QED
    BY <1>1, <2>1, <2>2, <2>3, <2>4 DEF IndInv, TypeOK
<1>7. /\ IsFunction(inbox', Conn) /\ \A c \in Conn : IsList(inbox'[c])
      /\ \A c \in Conn : Waits(c) => inbox'[c] = inbox[c]
  <2>1. CASE ~IsOpen(cl)
    BY <1>1, <2>1 DEF IndInv, FunctionsOK, ListsOK
  <2>2. CASE IsOpen(cl)
    <3>1. status[old] = "open" /\ old \in Conn
      BY <2>2 DEF old, IsOpen, IndInv, TypeOK
    <3>2. inbox' = [c \in Conn |-> IF c = old THEN Append(inbox[old], CloseMsg) ELSE inbox[c]]
      BY <1>1, <2>2 DEF IndInv, FunctionsOK, IsFunction
    <3>3. \A c \in Conn : IsList(inbox[c])
      BY DEF IndInv, ListsOK
    <3>4. IsList(Append(inbox[old], CloseMsg))
      BY <3>1, <3>3, ListAppend
    <3>5. ~Waits(old)
      BY <3>1 DEF Waits
    <3>6. IsFunction(inbox', Conn)
      BY <3>2 DEF IsFunction
    <3> QED
      BY <3>2, <3>3, <3>4, <3>5, <3>6
  <2> QED
    BY <2>1, <2>2
<1>8. FunctionsOK'
  <2>1. IsFunction(known', Client) /\ IsFunction(offlineQueue', Client)
    BY <1>4 DEF IsFunction
  <2> QED
    BY <1>1, <1>4, <1>7, <2>1 DEF IndInv, FunctionsOK
<1>9. ListsOK'
  <2>1. \A dl \in Client : IsList(offlineQueue'[dl])
    BY <1>4, EmptyList DEF IndInv, ListsOK
  <2> QED
    BY <1>1, <1>7, <2>1 DEF IndInv, ListsOK
<1>10. NewConns'
  <2>1. ASSUME NEW dl \in Client, InSession(dl)' PROVE status'[transport'[dl]] # "unused"
    <3>1. CASE dl = cl
      BY <1>3, <1>5, <2>1, <3>1 DEF InSession
    <3>2. CASE dl # cl
      BY <1>2, <1>3, <1>5, <2>1, <3>2 DEF InSession
    <3> QED
      BY <3>1, <3>2
  <2>2. \A c \in Conn : Waits(c)' => Waits(c)
    BY <1>2, <1>5 DEF Waits
  <2>3. \A c \in Conn : Waits(c)' => inbox'[c] = <<>>
    BY <1>7, <2>2 DEF IndInv, NewConns
  <2>4. \A c \in Conn : Waits(c)' => \A r \in DOMAIN rooms' : c \notin PeerConns(rooms'[r].peers)
    BY <1>1, <2>2 DEF IndInv, NewConns
  <2> QED
    BY <2>1, <2>3, <2>4 DEF NewConns
<1>11. LogIsSeenOrUnread'
  <2>1. ASSUME NEW dl \in Client, IsOpen(dl)' 
        PROVE  /\ IsOpen(dl) /\ transport'[dl] = transport[dl] /\ session'[dl] = session[dl]
               /\ known'[dl] = known[dl]
    <3>1. transport'[dl] # NoConn /\ status'[transport'[dl]] = "open"
      BY <2>1 DEF IsOpen
    <3>2. dl # cl
      BY <1>3, <1>5, <3>1
    <3>3. transport'[dl] = transport[dl] /\ session'[dl] = session[dl] /\ known'[dl] = known[dl]
      BY <1>3, <1>4, <3>2
    <3>4. transport[dl] \in Conn
      BY <3>1, <3>3 DEF IndInv, TypeOK
    <3>5. IsOpen(dl)
      BY <1>5, <3>1, <3>3, <3>4 DEF IsOpen
    <3> QED
      BY <3>3, <3>5
  <2> QED
    BY <1>1, <2>1, SeenStays
<1> QED
  BY <1>6, <1>8, <1>9, <1>10, <1>11 DEF IndInv

LEMMA StartKeeps ==
  ASSUME IndInv, NEW cl \in Client, NEW room \in Room, StartSession(cl, room)
  PROVE  IndInv'
<1> DEFINE new == FreshConn
<1>1. /\ \E c \in Conn : status[c] = "unused"
      /\ ChangeSession(cl, room, new)
      /\ lives' = [lives EXCEPT ![cl] = lives[cl] + 1]
      /\ owner' = [owner EXCEPT ![new] = <<cl, lives[cl] + 1>>]
  BY DEF StartSession
<1>2. new \in Conn /\ status[new] = "unused"
  BY <1>1, FreshIsUnused
<1> HIDE DEF new
<1>3. /\ lives' = [dl \in Client |-> IF dl = cl THEN lives[cl] + 1 ELSE lives[dl]]
      /\ owner' = [c \in Conn |-> IF c = new THEN <<cl, lives[cl] + 1>> ELSE owner[c]]
  BY <1>1 DEF IndInv, FunctionsOK, IsFunction
<1>4. IsFunction(lives', Client) /\ IsFunction(owner', Conn)
  BY <1>3 DEF IsFunction
<1>5. \A c \in Conn : owner'[c] # NoOwner => owner'[c][1] \in Client
  BY <1>3 DEF IndInv, FunctionsOK
<1>6. /\ \A dl \in Client : dl # cl => lives'[dl] = lives[dl]
      /\ \A c \in Conn : c # new => owner'[c] = owner[c]
      /\ owner'[new] = <<cl, lives'[cl]>>
  BY <1>2, <1>3
<1> QED
  BY <1>1, <1>2, <1>4, <1>5, <1>6, ChangeKeeps

LEMMA LeaveKeeps ==
  ASSUME IndInv, NEW cl \in Client, LeaveSession(cl)
  PROVE  IndInv'
<1>1. ChangeSession(cl, NoRoom, NoConn) /\ UNCHANGED <<lives, owner>>
  BY DEF LeaveSession
<1>2. /\ IsFunction(lives', Client) /\ IsFunction(owner', Conn)
      /\ \A c \in Conn : owner'[c] # NoOwner => owner'[c][1] \in Client
  BY <1>1 DEF IndInv, FunctionsOK
<1> QED
  BY <1>1, <1>2, ChangeKeeps

-----------------------------------------------------------------------------
(* The invariant.                                                          *)

LEMMA InitIndInv == Init => IndInv
<1> SUFFICES ASSUME Init PROVE IndInv
  OBVIOUS
<1>1. /\ rooms = [room \in {} |-> NewRoom] /\ inbox = [c \in Conn |-> <<>>] /\ stream = [c \in Conn |-> <<>>]
      /\ status = [c \in Conn |-> "unused"]
      /\ session = [cl \in Client |-> NoRoom] /\ transport = [cl \in Client |-> NoConn]
      /\ owner = [c \in Conn |-> NoOwner] /\ known = [cl \in Client |-> {}]
      /\ syncReady = {} /\ seedSent = {} /\ offlineQueue = [cl \in Client |-> <<>>]
      /\ reconnect = {} /\ lives = [cl \in Client |-> 0] /\ edits = [cl \in Client |-> 0] /\ breaks = 0
  BY DEF Init, ServerInit, ConnInit
<1>2. TypeOK
  BY <1>1, EnvironmentAssumption DEF TypeOK, InSession
<1>3. FunctionsOK
  <2>1. \A c \in Conn : owner[c] = NoOwner
    BY <1>1
  <2> QED
    BY <1>1, <2>1 DEF FunctionsOK, IsFunction
<1>4. ListsOK
  BY <1>1, UnreadOfNothing DEF ListsOK
<1>5. NewConns
  BY <1>1 DEF NewConns, InSession
<1>6. LogIsSeenOrUnread
  BY <1>1 DEF LogIsSeenOrUnread, IsOpen
<1> QED
  BY <1>2, <1>3, <1>4, <1>5, <1>6 DEF IndInv

LEMMA NextIndInv == IndInv /\ [Next]_vars => IndInv'
<1> SUFFICES ASSUME IndInv, [Next]_vars PROVE IndInv'
  OBVIOUS
<1>1. ASSUME NEW c \in Conn, Server(c) \/ Message(c) PROVE IndInv'
  BY <1>1, ServerStep, MessageStep
<1>2. ASSUME NEW cl \in Client, NEW room \in Room, StartSession(cl, room) PROVE IndInv'
  BY <1>2, StartKeeps
<1>3. ASSUME NEW cl \in Client, LeaveSession(cl) \/ (\E dep : Edit(cl, dep)) PROVE IndInv'
  BY <1>3, LeaveKeeps, EditKeeps
<1>4. ASSUME NEW cl \in Client, SocketOpens(cl) \/ SocketCloses(cl) \/ Reconnect(cl) PROVE IndInv'
  BY <1>4, OpenKeeps, BreakKeeps, ReconnectKeeps
<1>5. ASSUME NEW cl \in Client, NEW i \in DOMAIN rendering[cl], RenderDone(cl, i) PROVE IndInv'
  BY <1>5, RenderKeeps
<1>6. CASE ServerRestarts
  BY <1>6, RestartKeeps
<1>7. CASE UNCHANGED vars
  <2>1. UNCHANGED <<rooms, inbox, stream, status, session, transport, owner, known, syncReady,
                    seedSent, offlineQueue, reconnect, lives, edits, breaks>>
    BY <1>7 DEF vars, serverVars, connVars, clientVars, crdtVars, managerVars
  <2>2. BoxOK(inbox') /\ QueueOK(offlineQueue')
    BY <2>1, BoxesAndQueues DEF QueueOK
  <2>3. IsFunction(stream', Conn) /\ IsFunction(known', Client)
    BY <2>1 DEF IndInv, FunctionsOK
  <2>4. \A c \in Conn : IsList(stream'[c]) /\ LogsAreLists(stream'[c])
    BY <2>1, StreamsAsTheyAre
  <2>5. syncReady' \subseteq Client /\ seedSent' \subseteq Client /\ edits' \in [Client -> Nat]
    BY <2>1 DEF IndInv, TypeOK
  <2> QED
    BY <2>1, <2>2, <2>3, <2>4, <2>5, WithinSession
<1> QED
  BY <1>1, <1>2, <1>3, <1>4, <1>5, <1>6, <1>7 DEF Next

THEOREM IndInvHolds == Spec => []IndInv
BY InitIndInv, NextIndInv, PTL DEF Spec

\* The fields of the session manager have their types; a queue and a timer
\* belong to a session, a session has a transport, which was opened for it
\* (connect, leaveSession and openTransport of sessionManager.ts).
THEOREM SessionTypes == Spec => []TypeOK
<1>1. IndInv => TypeOK
  BY DEF IndInv
<1> QED
  BY <1>1, IndInvHolds, PTL

\* A client that is registered in a room and has read its connection has seen
\* the whole log of the room: a join is answered with the log and every new
\* operation goes to everybody registered (server.rs), and no message of a
\* session's own connection is passed over (handleTransportJoined and
\* handleTransportOperation of sessionManager.ts) - whatever is lost, late or
\* handled for another session, and however often the server starts again.
THEOREM LogIsSeen == Spec => []ReadersHaveSeenTheLog
<1>1. ASSUME IndInv, NEW cl \in Client, Registered(cl), AllRead(cl)
      PROVE  {o.id : o \in Log(session[cl])} \subseteq {o.id : o \in known[cl]}
  <2>1. IsOpen(cl) /\ At(rooms, session[cl], cl, transport[cl])
    BY <1>1 DEF Registered, IsActiveSender, At
  <2>2. LogIds(rooms, session[cl]) \subseteq OpIds(known[cl]) \cup Unread(stream[transport[cl]])
    BY <1>1, <2>1 DEF IndInv, LogIsSeenOrUnread
  <2>3. Unread(stream[transport[cl]]) = {}
    BY <1>1, UnreadOfNothing DEF AllRead
  <2>4. Log(session[cl]) = Range(rooms[session[cl]].log)
    BY <2>1 DEF Log, RoomOf, At
  <2> QED
    BY <2>2, <2>3, <2>4 DEF LogIds, OpIds
<1>2. IndInv => ReadersHaveSeenTheLog
  BY <1>1 DEF ReadersHaveSeenTheLog
<1> QED
  BY <1>2, IndInvHolds, PTL

-----------------------------------------------------------------------------
(* Whose connection is open.                                               *)

\* A connection that is open, or will be, is the transport of a session; a
\* timer runs for a session whose connection is gone.
LinkInv ==
  /\ IsFunction(rendering, Client)
  /\ \A c \in Conn : status[c] \in {"connecting", "open"} =>
       owner[c] # NoOwner /\ transport[TheOwner(c)] = c
  /\ \A cl \in Client : cl \in reconnect => status[transport[cl]] = "gone"

\* A session that waits for a render, or takes edits, was given its log.
LogCameFirst ==
  /\ \A cl \in Client : rendering[cl] # <<>> => cl \in hydrated
  /\ syncReady \subseteq hydrated

\* An operation of a room.  Its number is one that ids are counted with; a
\* client that takes late messages may count with those of another room, and
\* this says nothing of them.
BelongsTo(o, room) == o.room = room /\ (LateDelivery \/ o.id[2] \in Nat)

\* What was sent, to the server or by it, belongs to a room.
OfRoom(msgs, room) ==
  \A m \in msgs :
    /\ m.type \in {"join", "operation"} => m.room = room
    /\ m.type = "operation" => BelongsTo(m.op, room)
    /\ m.type = "joined" => \A o \in Range(m.opLog) : BelongsTo(o, room)

\* So does everything that a session holds, or that its connection carries.
LogsOfRooms(rs) == \A room \in DOMAIN rs : \A o \in Range(rs[room].log) : BelongsTo(o, room)
SentOfRooms(box) ==
  /\ \A c \in Conn : \A m \in Range(box[c]) : m.type = "operation" => BelongsTo(m.op, m.room)
  /\ \A cl \in Client : InSession(cl) => OfRoom(Range(box[transport[cl]]), session[cl])
HeldOfRooms(ops) ==
  LateDelivery \/ \A cl \in Client : /\ IsFiniteSet(ops[cl])
                                     /\ InSession(cl) => \A o \in ops[cl] : BelongsTo(o, session[cl])
QueuedOfRooms(queue) ==
  \A cl \in Client : InSession(cl) => \A o \in Range(queue[cl]) : BelongsTo(o, session[cl])
RoomsInv ==
  /\ LogsOfRooms(rooms) /\ SentOfRooms(inbox) /\ HeldOfRooms(known)
  /\ QueuedOfRooms(offlineQueue)
  /\ \A c \in Conn : Waits(c) => stream[c] = <<>>
  /\ \A cl \in Client : InSession(cl) =>
       /\ OfRoom(Range(stream[transport[cl]]), session[cl])
       /\ \A room \in DOMAIN rooms : transport[cl] \in PeerConns(rooms[room].peers) => room = session[cl]

LEMMA LinkInit == Init => LinkInv
BY DEF Init, ServerInit, ConnInit, LinkInv, IsFunction

LEMMA LinkOfChange ==
  ASSUME IndInv, LinkInv, NEW cl \in Client, NEW room, NEW new, ChangeSession(cl, room, new),
         \A c \in Conn : c # new => owner'[c] = owner[c],
         \/ new = NoConn
         \/ /\ new \in Conn /\ status[new] = "unused"
            /\ owner'[new] # NoOwner /\ owner'[new][1] = cl
  PROVE  LinkInv'
<1>1. /\ transport' = [dl \in Client |-> IF dl = cl THEN new ELSE transport[dl]]
      /\ reconnect' = reconnect \ {cl} /\ rendering' = rendering
      /\ \A c \in Conn : c = new => status[c] = "unused"
      /\ \A dl \in Client : InSession(dl) =>
           transport[dl] # new /\ transport[dl] \in Conn /\ status[transport[dl]] # "unused"
  BY ChangeFacts
<1>2. \A c \in Conn :
        /\ status'[c] = "open" => status[c] = "open"
        /\ c # new /\ status'[c] \in {"unused", "connecting"} => status'[c] = status[c]
        /\ c # new /\ c # transport[cl] => status'[c] = status[c]
        /\ c = transport[cl] => status'[c] \notin {"connecting", "open"}
  BY ChangeFacts
<1>3. ASSUME NEW c \in Conn, status'[c] \in {"connecting", "open"}
      PROVE  owner'[c] # NoOwner /\ transport'[owner'[c][1]] = c
  <2>1. CASE c = new
    BY <1>1, <2>1, NamesAssumption
  <2>2. CASE c # new
    <3>1. status[c] \in {"connecting", "open"} /\ c # transport[cl]
      BY <1>2, <1>3, <2>2
    <3>2. owner'[c] = owner[c] /\ owner[c] # NoOwner /\ transport[owner[c][1]] = c /\ owner[c][1] \in Client
      BY <2>2, <3>1 DEF LinkInv, TheOwner, IndInv, FunctionsOK
    <3> QED
      BY <1>1, <3>1, <3>2
  <2> QED
    BY <2>1, <2>2
<1>4. ASSUME NEW dl \in Client, dl \in reconnect'
      PROVE  status'[transport'[dl]] = "gone"
  <2>1. dl # cl /\ dl \in reconnect /\ InSession(dl) /\ status[transport[dl]] = "gone"
    BY <1>1, <1>4 DEF LinkInv, IndInv, TypeOK
  <2>2. transport'[dl] = transport[dl] /\ transport[dl] # new /\ transport[dl] \in Conn
    BY <1>1, <2>1
  <2>3. transport[dl] # transport[cl]
    <3> SUFFICES ASSUME transport[dl] = transport[cl] PROVE FALSE
      OBVIOUS
    <3>1. InSession(cl)
      BY <2>1 DEF IndInv, TypeOK
    <3>2. owner[transport[dl]] = <<dl, lives[dl]>> /\ owner[transport[cl]] = <<cl, lives[cl]>>
      BY <2>1, <3>1 DEF IndInv, TypeOK
    <3> QED
      BY <2>1, <3>2
  <2> QED
    BY <1>2, <2>1, <2>2, <2>3
<1>5. IsFunction(rendering', Client)
  BY <1>1 DEF LinkInv
<1> QED
  BY <1>3, <1>4, <1>5 DEF LinkInv, TheOwner

LEMMA LinkStep == IndInv /\ LinkInv /\ [Next]_vars => LinkInv'
<1> SUFFICES ASSUME IndInv, LinkInv, [Next]_vars PROVE LinkInv'
  OBVIOUS
<1>1. CASE UNCHANGED <<status, owner, transport, reconnect>> /\ IsFunction(rendering', Client)
  BY <1>1 DEF LinkInv, TheOwner
<1>2. ASSUME UNCHANGED <<status, owner, transport, reconnect>>,
             UNCHANGED rendering \/ \E cl, s : rendering' = [rendering EXCEPT ![cl] = s]
      PROVE  LinkInv'
  <2>1. IsFunction(rendering, Client)
    BY DEF LinkInv
  <2>2. IsFunction(rendering', Client)
    <3>1. CASE UNCHANGED rendering
      BY <2>1, <3>1
    <3>2. CASE \E cl, s : rendering' = [rendering EXCEPT ![cl] = s]
      <4>1. PICK cl, s : rendering' = [rendering EXCEPT ![cl] = s]
        BY <3>2
      <4>2. rendering' = [x \in Client |-> IF x = cl THEN s ELSE rendering[x]]
        BY <2>1, <4>1 DEF IsFunction
      <4> QED
        BY <4>2 DEF IsFunction
    <3> QED
      BY <1>2, <3>1, <3>2
  <2> QED
    BY <1>1, <1>2, <2>2
<1>3. ASSUME NEW c \in Conn, Server(c) PROVE LinkInv'
  <2>1. UNCHANGED <<status, owner, transport, reconnect, rendering>>
    BY <1>3 DEF Server, Handle, HandleJoin, RejectOperation, IgnoreOperation, AcceptOperation,
                HandleClose, clientVars, managerVars
  <2> QED
    BY <1>2, <2>1
<1>4. ASSUME NEW c \in Conn, Message(c) PROVE LinkInv'
  <2>1. CASE HandleNothing(c) \/ HandleTransportOperation(c)
    <3>1. UNCHANGED <<status, owner, transport, reconnect, rendering>>
      BY <2>1 DEF HandleNothing, HandleTransportOperation, Reading, clientVars, managerVars
    <3> QED
      BY <1>2, <3>1
  <2>2. CASE ReplayLog(c)
    BY <1>2, <2>2 DEF ReplayLog, Reading
  <2>3. CASE EmptyLog(c)
    BY <1>2, <2>3 DEF EmptyLog, Reading
  <2> QED
    BY <1>4, <2>1, <2>2, <2>3 DEF Message
<1>5. ASSUME NEW cl \in Client, NEW room \in Room, StartSession(cl, room) PROVE LinkInv'
  <2>1. /\ ChangeSession(cl, room, FreshConn) /\ \E c \in Conn : status[c] = "unused"
        /\ owner' = [owner EXCEPT ![FreshConn] = <<cl, lives[cl] + 1>>]
    BY <1>5 DEF StartSession
  <2>2. FreshConn \in Conn /\ status[FreshConn] = "unused"
    BY <2>1, FreshIsUnused
  <2>3. owner' = [c \in Conn |-> IF c = FreshConn THEN <<cl, lives[cl] + 1>> ELSE owner[c]]
    BY <2>1 DEF IndInv, FunctionsOK, IsFunction
  <2>4. /\ \A c \in Conn : c # FreshConn => owner'[c] = owner[c]
        /\ owner'[FreshConn] # NoOwner /\ owner'[FreshConn][1] = cl
    BY <2>2, <2>3 DEF NoOwner
  <2> QED
    BY <2>1, <2>2, <2>4, LinkOfChange
<1>6. ASSUME NEW cl \in Client, LeaveSession(cl) PROVE LinkInv'
  <2>1. ChangeSession(cl, NoRoom, NoConn) /\ owner' = owner
    BY <1>6 DEF LeaveSession
  <2> QED
    BY <2>1, LinkOfChange
<1>7. ASSUME NEW cl \in Client, NEW dep, Edit(cl, dep) PROVE LinkInv'
  BY <1>2, <1>7 DEF Edit
<1>8. ASSUME NEW cl \in Client, NEW i \in DOMAIN rendering[cl], RenderDone(cl, i) PROVE LinkInv'
  BY <1>2, <1>8 DEF RenderDone
<1>9. ASSUME NEW cl \in Client, SocketOpens(cl) PROVE LinkInv'
  <2>1. /\ transport[cl] # NoConn /\ status[transport[cl]] = "connecting"
        /\ status' = [status EXCEPT ![transport[cl]] = "open"]
        /\ UNCHANGED <<owner, transport, reconnect, rendering>>
    BY <1>9 DEF SocketOpens, Open, clientVars, managerVars
  <2>2. status' = [c \in Conn |-> IF c = transport[cl] THEN "open" ELSE status[c]]
    BY <2>1 DEF IndInv, FunctionsOK, IsFunction
  <2>3. \A dl \in Client : dl \in reconnect => transport[dl] \in Conn
    BY DEF IndInv, TypeOK
  <2> QED
    BY <2>1, <2>2, <2>3 DEF LinkInv, TheOwner
<1>10. ASSUME NEW cl \in Client, SocketCloses(cl) PROVE LinkInv'
  <2>1. /\ InSession(cl)
        /\ status' = [status EXCEPT ![transport[cl]] = "gone"]
        /\ reconnect' = reconnect \cup {cl}
        /\ UNCHANGED <<owner, transport, rendering>>
    BY <1>10 DEF SocketCloses, Disconnect
  <2>2. status' = [c \in Conn |-> IF c = transport[cl] THEN "gone" ELSE status[c]]
    BY <2>1 DEF IndInv, FunctionsOK, IsFunction
  <2>3. \A dl \in Client : InSession(dl) => transport[dl] \in Conn
    BY DEF IndInv, TypeOK
  <2>4. \A dl \in Client : dl \in reconnect => InSession(dl)
    BY DEF IndInv, TypeOK
  <2> QED
    BY <2>1, <2>2, <2>3, <2>4 DEF LinkInv, TheOwner
<1>11. ASSUME NEW cl \in Client, Reconnect(cl) PROVE LinkInv'
  <2>1. /\ cl \in reconnect /\ reconnect' = reconnect \ {cl} /\ rendering' = rendering
        /\ transport' = [transport EXCEPT ![cl] = FreshConn]
        /\ owner' = [owner EXCEPT ![FreshConn] = <<cl, lives[cl]>>]
        /\ status' = [status EXCEPT ![FreshConn] = "connecting"]
        /\ \E c \in Conn : status[c] = "unused"
    BY <1>11 DEF Reconnect, ClearReconnectTimer
  <2>2. /\ FreshConn \in Conn /\ status[FreshConn] = "unused"
        /\ \A dl \in Client : InSession(dl) => transport[dl] # FreshConn
    BY <2>1, FreshIsUnused
  <2> DEFINE new == FreshConn
  <2> HIDE DEF new
  <2>3. transport' = [dl \in Client |-> IF dl = cl THEN new ELSE transport[dl]]
    BY <2>1 DEF IndInv, TypeOK, new
  <2>4. /\ owner' = [c \in Conn |-> IF c = new THEN <<cl, lives[cl]>> ELSE owner[c]]
        /\ status' = [c \in Conn |-> IF c = new THEN "connecting" ELSE status[c]]
    BY <2>1 DEF IndInv, FunctionsOK, IsFunction, new
  <2>5. new \in Conn /\ \A dl \in Client : InSession(dl) => transport[dl] # new
    BY <2>2 DEF new
  <2>6. ASSUME NEW c \in Conn, status'[c] \in {"connecting", "open"}
        PROVE  owner'[c] # NoOwner /\ transport'[owner'[c][1]] = c
    <3>1. CASE c = new
      BY <2>3, <2>4, <3>1 DEF NoOwner
    <3>2. CASE c # new
      <4>1. status[c] \in {"connecting", "open"} /\ owner'[c] = owner[c]
        BY <2>4, <2>6, <3>2
      <4>2. owner[c] # NoOwner /\ transport[owner[c][1]] = c /\ owner[c][1] \in Client
        BY <4>1 DEF LinkInv, TheOwner, IndInv, FunctionsOK
      <4>3. transport[cl] # c
        BY <2>1, <4>1 DEF LinkInv
      <4> QED
        BY <2>3, <4>1, <4>2, <4>3
    <3> QED
      BY <3>1, <3>2
  <2>7. ASSUME NEW dl \in Client, dl \in reconnect' PROVE status'[transport'[dl]] = "gone"
    <3>1. dl # cl /\ dl \in reconnect /\ status[transport[dl]] = "gone"
      BY <2>1, <2>7 DEF LinkInv
    <3>2. transport[dl] \in Conn /\ transport[dl] # new
      BY <2>5, <3>1 DEF IndInv, TypeOK
    <3> QED
      BY <2>3, <2>4, <3>1, <3>2
  <2> QED
    BY <2>1, <2>6, <2>7 DEF LinkInv, TheOwner
<1>12. CASE ServerRestarts
  <2>1. /\ status' = [c \in Conn |-> IF status[c] = "unused" THEN "unused" ELSE "gone"]
        /\ reconnect' = reconnect \cup {cl \in Client : InSession(cl)}
        /\ UNCHANGED <<owner, transport, rendering>>
    BY <1>12 DEF ServerRestarts
  <2>2. \A dl \in Client : InSession(dl) => transport[dl] \in Conn /\ status[transport[dl]] # "unused"
    BY DEF IndInv, TypeOK, NewConns
  <2>3. \A dl \in Client : dl \in reconnect => InSession(dl)
    BY DEF IndInv, TypeOK
  <2> QED
    BY <2>1, <2>2, <2>3 DEF LinkInv, TheOwner
<1>13. CASE UNCHANGED vars
  BY <1>2, <1>13 DEF vars, serverVars, connVars, clientVars, managerVars
<1> QED
  BY <1>3, <1>4, <1>5, <1>6, <1>7, <1>8, <1>9, <1>10, <1>11, <1>12, <1>13 DEF Next

\* A closed socket that delivers nothing: a message is read in the session whose
\* connection it came by.
LEMMA ReadsItsOwn ==
  ASSUME ~LateDelivery, IndInv, LinkInv, NEW c \in Conn, NEW type, Reading(c, type)
  PROVE  /\ TheOwner(c) \in Client /\ transport[TheOwner(c)] = c
         /\ OwnerLife(c) = lives[TheOwner(c)]
<1>1. status[c] = "open"
  BY DEF Reading
<1>2. TheOwner(c) \in Client /\ transport[TheOwner(c)] = c
  BY <1>1 DEF LinkInv, IndInv, FunctionsOK, TheOwner
<1>3. InSession(TheOwner(c))
  BY <1>2, NamesAssumption DEF IndInv, TypeOK
<1>4. owner[c] = <<TheOwner(c), lives[TheOwner(c)]>>
  BY <1>2, <1>3 DEF IndInv, TypeOK
<1> QED
  BY <1>2, <1>4 DEF OwnerLife

-----------------------------------------------------------------------------
(* No edit before the log.                                                 *)

LEMMA LogFirstStep ==
  ASSUME ~LateDelivery, ~SlowRender, IndInv, LinkInv, LogCameFirst, [Next]_vars
  PROVE  LogCameFirst'
<1>1. CASE UNCHANGED <<rendering, hydrated, syncReady>>
  BY <1>1 DEF LogCameFirst
<1>2. ASSUME NEW c \in Conn, Server(c) PROVE LogCameFirst'
  BY <1>1, <1>2 DEF Server, clientVars, managerVars
<1>3. ASSUME NEW c \in Conn, Message(c) PROVE LogCameFirst'
  <2>1. CASE HandleNothing(c) \/ HandleTransportOperation(c)
    BY <1>1, <2>1 DEF HandleNothing, HandleTransportOperation, clientVars, managerVars
  <2>2. CASE ReplayLog(c)
    <3>1. /\ Reading(c, "joined") /\ syncReady' = syncReady
          /\ rendering' = [rendering EXCEPT ![TheOwner(c)] = Append(rendering[TheOwner(c)], lives[TheOwner(c)])]
          /\ Hydrated(TheOwner(c), c)
      BY <2>2 DEF ReplayLog
    <3>2. hydrated' = hydrated \cup {TheOwner(c)}
      BY <3>1, ReadsItsOwn DEF Hydrated
    <3>3. \A cl \in Client : cl # TheOwner(c) => rendering'[cl] = rendering[cl]
      BY <3>1 DEF LinkInv, IsFunction
    <3> QED
      BY <3>1, <3>2, <3>3 DEF LogCameFirst
  <2>3. CASE EmptyLog(c)
    <3>1. Reading(c, "joined") /\ rendering' = rendering /\ Hydrated(TheOwner(c), c)
      BY <2>3 DEF EmptyLog
    <3>2. hydrated' = hydrated \cup {TheOwner(c)}
      BY <3>1, ReadsItsOwn DEF Hydrated
    <3>3. syncReady' = syncReady \cup {TheOwner(c)}
      BY <2>3 DEF EmptyLog, Ready
    <3> QED
      BY <3>1, <3>2, <3>3 DEF LogCameFirst
  <2> QED
    BY <1>3, <2>1, <2>2, <2>3 DEF Message
<1>4. ASSUME NEW cl \in Client, NEW room, NEW new, ChangeSession(cl, room, new), MayChangeSession(cl)
      PROVE  LogCameFirst'
  <2>1. /\ rendering' = rendering /\ syncReady' = syncReady \ {cl} /\ hydrated' = hydrated \ {cl}
    BY <1>4 DEF ChangeSession, SyncReadyAfterLeave
  <2>2. rendering[cl] = <<>>
    BY <1>4 DEF MayChangeSession
  <2> QED
    BY <2>1, <2>2 DEF LogCameFirst
<1>5. ASSUME NEW cl \in Client, NEW i \in DOMAIN rendering[cl], RenderDone(cl, i) PROVE LogCameFirst'
  <2>1. /\ rendering' = [rendering EXCEPT ![cl] = RemoveAt(rendering[cl], i)]
        /\ syncReady' = syncReady \cup {cl} /\ hydrated' = hydrated
    BY <1>5 DEF RenderDone, Ready
  <2>2. rendering[cl] # <<>>
    BY <1>5
  <2>3. \A dl \in Client : dl # cl => rendering'[dl] = rendering[dl]
    BY <2>1 DEF LinkInv, IsFunction
  <2> QED
    BY <2>1, <2>2, <2>3 DEF LogCameFirst
<1>6. ASSUME NEW cl \in Client, LeaveSession(cl) \/ \E room \in Room : StartSession(cl, room)
      PROVE  LogCameFirst'
  BY <1>4, <1>6 DEF LeaveSession, StartSession
<1>7. ASSUME NEW cl \in Client, (\E dep : Edit(cl, dep)) \/ SocketOpens(cl) \/ SocketCloses(cl) \/ Reconnect(cl)
      PROVE  LogCameFirst'
  BY <1>1, <1>7 DEF Edit, SocketOpens, SocketCloses, Reconnect, clientVars, managerVars
<1>8. CASE ServerRestarts
  BY <1>1, <1>8 DEF ServerRestarts
<1>9. CASE UNCHANGED vars
  BY <1>1, <1>9 DEF vars, clientVars, managerVars
<1> QED
  BY <1>2, <1>3, <1>5, <1>6, <1>7, <1>8, <1>9 DEF Next

-----------------------------------------------------------------------------
(* Rooms.                                                                  *)

LEMMA Ranges ==
  /\ Range(<<>>) = {} /\ \A m : IsList(<<m>>) /\ Range(<<m>>) = {m}
  /\ \A s, m : IsList(s) => Range(Append(s, m)) \subseteq Range(s) \cup {m}
  /\ \A s, t : IsList(s) /\ IsList(t) => IsList(s \o t) /\ Range(s \o t) \subseteq Range(s) \cup Range(t)
  /\ \A s : IsList(s) /\ s # <<>> => Range(Tail(s)) \subseteq Range(s) /\ Head(s) \in Range(s)
<1>1. ASSUME NEW m PROVE IsList(<<m>>) /\ Range(<<m>>) = {m}
  <2>1. DOMAIN <<m>> = {1} /\ <<m>>[1] = m
    OBVIOUS
  <2> QED
    BY <2>1, OneOperation DEF Range
<1>2. ASSUME NEW s, NEW m, IsList(s)
      PROVE  Range(Append(s, m)) \subseteq Range(s) \cup {m}
  <2> DEFINE t == Append(s, m)
             len == Len(s)
  <2>1. /\ len \in Nat /\ DOMAIN s = 1..len /\ DOMAIN t = 1..(len + 1)
        /\ t[len + 1] = m /\ \A i \in 1..len : t[i] = s[i]
    BY <1>2, ListAppend
  <2> HIDE DEF t, len
  <2>2. \A i \in DOMAIN t : (i \in DOMAIN s /\ t[i] = s[i]) \/ t[i] = m
    BY <2>1
  <2>3. Range(t) \subseteq Range(s) \cup {m}
    BY <2>2 DEF Range
  <2> QED
    BY <2>3 DEF t
<1>3. ASSUME NEW s, NEW t, IsList(s), IsList(t)
      PROVE  IsList(s \o t) /\ Range(s \o t) \subseteq Range(s) \cup Range(t)
  <2> DEFINE u == s \o t
             m == Len(s)
             n == Len(t)
  <2>1. /\ IsList(u) /\ m \in Nat /\ n \in Nat
        /\ DOMAIN s = 1..m /\ DOMAIN t = 1..n /\ DOMAIN u = 1..(m + n)
        /\ \A i \in 1..m : u[i] = s[i]
        /\ \A i \in 1..n : u[m + i] = t[i]
    BY <1>3, ListConcat
  <2> HIDE DEF u, m, n
  <2>2. ASSUME NEW i \in DOMAIN u
        PROVE  (i \in DOMAIN s /\ u[i] = s[i]) \/ (i - m \in DOMAIN t /\ u[i] = t[i - m])
    <3>1. CASE i <= m
      BY <2>1, <3>1
    <3>2. CASE ~(i <= m)
      <4>1. i - m \in 1..n /\ m + (i - m) = i
        BY <2>1, <3>2
      <4> QED
        BY <2>1, <4>1
    <3> QED
      BY <3>1, <3>2
  <2>3. Range(u) \subseteq Range(s) \cup Range(t)
    BY <2>2 DEF Range
  <2> QED
    BY <2>1, <2>3 DEF u
<1>4. ASSUME NEW s, IsList(s), s # <<>>
      PROVE  Range(Tail(s)) \subseteq Range(s) /\ Head(s) \in Range(s)
  <2> DEFINE t == Tail(s)
             len == Len(s)
  <2>1. /\ len \in Nat \ {0} /\ DOMAIN s = 1..len /\ DOMAIN t = 1..(len - 1)
        /\ Head(s) = s[1] /\ \A i \in 1..(len - 1) : t[i] = s[i + 1]
    BY <1>4, ListTail
  <2> HIDE DEF t, len
  <2>2. \A i \in DOMAIN t : i + 1 \in DOMAIN s /\ t[i] = s[i + 1]
    BY <2>1
  <2>3. Range(t) \subseteq Range(s)
    BY <2>2 DEF Range
  <2>4. Head(s) \in Range(s)
    BY <2>1 DEF Range
  <2> QED
    BY <2>3, <2>4 DEF t
<1> QED
  BY <1>1, <1>2, <1>3, <1>4, EmptyList

\* A replay learns nothing but the log.
LEMMA LearnAllOfLog ==
  ASSUME NEW K, NEW log, IsList(log)
  PROVE  LearnAll(K, log) \subseteq K \cup Range(log)
<1> DEFINE len == Len(log)
           f == CHOOSE f : Learnt(f, K, log, len)
<1>1. len \in Nat /\ DOMAIN log = 1..len
  BY LenProperties DEF IsList
<1>2. Learnt(f, K, log, len)
  BY <1>1, LearntExists
<1>3. LearnAll(K, log) = f[len]
  BY DEF LearnAll, Learnt
<1> HIDE DEF f, len
<1>4. \A i \in 0..len : f[i] = IF i = 0 THEN K ELSE Learn(f[i - 1], log[i])
  BY <1>2 DEF Learnt
<1> DEFINE bad == {i \in 0..len : ~(f[i] \subseteq K \cup Range(log))}
<1>5. bad = {}
  <2> SUFFICES ASSUME bad # {} PROVE FALSE
    OBVIOUS
  <2>1. PICK k \in bad : \A j \in bad : k <= j
    <3> HIDE DEF bad
    <3>1. bad \in SUBSET Nat
      BY <1>1 DEF bad
    <3> QED
      BY <3>1, LeastNumber
  <2>2. k \in 0..len /\ k # 0
    BY <1>1, <1>4, <2>1
  <2>3. k - 1 \in 0..len /\ k - 1 \notin bad /\ log[k] \in Range(log)
    BY <1>1, <2>1, <2>2 DEF Range
  <2>4. f[k] = Learn(f[k - 1], log[k])
    BY <1>4, <2>2
  <2>5. f[k - 1] \subseteq K \cup Range(log)
    BY <2>3
  <2>6. f[k] \subseteq K \cup Range(log)
    BY <2>3, <2>4, <2>5 DEF Learn, Seen
  <2> QED
    BY <2>1, <2>6
<1>6. len \in 0..len
  BY <1>1
<1> QED
  BY <1>3, <1>5, <1>6

-----------------------------------------------------------------------------
(* What is applied was seen.                                               *)

ElementsInv ==
  /\ IsFunction(elements, Client)
  /\ \A cl \in Client : elements[cl] \subseteq known[cl]

LEMMA AppliedIsSeen ==
  \A K, E, op : E \subseteq K => Apply(K, E, op) \subseteq Learn(K, op)
BY DEF Apply, Learn, Drained, Waiting

\* What the recursive definition of ApplyAll says of its function.
Replayed(f, K, E, log, n) ==
  f = [i \in 0..n |-> IF i = 0 THEN E
                      ELSE Apply(LearnAll(K, SubSeq(log, 1, i - 1)), f[i - 1], log[i])]

LEMMA ReplayedExists ==
  ASSUME NEW K, NEW E, NEW log, NEW n \in Nat
  PROVE  \E f : Replayed(f, K, E, log, n)
<1> DEFINE L(i) == LearnAll(K, SubSeq(log, 1, i - 1))
           bad == {k \in Nat : ~\E f : Replayed(f, K, E, log, k)}
<1> SUFFICES ASSUME bad # {} PROVE FALSE
  OBVIOUS
<1>1. PICK k \in bad : \A j \in bad : k <= j
  <2> HIDE DEF bad
  <2>1. bad \in SUBSET Nat
    BY DEF bad
  <2> QED
    BY <2>1, LeastNumber
<1>2. CASE k = 0
  <2>1. Replayed([j \in 0..0 |-> E], K, E, log, 0)
    BY DEF Replayed
  <2> QED
    BY <2>1, <1>1, <1>2
<1>3. CASE k # 0
  <2>1. k \in Nat /\ k - 1 \in Nat /\ k - 1 \notin bad
    BY <1>1, <1>3
  <2>2. PICK f : Replayed(f, K, E, log, k - 1)
    BY <2>1
  <2> HIDE DEF L
  <2>3. \A j \in 0..(k - 1) : f[j] = IF j = 0 THEN E ELSE Apply(L(j), f[j - 1], log[j])
    BY <2>2 DEF Replayed, L
  <2> DEFINE g == [j \in 0..k |-> IF j <= k - 1 THEN f[j] ELSE Apply(L(k), f[k - 1], log[k])]
  <2>4. ASSUME NEW j \in 0..k
        PROVE  g[j] = IF j = 0 THEN E ELSE Apply(L(j), g[j - 1], log[j])
    <3>1. CASE j = k
      BY <2>1, <1>3, <3>1
    <3>2. CASE j # k
      <4>1. f[j] = IF j = 0 THEN E ELSE Apply(L(j), f[j - 1], log[j])
        BY <2>1, <2>3, <3>2
      <4> QED
        BY <2>1, <3>2, <4>1
    <3> QED
      BY <3>1, <3>2
  <2>5. g = [j \in 0..k |-> g[j]]
    OBVIOUS
  <2> HIDE DEF g
  <2>6. Replayed(g, K, E, log, k)
    BY <2>4, <2>5 DEF Replayed, L
  <2> QED
    BY <2>6, <1>1
<1> QED
  BY <1>2, <1>3

\* What a replay of log has learnt after i operations.
LEMMA LearnAllPrefix ==
  ASSUME NEW K, NEW log, IsList(log), NEW f, Learnt(f, K, log, Len(log)), NEW i \in 0..Len(log)
  PROVE  LearnAll(K, SubSeq(log, 1, i)) = f[i]
<1> DEFINE s == SubSeq(log, 1, i)
<1>1. Len(log) \in Nat /\ log \in Seq(Range(log))
  BY LenProperties DEF IsList
<1>2. Len(s) = i /\ \A j \in 1..i : s[j] = log[j]
  BY <1>1, SubSeqProperties
<1> HIDE DEF s
<1>3. PICK g : Learnt(g, K, s, i)
  BY LearntExists
<1>4. LearnAll(K, s) = (CHOOSE h : Learnt(h, K, s, i))[i]
  BY <1>2 DEF LearnAll, Learnt
<1> DEFINE h == CHOOSE h : Learnt(h, K, s, i)
<1>5. Learnt(h, K, s, i)
  BY <1>3
<1> HIDE DEF h
<1>6. /\ \A j \in 0..i : h[j] = IF j = 0 THEN K ELSE Learn(h[j - 1], s[j])
      /\ \A j \in 0..Len(log) : f[j] = IF j = 0 THEN K ELSE Learn(f[j - 1], log[j])
  BY <1>5 DEF Learnt
<1> DEFINE bad == {j \in 0..i : h[j] # f[j]}
<1>7. bad = {}
  <2> SUFFICES ASSUME bad # {} PROVE FALSE
    OBVIOUS
  <2>1. PICK k \in bad : \A j \in bad : k <= j
    <3> HIDE DEF bad
    <3>1. bad \in SUBSET Nat
      BY <1>1 DEF bad
    <3> QED
      BY <3>1, LeastNumber
  <2>2. k # 0
    BY <1>1, <1>6, <2>1
  <2>3. k - 1 \in 0..i /\ k - 1 \notin bad
    BY <1>1, <2>1, <2>2
  <2>4. h[k - 1] = f[k - 1] /\ s[k] = log[k]
    BY <1>1, <1>2, <2>1, <2>2, <2>3
  <2>5. h[k] = Learn(h[k - 1], s[k]) /\ f[k] = Learn(f[k - 1], log[k])
    BY <1>1, <1>6, <2>1, <2>2
  <2> QED
    BY <2>1, <2>4, <2>5
<1>8. i \in 0..i
  BY <1>1
<1> QED
  BY <1>4, <1>7, <1>8 DEF h, s

\* ApplyAll and LearnAll, step by step along the log.
LEMMA ReplaySteps ==
  ASSUME NEW K, NEW E, NEW log, IsList(log)
  PROVE  \E f, g : /\ f[0] = K /\ g[0] = E
                   /\ f[Len(log)] = LearnAll(K, log) /\ g[Len(log)] = ApplyAll(K, E, log)
                   /\ \A i \in 1..Len(log) : /\ f[i] = Learn(f[i - 1], log[i])
                                             /\ g[i] = Apply(f[i - 1], g[i - 1], log[i])
<1> DEFINE len == Len(log)
           f == CHOOSE f : Learnt(f, K, log, len)
           g == CHOOSE g : Replayed(g, K, E, log, len)
<1>1. len \in Nat
  BY LenProperties DEF IsList
<1>2. Learnt(f, K, log, len) /\ Replayed(g, K, E, log, len)
  BY <1>1, LearntExists, ReplayedExists
<1>3. LearnAll(K, log) = f[len]
  BY DEF LearnAll, Learnt
<1>4. ApplyAll(K, E, log) = g[len]
  BY DEF ApplyAll, Replayed
<1> HIDE DEF f, g
<1>5. \A i \in 0..len : f[i] = IF i = 0 THEN K ELSE Learn(f[i - 1], log[i])
  BY <1>2 DEF Learnt
<1>6. \A i \in 0..len : g[i] = IF i = 0 THEN E ELSE Apply(LearnAll(K, SubSeq(log, 1, i - 1)), g[i - 1], log[i])
  BY <1>2 DEF Replayed
<1>7. \A i \in 1..len : LearnAll(K, SubSeq(log, 1, i - 1)) = f[i - 1]
  <2> SUFFICES ASSUME NEW i \in 1..len PROVE LearnAll(K, SubSeq(log, 1, i - 1)) = f[i - 1]
    OBVIOUS
  <2>1. i - 1 \in 0..len
    BY <1>1
  <2> QED
    BY <1>2, <2>1, LearnAllPrefix
<1> HIDE DEF len
<1>8. f[0] = K /\ g[0] = E
  BY <1>1, <1>5, <1>6
<1>9. \A i \in 1..len : f[i] = Learn(f[i - 1], log[i]) /\ g[i] = Apply(f[i - 1], g[i - 1], log[i])
  BY <1>1, <1>5, <1>6, <1>7
<1> QED
  BY <1>3, <1>4, <1>8, <1>9 DEF len

LEMMA ReplayIsSeen ==
  ASSUME NEW K, NEW E, NEW log, IsList(log), E \subseteq K
  PROVE  ApplyAll(K, E, log) \subseteq LearnAll(K, log)
<1>1. Len(log) \in Nat
  BY LenProperties DEF IsList
<1>2. PICK f, g : /\ f[0] = K /\ g[0] = E
                  /\ f[Len(log)] = LearnAll(K, log) /\ g[Len(log)] = ApplyAll(K, E, log)
                  /\ \A i \in 1..Len(log) : /\ f[i] = Learn(f[i - 1], log[i])
                                            /\ g[i] = Apply(f[i - 1], g[i - 1], log[i])
  BY ReplaySteps
<1> DEFINE bad == {i \in 0..Len(log) : ~(g[i] \subseteq f[i])}
<1>3. bad = {}
  <2> SUFFICES ASSUME bad # {} PROVE FALSE
    OBVIOUS
  <2>1. PICK k \in bad : \A j \in bad : k <= j
    <3> HIDE DEF bad
    <3>1. bad \in SUBSET Nat
      BY <1>1 DEF bad
    <3> QED
      BY <3>1, LeastNumber
  <2>2. k # 0
    BY <1>1, <1>2, <2>1
  <2>3. k \in 1..Len(log) /\ k - 1 \in 0..Len(log) /\ k - 1 \notin bad
    BY <1>1, <2>1, <2>2
  <2>4. g[k - 1] \subseteq f[k - 1]
    BY <2>3
  <2>5. f[k] = Learn(f[k - 1], log[k]) /\ g[k] = Apply(f[k - 1], g[k - 1], log[k])
    BY <1>2, <2>3
  <2>6. g[k] \subseteq f[k]
    BY <2>4, <2>5, AppliedIsSeen
  <2> QED
    BY <2>1, <2>6
<1>4. Len(log) \in 0..Len(log)
  BY <1>1
<1> QED
  BY <1>2, <1>3, <1>4

LEMMA ElementsChange ==
  ASSUME IndInv, ElementsInv, NEW cl \in Client, NEW K, NEW E, E \subseteq K,
         known' = [known EXCEPT ![cl] = K], elements' = [elements EXCEPT ![cl] = E]
  PROVE  ElementsInv'
<1>1. /\ known' = [dl \in Client |-> IF dl = cl THEN K ELSE known[dl]]
      /\ elements' = [dl \in Client |-> IF dl = cl THEN E ELSE elements[dl]]
  BY DEF IndInv, FunctionsOK, ElementsInv, IsFunction
<1>2. IsFunction(elements', Client)
  BY <1>1 DEF IsFunction
<1>3. \A dl \in Client : elements'[dl] \subseteq known'[dl]
  BY <1>1 DEF ElementsInv
<1> QED
  BY <1>2, <1>3 DEF ElementsInv

LEMMA ElementsInit == Init => ElementsInv
BY DEF Init, ElementsInv, IsFunction

LEMMA ElementsStep ==
  ASSUME IndInv, ElementsInv, [Next]_vars
  PROVE  ElementsInv'
<1>1. ASSUME UNCHANGED <<known, elements>> PROVE ElementsInv'
  BY <1>1 DEF ElementsInv
<1>2. ASSUME NEW cl \in Client, NEW room, NEW new, ChangeSession(cl, room, new) PROVE ElementsInv'
  <2>1. known' = [known EXCEPT ![cl] = {}] /\ elements' = [elements EXCEPT ![cl] = {}]
    BY <1>2 DEF ChangeSession
  <2> QED
    BY <2>1, ElementsChange
<1>3. ASSUME NEW cl \in Client, NEW op, Make(cl, op) PROVE ElementsInv'
  <2>1. /\ known' = [known EXCEPT ![cl] = known[cl] \cup {op}]
        /\ elements' = [elements EXCEPT ![cl] = elements[cl] \cup {op}]
    BY <1>3 DEF Make
  <2>2. elements[cl] \cup {op} \subseteq known[cl] \cup {op}
    BY DEF ElementsInv
  <2> QED
    BY <2>1, <2>2, ElementsChange
<1>4. ASSUME NEW c \in Conn, Message(c) PROVE ElementsInv'
  <2> DEFINE cl == TheOwner(c)
             m == Head(stream[c])
  <2>1. cl \in Client
    BY <1>4 DEF Message, TheOwner, IndInv, FunctionsOK
  <2>2. elements[cl] \subseteq known[cl]
    BY <2>1 DEF ElementsInv
  <2>3. CASE HandleNothing(c)
    BY <1>1, <2>3 DEF HandleNothing, clientVars, crdtVars
  <2>4. CASE HandleTransportOperation(c)
    <3>1. /\ known' = [known EXCEPT ![cl] = Learn(known[cl], m.op)]
          /\ elements' = [elements EXCEPT ![cl] = Apply(known[cl], elements[cl], m.op)]
      BY <2>4 DEF HandleTransportOperation
    <3>2. Apply(known[cl], elements[cl], m.op) \subseteq Learn(known[cl], m.op)
      BY <2>2, AppliedIsSeen
    <3> HIDE DEF cl, m
    <3> QED
      BY <2>1, <3>1, <3>2, ElementsChange
  <2>5. CASE ReplayLog(c)
    <3>1. /\ known' = [known EXCEPT ![cl] = LearnAll(known[cl], m.opLog)]
          /\ elements' = [elements EXCEPT ![cl] = ApplyAll(known[cl], elements[cl], m.opLog)]
      BY <2>5 DEF ReplayLog
    <3>2. IsList(m.opLog)
      <4>1. Reading(c, "joined")
        BY <2>5 DEF ReplayLog
      <4> QED
        BY <4>1, ReadingKeeps
    <3>3. ApplyAll(known[cl], elements[cl], m.opLog) \subseteq LearnAll(known[cl], m.opLog)
      BY <2>2, <3>2, ReplayIsSeen
    <3> HIDE DEF cl, m
    <3> QED
      BY <2>1, <3>1, <3>3, ElementsChange
  <2>6. CASE EmptyLog(c)
    <3>1. Make(cl, NewOp(cl, Root)) \/ UNCHANGED crdtVars
      BY <2>6 DEF EmptyLog
    <3> HIDE DEF cl
    <3> QED
      BY <1>1, <1>3, <2>1, <3>1 DEF crdtVars
  <2> QED
    BY <1>4, <2>3, <2>4, <2>5, <2>6 DEF Message
<1>5. ASSUME NEW c \in Conn, Server(c) PROVE ElementsInv'
  BY <1>1, <1>5 DEF Server, clientVars, crdtVars
<1>6. ASSUME NEW cl \in Client, NEW room \in Room, StartSession(cl, room) PROVE ElementsInv'
  <2>1. ChangeSession(cl, room, FreshConn)
    BY <1>6 DEF StartSession
  <2> QED
    BY <1>2, <2>1
<1>7. ASSUME NEW cl \in Client, LeaveSession(cl) PROVE ElementsInv'
  BY <1>2, <1>7 DEF LeaveSession
<1>8. ASSUME NEW cl \in Client, NEW dep, Edit(cl, dep) PROVE ElementsInv'
  BY <1>3, <1>8 DEF Edit
<1>9. ASSUME NEW cl \in Client, SocketOpens(cl) \/ SocketCloses(cl) \/ Reconnect(cl) PROVE ElementsInv'
  BY <1>1, <1>9 DEF SocketOpens, SocketCloses, Reconnect, clientVars, crdtVars
<1>10. ASSUME NEW cl \in Client, NEW i, RenderDone(cl, i) PROVE ElementsInv'
  BY <1>1, <1>10 DEF RenderDone, crdtVars
<1>11. CASE ServerRestarts
  BY <1>1, <1>11 DEF ServerRestarts, crdtVars
<1>12. CASE UNCHANGED vars
  BY <1>1, <1>12 DEF vars, clientVars, crdtVars
<1> QED
  BY <1>4, <1>5, <1>6, <1>7, <1>8, <1>9, <1>10, <1>11, <1>12 DEF Next

\* What a handler reads is of the room of the session that sent it.
LEMMA HeadOfRoom ==
  ASSUME IndInv, RoomsInv, NEW c \in Conn, NEW type, Reads(c, type)
  PROVE  /\ Head(inbox[c]).type = type /\ ~Waits(c)
         /\ type = "operation" => BelongsTo(Head(inbox[c]).op, Head(inbox[c]).room)
         /\ \A cl \in Client : InSession(cl) /\ transport[cl] = c /\ type \in {"join", "operation"} =>
              Head(inbox[c]).room = session[cl]
<1>1. inbox[c] # <<>> /\ Head(inbox[c]).type = type
  BY HandlerReads
<1>2. Head(inbox[c]) \in Range(inbox[c])
  BY <1>1, Ranges DEF IndInv, ListsOK
<1>3. ~Waits(c)
  BY <1>1 DEF IndInv, NewConns
<1> QED
  BY <1>1, <1>2, <1>3 DEF RoomsInv, SentOfRooms, OfRoom

LEMMA ServerKeepsRooms ==
  ASSUME IndInv, RoomsInv, NEW c \in Conn, NEW type, Reads(c, type), UNCHANGED <<clientVars, status>>,
         LogsOfRooms(rooms'),
         \A d \in Conn : Waits(d) => stream'[d] = stream[d],
         \A cl \in Client : InSession(cl) =>
           /\ OfRoom(Range(stream'[transport[cl]]), session[cl])
           /\ \A room \in DOMAIN rooms' : transport[cl] \in PeerConns(rooms'[room].peers) => room = session[cl]
  PROVE  RoomsInv'
<1>1. UNCHANGED <<session, transport, known, offlineQueue, status>>
  BY DEF clientVars, crdtVars, managerVars
<1>2. \A d \in Conn : Range(inbox'[d]) \subseteq Range(inbox[d])
  <2> SUFFICES ASSUME NEW d \in Conn PROVE Range(inbox'[d]) \subseteq Range(inbox[d])
    OBVIOUS
  <2>1. /\ inbox' = [inbox EXCEPT ![c] = Tail(inbox[c])] /\ inbox[c] # <<>>
        /\ inbox = [x \in Conn |-> inbox[x]]
    BY DEF Reads, IndInv, FunctionsOK, IsFunction
  <2>2. inbox'[d] = IF d = c THEN Tail(inbox[c]) ELSE inbox[d]
    BY <2>1
  <2>3. Range(Tail(inbox[c])) \subseteq Range(inbox[c])
    BY <2>1, Ranges DEF IndInv, ListsOK
  <2> QED
    BY <2>2, <2>3
<1>3. SentOfRooms(inbox')
  <2>1. \A cl \in Client : InSession(cl) => transport[cl] \in Conn
    BY DEF IndInv, TypeOK
  <2> QED
    BY <1>2, <2>1 DEF RoomsInv, SentOfRooms, OfRoom
<1>4. SentOfRooms(inbox)'
  BY <1>1, <1>3 DEF SentOfRooms, InSession
<1>5. HeldOfRooms(known)' /\ QueuedOfRooms(offlineQueue)'
  BY <1>1 DEF RoomsInv, HeldOfRooms, QueuedOfRooms, InSession
<1>6. LogsOfRooms(rooms)'
  BY DEF LogsOfRooms
<1>7. \A d \in Conn : Waits(d)' => stream'[d] = <<>>
  BY <1>1 DEF Waits, RoomsInv
<1>8. \A cl \in Client : InSession(cl)' =>
        /\ OfRoom(Range(stream[transport[cl]]), session[cl])'
        /\ \A room \in DOMAIN rooms' : transport'[cl] \in PeerConns(rooms'[room].peers) => room = session'[cl]
  BY <1>1 DEF InSession, OfRoom
<1> QED
  BY <1>4, <1>5, <1>6, <1>7, <1>8 DEF RoomsInv

\* A message to the connections of a room is of that room.
LEMMA SendToOfRoom ==
  ASSUME IndInv, RoomsInv, NEW conns, NEW m, stream' = SendTo(conns, m),
         \A cl \in Client : InSession(cl) /\ transport[cl] \in conns => OfRoom({m}, session[cl])
  PROVE  \A cl \in Client : InSession(cl) => OfRoom(Range(stream'[transport[cl]]), session[cl])
<1> SUFFICES ASSUME NEW cl \in Client, InSession(cl)
             PROVE  OfRoom(Range(stream'[transport[cl]]), session[cl])
  OBVIOUS
<1> DEFINE t == transport[cl]
<1>1. t \in Conn /\ OfRoom(Range(stream[t]), session[cl]) /\ (t \in conns => OfRoom({m}, session[cl]))
  BY DEF RoomsInv, IndInv, TypeOK
<1> HIDE DEF t
<1>2. IsList(stream[t])
  BY <1>1 DEF IndInv, ListsOK
<1>3. stream'[t] = IF t \in conns THEN Append(stream[t], m) ELSE stream[t]
  BY <1>1 DEF SendTo
<1>4. Range(Append(stream[t], m)) \subseteq Range(stream[t]) \cup {m}
  BY <1>2, Ranges
<1>5. OfRoom(Range(stream'[t]), session[cl])
  BY <1>1, <1>3, <1>4 DEF OfRoom
<1> QED
  BY <1>5 DEF t

LEMMA JoinOfRoom ==
  ASSUME IndInv, RoomsInv, NEW c \in Conn, HandleJoin(c), UNCHANGED clientVars
  PROVE  RoomsInv'
<1> DEFINE room == Head(inbox[c]).room
           client == Head(inbox[c]).client
           old == RoomOf(room)
           peers == AddPeer(old.peers, client, c)
           answer == Joined(room, client, PeerList(peers), old.log)
           notice == Presence(room, PeerList(peers))
<1>1. /\ Reads(c, "join") /\ status' = status
      /\ rooms' = SetRoom(room, [old EXCEPT !.peers = peers])
      /\ stream' = [d \in Conn |-> stream[d] \o JoinReplies(d, c, peers, answer, notice)]
  BY DEF HandleJoin
<1>2. /\ ~Waits(c)
      /\ \A cl \in Client : InSession(cl) /\ transport[cl] = c => room = session[cl]
  BY <1>1, HeadOfRoom
<1>3. IsRoom(old)
  BY RoomOfIsRoom
<1>4. answer.type = "joined" /\ answer.opLog = old.log /\ notice.type = "presence"
  BY DEF Joined, Presence
<1>5. PeerConns(peers) \subseteq PeerConns(old.peers) \cup {c}
  BY DEF AddPeer, PeerConns, Range
<1>6. /\ \A o \in Range(old.log) : BelongsTo(o, room)
      /\ PeerConns(old.peers) # {} => room \in DOMAIN rooms /\ old = rooms[room]
  <2>1. CASE room \in DOMAIN rooms
    BY <2>1 DEF RoomOf, RoomsInv, LogsOfRooms
  <2>2. CASE room \notin DOMAIN rooms
    <3>1. old.log = <<>> /\ DOMAIN old.peers = {}
      BY <2>2 DEF RoomOf, NewRoom, NoPeers
    <3>2. PeerConns(old.peers) = {}
      BY <3>1 DEF PeerConns, Range
    <3> QED
      BY <3>1, <3>2, Ranges
  <2> QED
    BY <2>1, <2>2
<1> HIDE DEF room, client, old, peers, answer, notice
<1>7. /\ DOMAIN rooms' = DOMAIN rooms \cup {room}
      /\ rooms'[room] = [peers |-> peers, log |-> old.log]
      /\ \A r \in DOMAIN rooms : r # room => rooms'[r] = rooms[r]
  <2>1. [old EXCEPT !.peers = peers] = [peers |-> peers, log |-> old.log]
    BY <1>3 DEF IsRoom
  <2>2. rooms' = [x \in DOMAIN rooms \cup {room} |-> IF x = room THEN [peers |-> peers, log |-> old.log] ELSE rooms[x]]
    BY <1>1, <2>1 DEF SetRoom
  <2> QED
    BY <2>2
<1>8. LogsOfRooms(rooms')
  BY <1>6, <1>7 DEF RoomsInv, LogsOfRooms
<1>9. ASSUME NEW d \in Conn
      PROVE  /\ IsList(JoinReplies(d, c, peers, answer, notice))
             /\ Range(JoinReplies(d, c, peers, answer, notice)) \subseteq
                  (IF d = c THEN {answer} ELSE {}) \cup {notice}
             /\ d # c /\ d \notin PeerConns(peers) => JoinReplies(d, c, peers, answer, notice) = <<>>
  <2> DEFINE s == IF d = c THEN <<answer>> ELSE <<>>
             t == IF d \in PeerConns(peers) THEN <<notice>> ELSE <<>>
  <2>1. JoinReplies(d, c, peers, answer, notice) = s \o t
    BY DEF JoinReplies
  <2>2. IsList(s) /\ IsList(t) /\ Range(s) = (IF d = c THEN {answer} ELSE {}) /\ Range(t) \subseteq {notice}
    BY Ranges, EmptyList
  <2>3. d # c /\ d \notin PeerConns(peers) => s \o t = <<>>
    OBVIOUS
  <2> HIDE DEF s, t
  <2> QED
    BY <2>1, <2>2, <2>3, Ranges
<1>10. \A d \in Conn : Waits(d) => stream'[d] = stream[d]
  <2> SUFFICES ASSUME NEW d \in Conn, Waits(d) PROVE stream'[d] = stream[d]
    OBVIOUS
  <2>1. d # c /\ stream[d] = <<>>
    BY <1>2 DEF RoomsInv
  <2>2. d \notin PeerConns(old.peers)
    BY <1>6 DEF IndInv, NewConns
  <2>3. stream'[d] = stream[d] \o <<>>
    BY <1>1, <1>5, <1>9, <2>1, <2>2
  <2> QED
    BY <2>1, <2>3
<1>11. ASSUME NEW cl \in Client, InSession(cl)
       PROVE  /\ OfRoom(Range(stream'[transport[cl]]), session[cl])
              /\ \A r \in DOMAIN rooms' : transport[cl] \in PeerConns(rooms'[r].peers) => r = session[cl]
  <2> DEFINE t == transport[cl]
  <2>1. /\ t \in Conn /\ (t = c => room = session[cl])
        /\ OfRoom(Range(stream[t]), session[cl])
        /\ \A r \in DOMAIN rooms : t \in PeerConns(rooms[r].peers) => r = session[cl]
    BY <1>2, <1>11 DEF RoomsInv, IndInv, TypeOK
  <2> HIDE DEF t
  <2>2. IsList(stream[t])
    BY <2>1 DEF IndInv, ListsOK
  <2>3. stream'[t] = stream[t] \o JoinReplies(t, c, peers, answer, notice)
    BY <1>1, <2>1
  <2>4. Range(stream'[t]) \subseteq Range(stream[t]) \cup (IF t = c THEN {answer} ELSE {}) \cup {notice}
    <3>1. /\ IsList(JoinReplies(t, c, peers, answer, notice))
          /\ Range(JoinReplies(t, c, peers, answer, notice)) \subseteq (IF t = c THEN {answer} ELSE {}) \cup {notice}
      BY <1>9, <2>1
    <3>2. Range(stream'[t]) \subseteq Range(stream[t]) \cup Range(JoinReplies(t, c, peers, answer, notice))
      BY <2>2, <2>3, <3>1, Ranges
    <3> QED
      BY <3>1, <3>2
  <2>5. OfRoom({notice}, session[cl])
    BY <1>4 DEF OfRoom
  <2>6. t = c => OfRoom({answer}, session[cl])
    BY <1>4, <1>6, <2>1 DEF OfRoom
  <2>7. OfRoom(Range(stream'[t]), session[cl])
    BY <2>1, <2>4, <2>5, <2>6 DEF OfRoom
  <2>8. ASSUME NEW r \in DOMAIN rooms', t \in PeerConns(rooms'[r].peers) PROVE r = session[cl]
    <3>1. CASE r # room
      BY <1>7, <2>1, <2>8, <3>1
    <3>2. CASE r = room
      <4>1. t \in PeerConns(old.peers) \/ t = c
        BY <1>5, <1>7, <2>8, <3>2
      <4> QED
        BY <1>6, <2>1, <3>2, <4>1
    <3> QED
      BY <3>1, <3>2
  <2> QED
    BY <2>7, <2>8 DEF t
<1>12. UNCHANGED <<clientVars, status>>
  BY <1>1
<1> QED
  BY <1>1, <1>8, <1>10, <1>11, <1>12, ServerKeepsRooms

LEMMA OperationOfRoom ==
  ASSUME IndInv, RoomsInv, NEW c \in Conn,
         RejectOperation(c) \/ IgnoreOperation(c) \/ AcceptOperation(c), UNCHANGED clientVars
  PROVE  RoomsInv'
<1>1. Reads(c, "operation") /\ status' = status
  BY DEF RejectOperation, IgnoreOperation, AcceptOperation
<1>2. /\ ~Waits(c) /\ BelongsTo(Head(inbox[c]).op, Head(inbox[c]).room)
  BY <1>1, HeadOfRoom
<1>3. UNCHANGED <<clientVars, status>>
  BY <1>1
<1>4. \A cl \in Client : InSession(cl) =>
        \A room \in DOMAIN rooms : transport[cl] \in PeerConns(rooms[room].peers) => room = session[cl]
  BY DEF RoomsInv
<1>5. CASE RejectOperation(c)
  <2>1. rooms' = rooms /\ stream' = SendTo({c}, Error)
    BY <1>5 DEF RejectOperation
  <2>2. \A cl \in Client : OfRoom({Error}, session[cl])
    BY DEF OfRoom, Error
  <2>3. \A cl \in Client : InSession(cl) => OfRoom(Range(stream'[transport[cl]]), session[cl])
    BY <2>1, <2>2, SendToOfRoom
  <2>4. \A d \in Conn : Waits(d) => stream'[d] = stream[d]
    BY <1>2, <2>1 DEF SendTo
  <2>5. LogsOfRooms(rooms')
    BY <2>1 DEF RoomsInv, LogsOfRooms
  <2> QED
    BY <1>1, <1>3, <1>4, <2>1, <2>3, <2>4, <2>5, ServerKeepsRooms
<1>6. CASE IgnoreOperation(c)
  <2>1. rooms' = rooms /\ stream' = stream
    BY <1>6 DEF IgnoreOperation
  <2>2. LogsOfRooms(rooms')
    BY <2>1 DEF RoomsInv, LogsOfRooms
  <2>3. \A cl \in Client : InSession(cl) => OfRoom(Range(stream'[transport[cl]]), session[cl])
    BY <2>1 DEF RoomsInv
  <2> QED
    BY <1>1, <1>3, <1>4, <2>1, <2>2, <2>3, ServerKeepsRooms
<1>7. CASE AcceptOperation(c)
  <2> DEFINE room == Head(inbox[c]).room
             client == Head(inbox[c]).client
             op == Head(inbox[c]).op
             old == rooms[room].log
             peers == rooms[room].peers
             log == AppendOperation(old, op)
             m == OperationMsg(room, client, op)
             conns == Recipients(log # old, peers)
  <2>1. /\ room \in DOMAIN rooms
        /\ rooms'  = SetRoom(room, [rooms[room] EXCEPT !.log = log])
        /\ stream' = SendTo(conns, m)
    BY <1>7 DEF AcceptOperation
  <2>2. rooms[room] = [peers |-> peers, log |-> old] /\ IsList(old)
    BY <2>1 DEF IndInv, ListsOK, IsRoom
  <2>3. m.type = "operation" /\ m.op = op /\ m.room = room /\ BelongsTo(op, room)
    BY <1>2 DEF OperationMsg
  <2>4. conns \subseteq PeerConns(peers)
    BY DEF Recipients
  <2> HIDE DEF room, client, op, old, peers, m, conns
  <2>5. Range(log) \subseteq Range(old) \cup {op}
    BY <2>2, Ranges DEF AppendOperation
  <2> HIDE DEF log
  <2>6. /\ DOMAIN rooms' = DOMAIN rooms
        /\ rooms'[room] = [peers |-> peers, log |-> log]
        /\ \A other \in DOMAIN rooms : other # room => rooms'[other] = rooms[other]
    <3>1. [rooms[room] EXCEPT !.log = log] = [peers |-> peers, log |-> log]
      BY <2>2
    <3>2. rooms' = [x \in DOMAIN rooms \cup {room} |-> IF x = room THEN [peers |-> peers, log |-> log] ELSE rooms[x]]
      BY <2>1, <3>1 DEF SetRoom
    <3> QED
      BY <2>1, <3>2
  <2>7. LogsOfRooms(rooms')
    <3>1. \A o \in Range(old) : BelongsTo(o, room)
      BY <2>1, <2>2 DEF RoomsInv, LogsOfRooms
    <3> QED
      BY <2>3, <2>5, <2>6, <3>1 DEF RoomsInv, LogsOfRooms
  <2>8. \A d \in Conn : Waits(d) => stream'[d] = stream[d]
    <3>1. \A d \in Conn : Waits(d) => d \notin conns
      BY <2>1, <2>2, <2>4 DEF IndInv, NewConns
    <3> QED
      BY <2>1, <3>1 DEF SendTo
  <2>9. \A cl \in Client : InSession(cl) /\ transport[cl] \in conns => OfRoom({m}, session[cl])
    BY <1>4, <2>1, <2>2, <2>3, <2>4 DEF OfRoom
  <2>10. \A cl \in Client : InSession(cl) => OfRoom(Range(stream'[transport[cl]]), session[cl])
    BY <2>1, <2>9, SendToOfRoom
  <2>11. \A cl \in Client : InSession(cl) =>
           \A r \in DOMAIN rooms' : transport[cl] \in PeerConns(rooms'[r].peers) => r = session[cl]
    BY <1>4, <2>1, <2>2, <2>6
  <2> QED
    BY <1>1, <1>3, <2>7, <2>8, <2>10, <2>11, ServerKeepsRooms
<1> QED
  BY <1>5, <1>6, <1>7

LEMMA CloseOfRoom ==
  ASSUME IndInv, RoomsInv, NEW c \in Conn, HandleClose(c), UNCHANGED clientVars
  PROVE  RoomsInv'
<1>1. Reads(c, "close") /\ status' = status
  BY DEF HandleClose
<1>2. UNCHANGED <<clientVars, status>>
  BY <1>1
<1>3. \A cl \in Client : InSession(cl) =>
        \A room \in DOMAIN rooms : transport[cl] \in PeerConns(rooms[room].peers) => room = session[cl]
  BY DEF RoomsInv
<1>4. CASE UNCHANGED <<rooms, stream>>
  <2>1. LogsOfRooms(rooms')
    BY <1>4 DEF RoomsInv, LogsOfRooms
  <2>2. \A cl \in Client : InSession(cl) => OfRoom(Range(stream'[transport[cl]]), session[cl])
    BY <1>4 DEF RoomsInv
  <2> QED
    BY <1>1, <1>2, <1>3, <1>4, <2>1, <2>2, ServerKeepsRooms
<1>5. CASE ~UNCHANGED <<rooms, stream>>
  <2> DEFINE room == joined[c][1]
             client == joined[c][2]
             before == rooms[room].peers
             after == RemovePeer(before, client, c)
             conns == Recipients(after # before, after)
             m == Presence(room, PeerList(after))
  <2>1. room \in DOMAIN rooms /\ stream' = SendTo(conns, m) /\ rooms' = RoomsAfterClose(room, after)
    BY <1>5 DEF HandleClose
  <2>2. m.type = "presence"
    BY DEF Presence
  <2>3. PeerConns(after) \subseteq PeerConns(before) /\ conns \subseteq PeerConns(before)
    BY DEF RemovePeer, Restrict, PeerConns, Range, Recipients
  <2>4. IsRoom(rooms[room])
    BY <2>1 DEF IndInv, ListsOK
  <2> HIDE DEF room, client, after, conns, m
  <2>5. ASSUME NEW r \in DOMAIN rooms'
        PROVE  /\ r \in DOMAIN rooms /\ rooms'[r].log = rooms[r].log
               /\ PeerConns(rooms'[r].peers) \subseteq PeerConns(rooms[r].peers)
    <3>1. CASE after = NoPeers
      <4>1. rooms' = [x \in DOMAIN rooms \ {room} |-> rooms[x]]
        BY <2>1, <3>1 DEF RoomsAfterClose, Restrict
      <4> QED
        BY <4>1
    <3>2. CASE after # NoPeers
      <4>1. [rooms[room] EXCEPT !.peers = after] = [peers |-> after, log |-> rooms[room].log]
        BY <2>4 DEF IsRoom
      <4>2. rooms' = [x \in DOMAIN rooms \cup {room} |->
                        IF x = room THEN [peers |-> after, log |-> rooms[room].log] ELSE rooms[x]]
        BY <2>1, <3>2, <4>1 DEF RoomsAfterClose, SetRoom
      <4>3. r \in DOMAIN rooms /\ (r # room => rooms'[r] = rooms[r])
            /\ (r = room => rooms'[r] = [peers |-> after, log |-> rooms[room].log])
        BY <2>1, <4>2
      <4>4. CASE r = room
        BY <2>3, <4>3, <4>4
      <4> QED
        BY <4>3, <4>4
    <3> QED
      BY <3>1, <3>2
  <2>6. LogsOfRooms(rooms')
    BY <2>5 DEF RoomsInv, LogsOfRooms
  <2>7. \A d \in Conn : Waits(d) => stream'[d] = stream[d]
    <3>1. \A d \in Conn : Waits(d) => d \notin conns
      BY <2>1, <2>3 DEF IndInv, NewConns
    <3> QED
      BY <2>1, <3>1 DEF SendTo
  <2>8. \A cl \in Client : OfRoom({m}, session[cl])
    BY <2>2 DEF OfRoom
  <2>9. \A cl \in Client : InSession(cl) => OfRoom(Range(stream'[transport[cl]]), session[cl])
    BY <2>1, <2>8, SendToOfRoom
  <2>10. \A cl \in Client : InSession(cl) =>
           \A r \in DOMAIN rooms' : transport[cl] \in PeerConns(rooms'[r].peers) => r = session[cl]
    BY <1>3, <2>5
  <2> QED
    BY <1>1, <1>2, <2>6, <2>7, <2>9, <2>10, ServerKeepsRooms
<1> QED
  BY <1>4, <1>5

LEMMA ServerOfRoom ==
  ASSUME IndInv, RoomsInv, NEW c \in Conn, Server(c)
  PROVE  RoomsInv'
<1>1. Handle(c) /\ UNCHANGED clientVars
  BY DEF Server
<1> QED
  BY <1>1, JoinOfRoom, OperationOfRoom, CloseOfRoom DEF Handle

\* What a session sends is of its room.
LEMMA SentOfRoom ==
  ASSUME IndInv, NEW cl \in Client, InSession(cl), NEW box, NEW ops, BoxOK(box), SentOfRooms(box),
         IsList(ops), \A o \in Range(ops) : BelongsTo(o, session[cl])
  PROVE  SentOfRooms(Sent(cl, box, ops))
<1>1. CASE ~IsOpen(cl)
  BY <1>1 DEF Sent
<1>2. CASE IsOpen(cl)
  <2> DEFINE t == transport[cl]
             more == Operations(cl, ops)
             new == box[t] \o more
  <2>1. t \in Conn /\ owner[t] = <<cl, lives[cl]>>
    BY <1>2 DEF IsOpen, IndInv, TypeOK
  <2>2. Sent(cl, box, ops) = [c \in Conn |-> IF c = t THEN new ELSE box[c]]
    BY <1>2 DEF Sent, BoxOK, IsFunction
  <2>3. \A m \in Range(more) : m.type = "operation" /\ m.room = session[cl] /\ BelongsTo(m.op, session[cl])
    BY DEF Operations, OperationMsg, Range
  <2>4. IsList(more)
    BY OperationsAreAList
  <2> HIDE DEF more, t
  <2>5. Range(new) \subseteq Range(box[t]) \cup Range(more)
    BY <2>1, <2>4, Ranges DEF BoxOK
  <2> HIDE DEF new
  <2>6. \A dl \in Client : InSession(dl) => transport[dl] \in Conn /\ (transport[dl] = t => dl = cl)
    <3>1. \A dl \in Client : InSession(dl) => transport[dl] \in Conn /\ owner[transport[dl]] = <<dl, lives[dl]>>
      BY DEF IndInv, TypeOK
    <3> QED
      BY <2>1, <3>1
  <2>7. \A m \in Range(box[t]) : m.type = "operation" => BelongsTo(m.op, m.room)
    BY <2>1 DEF SentOfRooms
  <2>8. OfRoom(Range(box[t]), session[cl])
    BY DEF SentOfRooms, t
  <2>9. OfRoom(Range(new), session[cl])
    BY <2>3, <2>5, <2>8 DEF OfRoom
  <2>10. \A m \in Range(new) : m.type = "operation" => BelongsTo(m.op, m.room)
    BY <2>3, <2>5, <2>7
  <2> QED
    BY <2>1, <2>2, <2>6, <2>9, <2>10 DEF SentOfRooms
<1> QED
  BY <1>1, <1>2

LEMMA RoomsWithinSession ==
  ASSUME IndInv, RoomsInv, UNCHANGED <<rooms, status, session, transport>>,
         SentOfRooms(inbox'), HeldOfRooms(known'), QueuedOfRooms(offlineQueue'),
         \A c \in Conn : Range(stream'[c]) \subseteq Range(stream[c]) /\ (Waits(c) => stream'[c] = stream[c])
  PROVE  RoomsInv'
<1>1. SentOfRooms(inbox)' /\ HeldOfRooms(known)' /\ QueuedOfRooms(offlineQueue)'
  BY DEF SentOfRooms, HeldOfRooms, QueuedOfRooms, InSession
<1>2. LogsOfRooms(rooms)' /\ \A c \in Conn : Waits(c)' => stream'[c] = <<>>
  BY DEF RoomsInv, LogsOfRooms, Waits
<1>3. \A cl \in Client : InSession(cl)' =>
        /\ OfRoom(Range(stream[transport[cl]]), session[cl])'
        /\ \A room \in DOMAIN rooms' : transport'[cl] \in PeerConns(rooms'[room].peers) => room = session'[cl]
  <2>1. \A cl \in Client : InSession(cl) => transport[cl] \in Conn
    BY DEF IndInv, TypeOK
  <2> QED
    BY <2>1 DEF RoomsInv, OfRoom, InSession
<1> QED
  BY <1>1, <1>2, <1>3 DEF RoomsInv

LEMMA QueuedOfRoom ==
  ASSUME NEW cl, NEW queue, NEW ops, IsList(queue), IsList(ops)
  PROVE  Range(Queued(cl, queue, ops)) \subseteq Range(queue) \cup Range(ops)
BY Ranges DEF Queued

LEMMA QueueChange ==
  ASSUME IndInv, RoomsInv, NEW cl \in Client, NEW queue, offlineQueue' = [offlineQueue EXCEPT ![cl] = queue],
         InSession(cl) => \A o \in Range(queue) : BelongsTo(o, session[cl])
  PROVE  QueuedOfRooms(offlineQueue')
<1>1. \A dl \in Client : offlineQueue'[dl] = IF dl = cl THEN queue ELSE offlineQueue[dl]
  BY DEF IndInv, FunctionsOK, IsFunction
<1> QED
  BY <1>1 DEF RoomsInv, QueuedOfRooms

LEMMA KnownChange ==
  ASSUME IndInv, RoomsInv, NEW cl \in Client, NEW K, known' = [known EXCEPT ![cl] = K],
         ~LateDelivery => IsFiniteSet(K) /\ (InSession(cl) => \A o \in K : BelongsTo(o, session[cl]))
  PROVE  HeldOfRooms(known')
<1>1. \A dl \in Client : known'[dl] = IF dl = cl THEN K ELSE known[dl]
  BY DEF IndInv, FunctionsOK, IsFunction
<1> QED
  BY <1>1 DEF RoomsInv, HeldOfRooms

LEMMA ReadyOfRoom ==
  ASSUME IndInv, RoomsInv, NEW cl \in Client, NEW box, NEW queue, Ready(cl, box, queue), BoxOK(box),
         SentOfRooms(box), IsList(queue), InSession(cl) => \A o \in Range(queue) : BelongsTo(o, session[cl])
  PROVE  SentOfRooms(inbox') /\ QueuedOfRooms(offlineQueue')
<1>1. CASE InSession(cl)
  <2>1. inbox' = Sent(cl, box, queue) /\ offlineQueue' = [offlineQueue EXCEPT ![cl] = Queued(cl, <<>>, queue)]
    BY <1>1 DEF Ready
  <2>2. SentOfRooms(inbox')
    BY <1>1, <2>1, SentOfRoom
  <2>3. Range(Queued(cl, <<>>, queue)) \subseteq Range(<<>>) \cup Range(queue)
    BY QueuedOfRoom, EmptyList
  <2>4. \A o \in Range(Queued(cl, <<>>, queue)) : BelongsTo(o, session[cl])
    BY <1>1, <2>3, EmptyList
  <2> QED
    BY <2>1, <2>2, <2>4, QueueChange
<1>2. CASE ~InSession(cl)
  <2>1. inbox' = box /\ offlineQueue' = [offlineQueue EXCEPT ![cl] = queue]
    BY <1>2 DEF Ready
  <2> QED
    BY <1>2, <2>1, QueueChange
<1> QED
  BY <1>1, <1>2

LEMMA FiniteHasBound ==
  ASSUME NEW T \in SUBSET Nat, IsFiniteSet(T)
  PROVE  \E n \in Nat : \A x \in T : x <= n
<1>1. PICK size \in Nat : ExistsBijection(1..size, T)
  BY FS_CardinalityType
<1>2. PICK f : f \in [1..size -> T] /\ \A x \in T : \E i \in 1..size : f[i] = x
  BY <1>1 DEF ExistsBijection, Bijection, Surjection
<1>3. \A i \in 1..size : f[i] \in Nat
  BY <1>2
<1> DEFINE Bounded(k) == \E n \in Nat : \A i \in 1..k : f[i] <= n
           bad == {k \in 0..size : ~Bounded(k)}
<1>4. Bounded(0)
  <2>1. \A i \in 1..0 : f[i] <= 0
    OBVIOUS
  <2> QED
    BY <2>1
<1>5. ASSUME NEW k \in 1..size, Bounded(k - 1) PROVE Bounded(k)
  <2>1. PICK n \in Nat : \A i \in 1..(k - 1) : f[i] <= n
    BY <1>5
  <2>2. f[k] \in Nat
    BY <1>3
  <2>3. ASSUME NEW i \in 1..k PROVE f[i] <= n + f[k]
    <3>1. CASE i = k
      BY <2>2, <3>1
    <3>2. CASE i # k
      <4>1. f[i] <= n /\ f[i] \in Nat
        BY <1>3, <2>1, <3>2
      <4> QED
        BY <2>2, <4>1
    <3> QED
      BY <3>1, <3>2
  <2>4. n + f[k] \in Nat
    BY <2>2
  <2> QED
    BY <2>3, <2>4
<1> HIDE DEF Bounded
<1>6. bad = {}
  <2> SUFFICES ASSUME bad # {} PROVE FALSE
    OBVIOUS
  <2>1. PICK k \in bad : \A j \in bad : k <= j
    <3>1. bad \in SUBSET Nat
      OBVIOUS
    <3> HIDE DEF bad
    <3> QED
      BY <3>1, LeastNumber
  <2>2. k \in 0..size /\ ~Bounded(k) /\ k # 0
    BY <1>4, <2>1
  <2>3. k \in 1..size /\ k - 1 \in 0..size /\ ~(k <= k - 1)
    BY <2>2
  <2>4. Bounded(k - 1)
    BY <2>1, <2>3
  <2> QED
    BY <1>5, <2>2, <2>3, <2>4
<1>7. size \in 0..size
  OBVIOUS
<1>8. Bounded(size)
  BY <1>6, <1>7
<1>9. PICK n \in Nat : \A i \in 1..size : f[i] <= n
  BY <1>8 DEF Bounded
<1>10. \A x \in T : x <= n
  BY <1>2, <1>9
<1> QED
  BY <1>10

\* The numbers of a finite set have a greatest one.
LEMMA GreatestNumber ==
  ASSUME NEW T \in SUBSET Nat, IsFiniteSet(T), T # {}
  PROVE  Max(T) \in T /\ \A x \in T : x <= Max(T)
<1> DEFINE Bounds == {n \in Nat : \A x \in T : x <= n}
<1>1. Bounds # {}
  <2>1. PICK n \in Nat : \A x \in T : x <= n
    BY FiniteHasBound
  <2> QED
    BY <2>1
<1>2. PICK b \in Bounds : \A n \in Bounds : b <= n
  BY <1>1, LeastNumber
<1>3. b \in T
  <2> SUFFICES ASSUME b \notin T PROVE FALSE
    OBVIOUS
  <2>1. \A x \in T : x <= b - 1
    BY <1>2
  <2>2. PICK x \in T : TRUE
    OBVIOUS
  <2>3. b - 1 \in Bounds
    BY <1>2, <2>1, <2>2
  <2> QED
    BY <1>2, <2>3
<1>4. b \in T /\ \A x \in T : b >= x
  BY <1>2, <1>3
<1> QED
  BY <1>4 DEF Max

\* A CRDT stays finite.
LEMMA FiniteLearn == \A K, op : IsFiniteSet(K) => IsFiniteSet(Learn(K, op))
BY FS_AddElement DEF Learn, Seen

LEMMA FiniteLearnAll ==
  ASSUME NEW K, NEW log, IsFiniteSet(K), IsList(log)
  PROVE  IsFiniteSet(LearnAll(K, log))
<1>1. Len(log) \in Nat /\ DOMAIN log = 1..Len(log)
  BY LenProperties DEF IsList
<1>2. IsFiniteSet(1..Len(log))
  BY <1>1, FS_Interval
<1>3. log \in Surjection(1..Len(log), Range(log))
  BY <1>1 DEF Surjection, Range, IsList
<1>4. IsFiniteSet(Range(log))
  BY <1>2, <1>3, FS_Surjection
<1>5. IsFiniteSet(K \cup Range(log))
  BY <1>4, FS_Union
<1> QED
  BY <1>5, LearnAllOfLog, FS_Subset

\* The operation of an edit is of the room of its session, and its id is new.
LEMMA NewOpIsNew ==
  ASSUME IndInv, RoomsInv, ElementsInv, NEW cl \in Client, InSession(cl), NEW dep
  PROVE  /\ BelongsTo(NewOp(cl, dep), session[cl])
         /\ NewOp(cl, dep).id[1] = cl
         /\ ~LateDelivery => \A o \in elements[cl] : o.id # NewOp(cl, dep).id
<1> DEFINE own == {x \in elements[cl] : x.id[1] = cl}
           numbers == Numbers(cl, elements[cl])
           max == Max({0} \cup numbers)
<1>1. /\ NewOp(cl, dep).room = session[cl]
      /\ NewOp(cl, dep).id = <<cl, 1 + max>>
  BY DEF NewOp
<1>2. CASE LateDelivery
  BY <1>1, <1>2 DEF BelongsTo
<1>3. CASE ~LateDelivery
  <2>1. \A o \in elements[cl] : BelongsTo(o, session[cl])
    BY <1>3 DEF RoomsInv, HeldOfRooms, ElementsInv
  <2>2. numbers \subseteq Nat
    BY <1>3, <2>1 DEF Numbers, BelongsTo
  <2>3. IsFiniteSet(own)
    <3>1. IsFiniteSet(known[cl]) /\ own \subseteq known[cl]
      BY <1>3 DEF RoomsInv, HeldOfRooms, ElementsInv
    <3> QED
      BY <3>1, FS_Subset
  <2>4. [o \in own |-> o.id[2]] \in Surjection(own, numbers)
    BY DEF Surjection, Numbers
  <2>5. IsFiniteSet(numbers)
    BY <2>3, <2>4, FS_Surjection
  <2>6. IsFiniteSet({0} \cup numbers)
    BY <2>5, FS_Singleton, FS_Union
  <2> HIDE DEF numbers
  <2>7. {0} \cup numbers \in SUBSET Nat /\ {0} \cup numbers # {}
    BY <2>2
  <2>8. max \in Nat /\ \A x \in numbers : x <= max
    BY <2>6, <2>7, GreatestNumber
  <2> HIDE DEF max
  <2>9. ASSUME NEW o \in elements[cl], o.id = <<cl, 1 + max>> PROVE FALSE
    <3>1. o.id[2] \in numbers
      BY <2>9 DEF numbers, Numbers
    <3>2. 1 + max <= max
      BY <2>8, <2>9, <3>1
    <3> QED
      BY <2>8, <3>2
  <2>10. NewOp(cl, dep).id[2] \in Nat
    BY <1>1, <2>8
  <2> QED
    BY <1>1, <2>9, <2>10 DEF BelongsTo
<1> QED
  BY <1>2, <1>3

LEMMA EditOfRoom ==
  ASSUME IndInv, RoomsInv, ElementsInv, NEW cl \in Client, NEW dep, Edit(cl, dep)
  PROVE  RoomsInv'
<1> DEFINE op == NewOp(cl, dep)
<1>1. /\ InSession(cl)
      /\ known' = [known EXCEPT ![cl] = known[cl] \cup {op}]
      /\ inbox' = Sent(cl, inbox, <<op>>)
      /\ offlineQueue' = [offlineQueue EXCEPT ![cl] = Queued(cl, offlineQueue[cl], <<op>>)]
      /\ UNCHANGED <<rooms, stream, status, session, transport>>
  BY DEF Edit, Make
<1>2. BelongsTo(op, session[cl])
  BY <1>1, NewOpIsNew
<1> HIDE DEF op
<1>3. IsList(<<op>>) /\ Range(<<op>>) = {op} /\ IsList(offlineQueue[cl])
  BY Ranges DEF IndInv, ListsOK
<1>4. SentOfRooms(inbox')
  BY <1>1, <1>2, <1>3, BoxesAndQueues, SentOfRoom DEF RoomsInv
<1>5. ~LateDelivery => /\ IsFiniteSet(known[cl] \cup {op})
                       /\ \A o \in known[cl] \cup {op} : BelongsTo(o, session[cl])
  BY <1>1, <1>2, FS_AddElement DEF RoomsInv, HeldOfRooms
<1>6. HeldOfRooms(known')
  BY <1>1, <1>5, KnownChange
<1>7. Range(Queued(cl, offlineQueue[cl], <<op>>)) \subseteq Range(offlineQueue[cl]) \cup {op}
  BY <1>3, QueuedOfRoom
<1>8. \A o \in Range(Queued(cl, offlineQueue[cl], <<op>>)) : BelongsTo(o, session[cl])
  BY <1>1, <1>2, <1>7 DEF RoomsInv, QueuedOfRooms
<1>9. QueuedOfRooms(offlineQueue')
  BY <1>1, <1>8, QueueChange
<1>10. \A c \in Conn : Range(stream'[c]) \subseteq Range(stream[c]) /\ (Waits(c) => stream'[c] = stream[c])
  BY <1>1
<1>11. UNCHANGED <<rooms, status, session, transport>>
  BY <1>1
<1> QED
  BY <1>4, <1>6, <1>9, <1>10, <1>11, RoomsWithinSession

LEMMA RenderOfRoom ==
  ASSUME IndInv, RoomsInv, NEW cl \in Client, NEW i, RenderDone(cl, i)
  PROVE  RoomsInv'
<1>1. /\ Ready(cl, inbox, offlineQueue[cl])
      /\ UNCHANGED <<rooms, stream, status, known, session, transport>>
  BY DEF RenderDone, crdtVars
<1>2. BoxOK(inbox) /\ SentOfRooms(inbox) /\ IsList(offlineQueue[cl])
  BY BoxesAndQueues DEF RoomsInv, IndInv, ListsOK
<1>3. InSession(cl) => \A o \in Range(offlineQueue[cl]) : BelongsTo(o, session[cl])
  BY DEF RoomsInv, QueuedOfRooms
<1>4. SentOfRooms(inbox') /\ QueuedOfRooms(offlineQueue')
  BY <1>1, <1>2, <1>3, ReadyOfRoom
<1>5. HeldOfRooms(known')
  BY <1>1 DEF RoomsInv
<1>6. \A c \in Conn : Range(stream'[c]) \subseteq Range(stream[c]) /\ (Waits(c) => stream'[c] = stream[c])
  BY <1>1
<1>7. UNCHANGED <<rooms, status, session, transport>>
  BY <1>1
<1> QED
  BY <1>4, <1>5, <1>6, <1>7, RoomsWithinSession

\* What is read is of the room of the session that reads it.
LEMMA ReadOfRoom ==
  ASSUME IndInv, LinkInv, RoomsInv, NEW c \in Conn, owner[c] # NoOwner, NEW type, Reading(c, type)
  PROVE  /\ UNCHANGED <<rooms, status>> /\ TheOwner(c) \in Client
         /\ Head(stream[c]).type = type
         /\ type = "joined" => IsList(Head(stream[c]).opLog)
         /\ \A d \in Conn : Range(stream'[d]) \subseteq Range(stream[d]) /\ (Waits(d) => stream'[d] = stream[d])
         /\ ~LateDelivery /\ InSession(TheOwner(c)) => OfRoom({Head(stream[c])}, session[TheOwner(c)])
<1>1. TheOwner(c) \in Client
  BY DEF TheOwner, IndInv, FunctionsOK
<1>2. /\ UNCHANGED <<rooms, status>> /\ Head(stream[c]).type = type
      /\ type = "joined" => IsList(Head(stream[c]).opLog)
  BY ReadingKeeps
<1>3. stream[c] # <<>> /\ ~Waits(c) /\ stream' = [stream EXCEPT ![c] = Tail(stream[c])]
  BY DEF Reading, Waits
<1>4. stream' = [d \in Conn |-> IF d = c THEN Tail(stream[c]) ELSE stream[d]]
  BY <1>3 DEF IndInv, FunctionsOK, IsFunction
<1>5. Range(Tail(stream[c])) \subseteq Range(stream[c]) /\ Head(stream[c]) \in Range(stream[c])
  BY <1>3, Ranges DEF IndInv, ListsOK
<1>6. \A d \in Conn : Range(stream'[d]) \subseteq Range(stream[d]) /\ (Waits(d) => stream'[d] = stream[d])
  BY <1>3, <1>4, <1>5
<1>7. ASSUME ~LateDelivery, InSession(TheOwner(c)) PROVE OfRoom(Range(stream[c]), session[TheOwner(c)])
  <2>1. transport[TheOwner(c)] = c
    BY <1>7, ReadsItsOwn
  <2> QED
    BY <1>1, <1>7, <2>1 DEF RoomsInv
<1> QED
  BY <1>1, <1>2, <1>5, <1>6, <1>7 DEF OfRoom

LEMMA MessageOfRoom ==
  ASSUME IndInv, LinkInv, RoomsInv, ElementsInv, NEW c \in Conn, Message(c)
  PROVE  RoomsInv'
<1> DEFINE cl == TheOwner(c)
           m == Head(stream[c])
<1>1. /\ SentOfRooms(inbox) /\ HeldOfRooms(known) /\ QueuedOfRooms(offlineQueue) /\ BoxOK(inbox)
      /\ owner[c] # NoOwner
  BY BoxesAndQueues DEF RoomsInv, Message
<1>2. CASE HandleNothing(c)
  <2>1. PICK type : Reading(c, type)
    BY <1>2 DEF HandleNothing
  <2>2. UNCHANGED <<inbox, known, offlineQueue, session, transport>>
    BY <1>2 DEF HandleNothing, clientVars, crdtVars, managerVars
  <2>3. /\ UNCHANGED <<rooms, status>>
        /\ \A d \in Conn : Range(stream'[d]) \subseteq Range(stream[d]) /\ (Waits(d) => stream'[d] = stream[d])
    BY <1>1, <2>1, ReadOfRoom
  <2> QED
    BY <1>1, <2>2, <2>3, RoomsWithinSession
<1>3. CASE HandleTransportOperation(c)
  <2>1. /\ Reading(c, "operation") /\ InSession(cl) /\ known' = [known EXCEPT ![cl] = Learn(known[cl], m.op)]
        /\ UNCHANGED <<inbox, offlineQueue, session, transport>>
    BY <1>3 DEF HandleTransportOperation, managerVars
  <2>2. /\ UNCHANGED <<rooms, status>> /\ cl \in Client
        /\ \A d \in Conn : Range(stream'[d]) \subseteq Range(stream[d]) /\ (Waits(d) => stream'[d] = stream[d])
        /\ m.type = "operation" /\ (~LateDelivery => OfRoom({m}, session[cl]))
    BY <1>1, <2>1, ReadOfRoom
  <2> HIDE DEF cl, m
  <2>3. ~LateDelivery => /\ IsFiniteSet(Learn(known[cl], m.op))
                         /\ \A o \in Learn(known[cl], m.op) : BelongsTo(o, session[cl])
    BY <1>1, <2>1, <2>2, FiniteLearn DEF Learn, HeldOfRooms, OfRoom
  <2>4. HeldOfRooms(known')
    BY <2>1, <2>2, <2>3, KnownChange
  <2> QED
    BY <1>1, <2>1, <2>2, <2>4, RoomsWithinSession
<1>4. CASE ReplayLog(c)
  <2>1. /\ Reading(c, "joined") /\ InSession(cl) /\ known' = [known EXCEPT ![cl] = LearnAll(known[cl], m.opLog)]
        /\ UNCHANGED <<inbox, offlineQueue, session, transport>>
    BY <1>4 DEF ReplayLog
  <2>2. /\ UNCHANGED <<rooms, status>> /\ cl \in Client
        /\ \A d \in Conn : Range(stream'[d]) \subseteq Range(stream[d]) /\ (Waits(d) => stream'[d] = stream[d])
        /\ m.type = "joined" /\ IsList(m.opLog) /\ (~LateDelivery => OfRoom({m}, session[cl]))
    BY <1>1, <2>1, ReadOfRoom
  <2> HIDE DEF cl, m
  <2>3. LearnAll(known[cl], m.opLog) \subseteq known[cl] \cup Range(m.opLog)
    BY <2>2, LearnAllOfLog
  <2>4. ~LateDelivery => \A o \in LearnAll(known[cl], m.opLog) : BelongsTo(o, session[cl])
    BY <1>1, <2>1, <2>2, <2>3 DEF HeldOfRooms, OfRoom
  <2>5. ~LateDelivery => IsFiniteSet(LearnAll(known[cl], m.opLog))
    BY <1>1, <2>2, FiniteLearnAll DEF HeldOfRooms
  <2>6. HeldOfRooms(known')
    BY <2>1, <2>2, <2>4, <2>5, KnownChange
  <2> QED
    BY <1>1, <2>1, <2>2, <2>6, RoomsWithinSession
<1>5. CASE EmptyLog(c)
  <2>1. /\ Reading(c, "joined") /\ InSession(cl) /\ UNCHANGED <<session, transport>>
    BY <1>5 DEF EmptyLog
  <2>2. /\ UNCHANGED <<rooms, status>> /\ cl \in Client
        /\ \A d \in Conn : Range(stream'[d]) \subseteq Range(stream[d]) /\ (Waits(d) => stream'[d] = stream[d])
    BY <1>1, <2>1, ReadOfRoom
  <2> DEFINE op == NewOp(cl, Root)
  <2>3. \/ /\ known' = [known EXCEPT ![cl] = known[cl] \cup {op}]
           /\ Ready(cl, Sent(cl, inbox, <<op>>), Queued(cl, offlineQueue[cl], <<op>>))
        \/ Ready(cl, inbox, offlineQueue[cl]) /\ UNCHANGED crdtVars
    BY <1>5 DEF EmptyLog, Make
  <2>4. BelongsTo(op, session[cl])
    BY <2>1, <2>2, NewOpIsNew
  <2> HIDE DEF op, cl
  <2>5. /\ IsList(<<op>>) /\ Range(<<op>>) = {op} /\ IsList(offlineQueue[cl])
        /\ \A o \in Range(offlineQueue[cl]) : BelongsTo(o, session[cl])
        /\ ~LateDelivery => \A o \in known[cl] : BelongsTo(o, session[cl])
    BY <1>1, <2>1, <2>2, Ranges DEF IndInv, ListsOK, QueuedOfRooms, HeldOfRooms
  <2>6. SentOfRooms(inbox') /\ HeldOfRooms(known') /\ QueuedOfRooms(offlineQueue')
    <3>1. CASE Ready(cl, inbox, offlineQueue[cl]) /\ UNCHANGED crdtVars
      BY <1>1, <2>2, <2>5, <3>1, ReadyOfRoom DEF crdtVars
    <3>2. CASE /\ known' = [known EXCEPT ![cl] = known[cl] \cup {op}]
               /\ Ready(cl, Sent(cl, inbox, <<op>>), Queued(cl, offlineQueue[cl], <<op>>))
      <4> DEFINE box == Sent(cl, inbox, <<op>>)
                 queue == Queued(cl, offlineQueue[cl], <<op>>)
      <4>1. BoxOK(box)
        BY <1>1, <2>2, <2>5, SentKeeps DEF BoxOK
      <4>2. SentOfRooms(box)
        BY <1>1, <2>1, <2>2, <2>4, <2>5, SentOfRoom
      <4>3. IsList(queue)
        BY <2>5, QueuedIsAList
      <4>4. Range(queue) \subseteq Range(offlineQueue[cl]) \cup Range(<<op>>)
        BY <2>5, QueuedOfRoom
      <4> HIDE DEF box, queue
      <4>5. \A o \in Range(queue) : BelongsTo(o, session[cl])
        BY <2>4, <2>5, <4>4
      <4>6. SentOfRooms(inbox') /\ QueuedOfRooms(offlineQueue')
        BY <2>2, <3>2, <4>1, <4>2, <4>3, <4>5, ReadyOfRoom DEF box, queue
      <4>7. ~LateDelivery => /\ IsFiniteSet(known[cl] \cup {op})
                             /\ \A o \in known[cl] \cup {op} : BelongsTo(o, session[cl])
        BY <1>1, <2>2, <2>4, <2>5, FS_AddElement DEF HeldOfRooms
      <4> QED
        BY <2>2, <3>2, <4>6, <4>7, KnownChange
    <3> QED
      BY <2>3, <3>1, <3>2
  <2> QED
    BY <2>1, <2>2, <2>6, RoomsWithinSession
<1> QED
  BY <1>2, <1>3, <1>4, <1>5 DEF Message

\* A connection that was never used has nothing of any room.
LEMMA UnusedHasNothing ==
  ASSUME IndInv, RoomsInv, NEW new \in Conn, status[new] = "unused", NEW room
  PROVE  /\ OfRoom(Range(inbox[new]), room) /\ OfRoom(Range(stream[new]), room)
         /\ \A r \in DOMAIN rooms : new \notin PeerConns(rooms[r].peers)
<1>1. Waits(new)
  BY DEF Waits
<1>2. inbox[new] = <<>> /\ stream[new] = <<>> /\ \A r \in DOMAIN rooms : new \notin PeerConns(rooms[r].peers)
  BY <1>1 DEF IndInv, NewConns, RoomsInv
<1> QED
  BY <1>2, Ranges DEF OfRoom

LEMMA ChangeOfRoom ==
  ASSUME IndInv, RoomsInv, NEW cl \in Client, NEW room, NEW new, ChangeSession(cl, room, new),
         \/ room = NoRoom /\ new = NoConn
         \/ new \in Conn /\ status[new] = "unused"
  PROVE  RoomsInv'
<1> DEFINE old == transport[cl]
<1>1. /\ session' = [dl \in Client |-> IF dl = cl THEN room ELSE session[dl]]
      /\ transport' = [dl \in Client |-> IF dl = cl THEN new ELSE transport[dl]]
      /\ known' = [dl \in Client |-> IF dl = cl THEN {} ELSE known[dl]]
      /\ offlineQueue' = [dl \in Client |-> IF dl = cl THEN <<>> ELSE offlineQueue[dl]]
      /\ inbox' = IF IsOpen(cl) THEN [inbox EXCEPT ![old] = Append(inbox[old], CloseMsg)] ELSE inbox
      /\ UNCHANGED <<rooms, stream>>
      /\ \A dl \in Client : InSession(dl) => transport[dl] \in Conn
  BY ChangeFacts
<1>2. \A c \in Conn : Waits(c)' => Waits(c)
  <2>1. \A c \in Conn : /\ c = new => status[c] = "unused"
                        /\ c # new /\ status'[c] \in {"unused", "connecting"} => status'[c] = status[c]
    BY ChangeFacts
  <2> QED
    BY <2>1 DEF Waits
<1> HIDE DEF old
<1>3. \A c \in Conn : Range(inbox'[c]) \subseteq Range(inbox[c]) \cup {CloseMsg}
  <2>1. CASE ~IsOpen(cl)
    BY <1>1, <2>1
  <2>2. CASE IsOpen(cl)
    <3>1. inbox' = [c \in Conn |-> IF c = old THEN Append(inbox[old], CloseMsg) ELSE inbox[c]]
      BY <1>1, <2>2 DEF IndInv, FunctionsOK, IsFunction
    <3>2. \A c \in Conn : IsList(inbox[c])
      BY DEF IndInv, ListsOK
    <3> QED
      BY <3>1, <3>2, Ranges
  <2> QED
    BY <2>1, <2>2
<1>4. CloseMsg.type = "close"
  BY DEF CloseMsg
<1>5. ASSUME NEW dl \in Client, InSession(dl)'
      PROVE  /\ OfRoom(Range(inbox[transport[dl]]), session[dl])'
             /\ OfRoom(Range(stream[transport[dl]]), session[dl])'
             /\ \A r \in DOMAIN rooms' : transport'[dl] \in PeerConns(rooms'[r].peers) => r = session'[dl]
  <2>1. CASE dl = cl
    <3>1. transport'[dl] = new /\ new \in Conn /\ status[new] = "unused"
      BY <1>1, <1>5, <2>1 DEF InSession
    <3>2. /\ OfRoom(Range(inbox[new]), session'[dl]) /\ OfRoom(Range(stream[new]), session'[dl])
          /\ \A r \in DOMAIN rooms : new \notin PeerConns(rooms[r].peers)
      BY <3>1, UnusedHasNothing
    <3>3. Range(inbox'[new]) \subseteq Range(inbox[new]) \cup {CloseMsg}
      BY <1>3, <3>1
    <3> QED
      BY <1>1, <1>4, <3>1, <3>2, <3>3 DEF OfRoom
  <2>2. CASE dl # cl
    <3>1. session'[dl] = session[dl] /\ transport'[dl] = transport[dl] /\ InSession(dl)
      BY <1>1, <1>5, <2>2 DEF InSession
    <3>2. /\ OfRoom(Range(inbox[transport[dl]]), session[dl]) /\ OfRoom(Range(stream[transport[dl]]), session[dl])
          /\ \A r \in DOMAIN rooms : transport[dl] \in PeerConns(rooms[r].peers) => r = session[dl]
      BY <3>1 DEF RoomsInv, SentOfRooms
    <3>3. Range(inbox'[transport[dl]]) \subseteq Range(inbox[transport[dl]]) \cup {CloseMsg}
      BY <1>1, <1>3, <3>1
    <3> QED
      BY <1>1, <1>4, <3>1, <3>2, <3>3 DEF OfRoom
  <2> QED
    BY <2>1, <2>2
<1>6. SentOfRooms(inbox)'
  BY <1>3, <1>4, <1>5 DEF SentOfRooms, RoomsInv
<1>7. HeldOfRooms(known)' /\ QueuedOfRooms(offlineQueue)'
  BY <1>1, Ranges, FS_EmptySet DEF HeldOfRooms, QueuedOfRooms, RoomsInv, InSession
<1>8. LogsOfRooms(rooms)' /\ \A c \in Conn : Waits(c)' => stream'[c] = <<>>
  BY <1>1, <1>2 DEF RoomsInv, LogsOfRooms
<1> QED
  BY <1>5, <1>6, <1>7, <1>8 DEF RoomsInv

LEMMA OpenOfRoom ==
  ASSUME IndInv, RoomsInv, NEW cl \in Client, SocketOpens(cl)
  PROVE  RoomsInv'
<1> DEFINE t == transport[cl]
           join == JoinMsg(session[cl], cl)
<1>1. /\ t # NoConn
      /\ status' = [status EXCEPT ![t] = "open"] /\ inbox' = [inbox EXCEPT ![t] = <<join>>]
      /\ UNCHANGED <<rooms, stream, session, transport, known, offlineQueue>>
  BY DEF SocketOpens, Open, clientVars, crdtVars, managerVars
<1>2. t \in Conn /\ InSession(cl) /\ owner[t] = <<cl, lives[cl]>>
  BY <1>1 DEF IndInv, TypeOK
<1>3. join.type = "join" /\ join.room = session[cl]
  BY DEF JoinMsg
<1> HIDE DEF join, t
<1>4. \A c \in Conn : /\ inbox'[c] = IF c = t THEN <<join>> ELSE inbox[c]
                      /\ status'[c] = IF c = t THEN "open" ELSE status[c]
  BY <1>1 DEF IndInv, FunctionsOK, IsFunction
<1>5. Range(<<join>>) = {join}
  BY Ranges
<1>6. \A dl \in Client : InSession(dl) => transport[dl] \in Conn /\ (transport[dl] = t => dl = cl)
  <2>1. \A dl \in Client : InSession(dl) => transport[dl] \in Conn /\ owner[transport[dl]] = <<dl, lives[dl]>>
    BY DEF IndInv, TypeOK
  <2> QED
    BY <1>2, <2>1
<1>7. SentOfRooms(inbox')
  BY <1>3, <1>4, <1>5, <1>6 DEF SentOfRooms, OfRoom, RoomsInv
<1>8. SentOfRooms(inbox)' /\ HeldOfRooms(known)' /\ QueuedOfRooms(offlineQueue)' /\ LogsOfRooms(rooms)'
  BY <1>1, <1>7 DEF RoomsInv, SentOfRooms, HeldOfRooms, QueuedOfRooms, LogsOfRooms, InSession
<1>9. \A c \in Conn : Waits(c)' => stream'[c] = <<>>
  BY <1>1, <1>4 DEF Waits, RoomsInv
<1>10. \A dl \in Client : InSession(dl)' =>
         /\ OfRoom(Range(stream[transport[dl]]), session[dl])'
         /\ \A r \in DOMAIN rooms' : transport'[dl] \in PeerConns(rooms'[r].peers) => r = session'[dl]
  BY <1>1 DEF RoomsInv, InSession, OfRoom
<1> QED
  BY <1>8, <1>9, <1>10 DEF RoomsInv

LEMMA CutRange ==
  ASSUME NEW s, IsList(s), NEW kept \in 0..Len(s), NEW m
  PROVE  Range(Append(SubSeq(s, 1, kept), m)) \subseteq Range(s) \cup {m}
<1>1. s \in Seq(Range(s)) /\ Len(s) \in Nat
  BY LenProperties DEF IsList
<1>2. SubSeq(s, 1, kept) \in Seq(Range(s))
  BY <1>1, SubSeqProperties
<1>3. IsList(SubSeq(s, 1, kept)) /\ Range(SubSeq(s, 1, kept)) \subseteq Range(s)
  <2> DEFINE u == SubSeq(s, 1, kept)
             R == Range(s)
  <2>1. u \in Seq(R)
    BY <1>2
  <2> HIDE DEF u, R
  <2>2. u \in [1..Len(u) -> R] /\ DOMAIN u = 1..Len(u)
    BY <2>1, LenProperties
  <2>3. Range(u) \subseteq R
    BY <2>2 DEF Range
  <2> QED
    BY <2>1, <2>3, SeqIsList DEF u, R
<1> QED
  BY <1>3, Ranges

LEMMA BreakOfRoom ==
  ASSUME IndInv, RoomsInv, NEW cl \in Client, SocketCloses(cl)
  PROVE  RoomsInv'
<1> DEFINE t == transport[cl]
<1>1. /\ InSession(cl) /\ status' = [status EXCEPT ![t] = "gone"]
      /\ UNCHANGED <<rooms, session, transport, known, offlineQueue>>
      /\ \/ UNCHANGED <<inbox, stream>>
         \/ /\ stream' = [stream EXCEPT ![t] = <<>>]
            /\ \E kept \in 0..Len(inbox[t]) : inbox' = [inbox EXCEPT ![t] = Append(SubSeq(inbox[t], 1, kept), CloseMsg)]
  BY DEF SocketCloses, Disconnect, crdtVars
<1>2. t \in Conn
  BY <1>1 DEF IndInv, TypeOK
<1> HIDE DEF t
<1>3. \A c \in Conn : status'[c] = IF c = t THEN "gone" ELSE status[c]
  BY <1>1 DEF IndInv, FunctionsOK, IsFunction
<1>4. \A c \in Conn : /\ Range(inbox'[c]) \subseteq Range(inbox[c]) \cup {CloseMsg}
                      /\ Range(stream'[c]) \subseteq Range(stream[c])
                      /\ c # t => stream'[c] = stream[c]
  <2>1. CASE UNCHANGED <<inbox, stream>>
    BY <2>1
  <2>2. CASE /\ stream' = [stream EXCEPT ![t] = <<>>]
             /\ \E kept \in 0..Len(inbox[t]) : inbox' = [inbox EXCEPT ![t] = Append(SubSeq(inbox[t], 1, kept), CloseMsg)]
    <3>1. PICK kept \in 0..Len(inbox[t]) : inbox' = [inbox EXCEPT ![t] = Append(SubSeq(inbox[t], 1, kept), CloseMsg)]
      BY <2>2
    <3>2. IsList(inbox[t])
      BY <1>2 DEF IndInv, ListsOK
    <3>3. Range(Append(SubSeq(inbox[t], 1, kept), CloseMsg)) \subseteq Range(inbox[t]) \cup {CloseMsg}
      BY <3>2, CutRange
    <3>4. \A c \in Conn : /\ inbox'[c] = IF c = t THEN Append(SubSeq(inbox[t], 1, kept), CloseMsg) ELSE inbox[c]
                          /\ stream'[c] = IF c = t THEN <<>> ELSE stream[c]
      BY <2>2, <3>1 DEF IndInv, FunctionsOK, IsFunction
    <3> QED
      BY <3>3, <3>4, Ranges
  <2> QED
    BY <1>1, <2>1, <2>2
<1>5. CloseMsg.type = "close"
  BY DEF CloseMsg
<1>6. \A dl \in Client : InSession(dl) => transport[dl] \in Conn
  BY DEF IndInv, TypeOK
<1>7. SentOfRooms(inbox')
  BY <1>4, <1>5, <1>6 DEF SentOfRooms, OfRoom, RoomsInv
<1>8. SentOfRooms(inbox)' /\ HeldOfRooms(known)' /\ QueuedOfRooms(offlineQueue)' /\ LogsOfRooms(rooms)'
  BY <1>1, <1>7 DEF RoomsInv, SentOfRooms, HeldOfRooms, QueuedOfRooms, LogsOfRooms, InSession
<1>9. \A c \in Conn : Waits(c)' => stream'[c] = <<>>
  BY <1>3, <1>4 DEF Waits, RoomsInv
<1>10. \A dl \in Client : InSession(dl)' =>
         /\ OfRoom(Range(stream[transport[dl]]), session[dl])'
         /\ \A r \in DOMAIN rooms' : transport'[dl] \in PeerConns(rooms'[r].peers) => r = session'[dl]
  BY <1>1, <1>4, <1>6 DEF RoomsInv, InSession, OfRoom
<1> QED
  BY <1>8, <1>9, <1>10 DEF RoomsInv

LEMMA RestartOfRoom ==
  ASSUME IndInv, RoomsInv, ServerRestarts
  PROVE  RoomsInv'
<1>1. /\ DOMAIN rooms' = {} /\ inbox' = [c \in Conn |-> <<>>] /\ stream' = [c \in Conn |-> <<>>]
      /\ UNCHANGED <<session, transport, known, offlineQueue>>
  BY DEF ServerRestarts, crdtVars
<1>2. \A dl \in Client : InSession(dl) => transport[dl] \in Conn
  BY DEF IndInv, TypeOK
<1>3. HeldOfRooms(known)' /\ QueuedOfRooms(offlineQueue)'
  BY <1>1 DEF RoomsInv, HeldOfRooms, QueuedOfRooms, InSession
<1>4. SentOfRooms(inbox)' /\ LogsOfRooms(rooms)'
  BY <1>1, <1>2, Ranges DEF SentOfRooms, LogsOfRooms, OfRoom, InSession
<1>5. \A dl \in Client : InSession(dl)' =>
        /\ OfRoom(Range(stream[transport[dl]]), session[dl])'
        /\ \A r \in DOMAIN rooms' : transport'[dl] \in PeerConns(rooms'[r].peers) => r = session'[dl]
  BY <1>1, <1>2, Ranges DEF OfRoom, InSession
<1> QED
  BY <1>1, <1>3, <1>4, <1>5 DEF RoomsInv

LEMMA ReconnectOfRoom ==
  ASSUME IndInv, RoomsInv, NEW cl \in Client, Reconnect(cl)
  PROVE  RoomsInv'
<1> DEFINE new == FreshConn
<1>1. /\ \E c \in Conn : status[c] = "unused"
      /\ transport' = [transport EXCEPT ![cl] = new]
      /\ status' = [status EXCEPT ![new] = "connecting"]
      /\ UNCHANGED <<rooms, inbox, stream, known, session, offlineQueue>>
  BY DEF Reconnect, crdtVars
<1>2. new \in Conn /\ status[new] = "unused"
  BY <1>1, FreshIsUnused
<1> HIDE DEF new
<1>3. transport' = [dl \in Client |-> IF dl = cl THEN new ELSE transport[dl]]
  BY <1>1 DEF IndInv, TypeOK
<1>4. \A c \in Conn : status'[c] = IF c = new THEN "connecting" ELSE status[c]
  BY <1>1 DEF IndInv, FunctionsOK, IsFunction
<1>5. ASSUME NEW dl \in Client, InSession(dl)
      PROVE  /\ OfRoom(Range(inbox[transport'[dl]]), session[dl])
             /\ OfRoom(Range(stream[transport'[dl]]), session[dl])
             /\ \A r \in DOMAIN rooms : transport'[dl] \in PeerConns(rooms[r].peers) => r = session[dl]
  <2>1. CASE dl = cl
    <3>1. transport'[dl] = new
      BY <1>3, <2>1
    <3> QED
      BY <1>2, <3>1, UnusedHasNothing
  <2>2. CASE dl # cl
    <3>1. transport'[dl] = transport[dl]
      BY <1>3, <2>2
    <3> QED
      BY <1>5, <3>1 DEF RoomsInv, SentOfRooms
  <2> QED
    BY <2>1, <2>2
<1>6. HeldOfRooms(known)' /\ QueuedOfRooms(offlineQueue)' /\ LogsOfRooms(rooms)'
  BY <1>1 DEF RoomsInv, HeldOfRooms, QueuedOfRooms, LogsOfRooms, InSession
<1>7. SentOfRooms(inbox)'
  BY <1>1, <1>5 DEF RoomsInv, SentOfRooms, OfRoom, InSession
<1>8. \A c \in Conn : Waits(c)' => stream'[c] = <<>>
  BY <1>1, <1>2, <1>4 DEF Waits, RoomsInv
<1>9. \A dl \in Client : InSession(dl)' =>
        /\ OfRoom(Range(stream[transport[dl]]), session[dl])'
        /\ \A r \in DOMAIN rooms' : transport'[dl] \in PeerConns(rooms'[r].peers) => r = session'[dl]
  BY <1>1, <1>5 DEF OfRoom, InSession
<1> QED
  BY <1>6, <1>7, <1>8, <1>9 DEF RoomsInv

LEMMA RoomsInit == Init => RoomsInv
<1> SUFFICES ASSUME Init PROVE RoomsInv
  OBVIOUS
<1>1. /\ DOMAIN rooms = {} /\ inbox = [c \in Conn |-> <<>>] /\ stream = [c \in Conn |-> <<>>]
      /\ session = [cl \in Client |-> NoRoom] /\ known = [cl \in Client |-> {}]
  BY DEF Init, ServerInit, ConnInit
<1>2. \A cl \in Client : ~InSession(cl)
  BY <1>1 DEF InSession
<1> QED
  BY <1>1, <1>2, Ranges, FS_EmptySet DEF RoomsInv, LogsOfRooms, SentOfRooms, HeldOfRooms, QueuedOfRooms

LEMMA RoomsStep ==
  ASSUME IndInv, LinkInv, RoomsInv, ElementsInv, [Next]_vars
  PROVE  RoomsInv'
<1>1. ASSUME NEW c \in Conn, Server(c) \/ Message(c) PROVE RoomsInv'
  BY <1>1, ServerOfRoom, MessageOfRoom
<1>2. ASSUME NEW cl \in Client, NEW room \in Room, StartSession(cl, room) PROVE RoomsInv'
  <2>1. /\ ChangeSession(cl, room, FreshConn)
        /\ \E c \in Conn : status[c] = "unused"
    BY <1>2 DEF StartSession
  <2>2. FreshConn \in Conn /\ status[FreshConn] = "unused"
    BY <2>1, FreshIsUnused
  <2> QED
    BY <2>1, <2>2, ChangeOfRoom
<1>3. ASSUME NEW cl \in Client, LeaveSession(cl) PROVE RoomsInv'
  BY <1>3, ChangeOfRoom DEF LeaveSession
<1>4. ASSUME NEW cl \in Client, (\E dep : Edit(cl, dep)) \/ SocketOpens(cl) \/ SocketCloses(cl) \/ Reconnect(cl)
      PROVE  RoomsInv'
  BY <1>4, EditOfRoom, OpenOfRoom, BreakOfRoom, ReconnectOfRoom
<1>5. ASSUME NEW cl \in Client, NEW i \in DOMAIN rendering[cl], RenderDone(cl, i) PROVE RoomsInv'
  BY <1>5, RenderOfRoom
<1>6. CASE ServerRestarts
  BY <1>6, RestartOfRoom
<1>7. CASE UNCHANGED vars
  <2>1. UNCHANGED <<rooms, inbox, stream, status, session, transport, known, offlineQueue>>
    BY <1>7 DEF vars, serverVars, connVars, clientVars, crdtVars, managerVars
  <2>2. SentOfRooms(inbox') /\ HeldOfRooms(known') /\ QueuedOfRooms(offlineQueue')
    BY <2>1 DEF RoomsInv
  <2> QED
    BY <2>1, <2>2, RoomsWithinSession
<1> QED
  BY <1>1, <1>2, <1>3, <1>4, <1>5, <1>6, <1>7 DEF Next

\* Whatever the environment does, the log of a room gets only what was written
\* in it: what a session queues and sends is of its room (leaveSession and
\* flushOfflineQueue of sessionManager.ts), also when a closed socket delivers
\* late, the user changes rooms during a render, connections overlap or the
\* server starts again.
THEOREM RoomsApart == Spec => []RoomsStayApart
<1>1. Init => IndInv /\ LinkInv /\ RoomsInv /\ ElementsInv
  BY InitIndInv, LinkInit, RoomsInit, ElementsInit
<1>2. (IndInv /\ LinkInv /\ RoomsInv /\ ElementsInv) /\ [Next]_vars => (IndInv /\ LinkInv /\ RoomsInv /\ ElementsInv)'
  BY NextIndInv, LinkStep, RoomsStep, ElementsStep
<1>3. RoomsInv => RoomsStayApart
  <2> SUFFICES ASSUME RoomsInv, NEW room \in Room PROVE \A o \in Log(room) : o.room = room
    BY DEF RoomsStayApart
  <2>1. CASE room \in DOMAIN rooms
    BY <2>1 DEF Log, RoomOf, RoomsInv, LogsOfRooms, BelongsTo
  <2>2. CASE room \notin DOMAIN rooms
    <3>1. Log(room) = Range(<<>>)
      BY <2>2 DEF Log, RoomOf, NewRoom
    <3> QED
      BY <3>1, Ranges
  <2> QED
    BY <2>1, <2>2
<1> QED
  BY <1>1, <1>2, <1>3, PTL DEF Spec

-----------------------------------------------------------------------------
(* The newest connection.                                                  *)

JoinsIn(box, c) == {m \in Range(box[c]) : m.type = "join"}

\* A join says who opened the connection, and which session, if it is still
\* that one; only the last connection of a session has one under way.
JoinsAreMeant ==
  \A c \in Conn : \A m \in JoinsIn(inbox, c) :
    /\ owner[c] # NoOwner /\ m.client = TheOwner(c)
    /\ InSession(TheOwner(c)) => c = transport[TheOwner(c)] /\ m.room = session[TheOwner(c)]

\* Who has an open connection has not said goodbye on it.
NoCloseYet ==
  \A c \in Conn : status[c] = "open" => \A m \in Range(inbox[c]) : m.type # "close"

\* The connection of a session is registered once its join is answered.
AnsweredIsRegistered ==
  \A cl \in Client :
    IsOpen(cl) /\ joined[transport[cl]] # NotJoined => Registered(cl)

NewestInv ==
  /\ IsFunction(joined, Conn)
  /\ \A c \in Conn : Waits(c) => joined[c] = NotJoined
  /\ JoinsAreMeant /\ NoCloseYet /\ AnsweredIsRegistered

LEMMA HandlerForgets ==
  ASSUME IndInv, NEW c \in Conn, NEW type, Reads(c, type)
  PROVE  /\ Head(inbox[c]) \in Range(inbox[c]) /\ Head(inbox[c]).type = type /\ ~Waits(c)
         /\ \A d \in Conn : Range(inbox'[d]) \subseteq Range(inbox[d])
<1>1. /\ inbox' = [inbox EXCEPT ![c] = Tail(inbox[c])] /\ inbox[c] # <<>>
      /\ inbox = [d \in Conn |-> inbox[d]] /\ Head(inbox[c]).type = type
  BY DEF Reads, IndInv, FunctionsOK, IsFunction
<1>2. \A d \in Conn : inbox'[d] = IF d = c THEN Tail(inbox[c]) ELSE inbox[d]
  BY <1>1
<1>3. Range(Tail(inbox[c])) \subseteq Range(inbox[c]) /\ Head(inbox[c]) \in Range(inbox[c])
  BY <1>1, Ranges DEF IndInv, ListsOK
<1>4. ~Waits(c)
  BY <1>1 DEF IndInv, NewConns
<1> QED
  BY <1>1, <1>2, <1>3, <1>4

\* A step of the server after which every open connection that has joined is
\* registered.
LEMMA NewestAtServer ==
  ASSUME IndInv, NewestInv, NEW c \in Conn, NEW type, Reads(c, type), UNCHANGED <<clientVars, status>>,
         IsFunction(joined', Conn), \A d \in Conn : d # c => joined'[d] = joined[d],
         \A cl \in Client : IsOpen(cl) /\ joined'[transport[cl]] # NotJoined =>
           At(rooms', session[cl], cl, transport[cl])
  PROVE  NewestInv'
<1>1. UNCHANGED <<session, transport, owner, status>>
  BY DEF clientVars, managerVars
<1>2. ~Waits(c) /\ \A d \in Conn : Range(inbox'[d]) \subseteq Range(inbox[d])
  BY HandlerForgets
<1>3. \A d \in Conn : Waits(d)' => joined'[d] = NotJoined
  BY <1>1, <1>2 DEF Waits, NewestInv
<1>4. JoinsAreMeant'
  BY <1>1, <1>2 DEF NewestInv, JoinsAreMeant, JoinsIn, InSession, TheOwner
<1>5. NoCloseYet'
  BY <1>1, <1>2 DEF NewestInv, NoCloseYet
<1>6. AnsweredIsRegistered'
  BY <1>1 DEF AnsweredIsRegistered, Registered, IsActiveSender, IsOpen, At
<1> QED
  BY <1>3, <1>4, <1>5, <1>6 DEF NewestInv

\* A registered client is in the room.
LEMMA NewestIsAt ==
  ASSUME NewestInv, NEW cl \in Client, IsOpen(cl), joined[transport[cl]] # NotJoined
  PROVE  At(rooms, session[cl], cl, transport[cl])
BY DEF NewestInv, AnsweredIsRegistered, Registered, IsActiveSender, At

LEMMA NewestJoins ==
  ASSUME IndInv, NewestInv, NEW c \in Conn, HandleJoin(c), UNCHANGED clientVars
  PROVE  NewestInv'
<1> DEFINE m == Head(inbox[c])
           room == m.room
           client == m.client
           old == RoomOf(room)
           peers == AddPeer(old.peers, client, c)
<1>1. /\ Reads(c, "join") /\ status' = status
      /\ rooms' = SetRoom(room, [old EXCEPT !.peers = peers])
      /\ joined' = [joined EXCEPT ![c] = <<room, client>>]
  BY DEF HandleJoin
<1>2. UNCHANGED <<clientVars, status>>
  BY <1>1
<1>3. /\ client = TheOwner(c)
      /\ InSession(TheOwner(c)) => c = transport[TheOwner(c)] /\ room = session[TheOwner(c)]
  <2>1. m \in JoinsIn(inbox, c)
    BY <1>1, HandlerForgets DEF JoinsIn
  <2> QED
    BY <2>1 DEF NewestInv, JoinsAreMeant
<1>4. IsRoom(old)
  BY RoomOfIsRoom
<1>5. room \in DOMAIN rooms => old = rooms[room]
  BY DEF RoomOf
<1> HIDE DEF m, room, client, old, peers
<1>6. /\ DOMAIN rooms' = DOMAIN rooms \cup {room}
      /\ rooms'[room] = [peers |-> peers, log |-> old.log]
      /\ \A r \in DOMAIN rooms : r # room => rooms'[r] = rooms[r]
  <2>1. [old EXCEPT !.peers = peers] = [peers |-> peers, log |-> old.log]
    BY <1>4 DEF IsRoom
  <2>2. rooms' = [x \in DOMAIN rooms \cup {room} |-> IF x = room THEN [peers |-> peers, log |-> old.log] ELSE rooms[x]]
    BY <1>1, <2>1 DEF SetRoom
  <2> QED
    BY <2>2
<1>7. peers = [x \in DOMAIN old.peers \cup {client} |-> IF x = client THEN c ELSE old.peers[x]]
  BY DEF peers, AddPeer
<1>8. joined' = [d \in Conn |-> IF d = c THEN <<room, client>> ELSE joined[d]]
  BY <1>1 DEF NewestInv, IsFunction
<1>9. IsFunction(joined', Conn) /\ \A d \in Conn : d # c => joined'[d] = joined[d]
  BY <1>8 DEF IsFunction
<1>10. ASSUME NEW cl \in Client, IsOpen(cl), joined'[transport[cl]] # NotJoined
       PROVE  At(rooms', session[cl], cl, transport[cl])
  <2>1. transport[cl] \in Conn /\ InSession(cl) /\ owner[transport[cl]] = <<cl, lives[cl]>>
    BY <1>10 DEF IsOpen, IndInv, TypeOK
  <2>2. CASE transport[cl] = c
    <3>1. client = cl /\ room = session[cl]
      BY <1>3, <2>1, <2>2 DEF TheOwner
    <3> QED
      BY <1>6, <1>7, <2>2, <3>1 DEF At
  <2>3. CASE transport[cl] # c
    <3>1. At(rooms, session[cl], cl, transport[cl])
      BY <1>9, <1>10, <2>1, <2>3, NewestIsAt
    <3>2. client # cl
      BY <1>3, <2>1, <2>3
    <3>3. CASE session[cl] # room
      BY <1>6, <3>1, <3>3 DEF At
    <3>4. CASE session[cl] = room
      <4>1. cl \in DOMAIN old.peers /\ old.peers[cl] = transport[cl]
        BY <1>5, <3>1, <3>4 DEF At
      <4> QED
        BY <1>6, <1>7, <3>2, <3>4, <4>1 DEF At
    <3> QED
      BY <3>3, <3>4
  <2> QED
    BY <2>2, <2>3
<1> QED
  BY <1>1, <1>2, <1>9, <1>10, NewestAtServer

LEMMA NewestOperates ==
  ASSUME IndInv, NewestInv, NEW c \in Conn,
         RejectOperation(c) \/ IgnoreOperation(c) \/ AcceptOperation(c), UNCHANGED clientVars
  PROVE  NewestInv'
<1>1. Reads(c, "operation") /\ status' = status /\ joined' = joined
  BY DEF RejectOperation, IgnoreOperation, AcceptOperation
<1>2. UNCHANGED <<clientVars, status>> /\ IsFunction(joined', Conn)
  BY <1>1 DEF NewestInv
<1>3. ASSUME NEW cl \in Client, At(rooms, session[cl], cl, transport[cl])
      PROVE  At(rooms', session[cl], cl, transport[cl])
  <2>1. CASE rooms' = rooms
    BY <1>3, <2>1
  <2>2. CASE AcceptOperation(c)
    <3> DEFINE room == Head(inbox[c]).room
               log == AppendOperation(rooms[room].log, Head(inbox[c]).op)
    <3>1. /\ room \in DOMAIN rooms
          /\ rooms' = SetRoom(room, [rooms[room] EXCEPT !.log = log])
      BY <2>2 DEF AcceptOperation
    <3> HIDE DEF room, log
    <3>2. [rooms[room] EXCEPT !.log = log] = [peers |-> rooms[room].peers, log |-> log]
      BY <3>1 DEF IndInv, ListsOK, IsRoom
    <3>3. rooms' = [x \in DOMAIN rooms \cup {room} |->
                      IF x = room THEN [peers |-> rooms[room].peers, log |-> log] ELSE rooms[x]]
      BY <3>1, <3>2 DEF SetRoom
    <3>4. DOMAIN rooms' = DOMAIN rooms /\ \A r \in DOMAIN rooms : rooms'[r].peers = rooms[r].peers
      BY <3>1, <3>3
    <3> QED
      BY <1>3, <3>4 DEF At
  <2> QED
    BY <2>1, <2>2 DEF RejectOperation, IgnoreOperation
<1>4. \A cl \in Client : IsOpen(cl) /\ joined'[transport[cl]] # NotJoined =>
        At(rooms', session[cl], cl, transport[cl])
  BY <1>1, <1>3, NewestIsAt
<1> QED
  BY <1>1, <1>2, <1>4, NewestAtServer

\* Who closes is not open, so it takes nobody along whose connection is.
LEMMA NewestCloses ==
  ASSUME IndInv, NewestInv, NEW c \in Conn, HandleClose(c), UNCHANGED clientVars
  PROVE  NewestInv'
<1>1. Reads(c, "close") /\ status' = status /\ joined' = joined
  BY DEF HandleClose
<1>2. UNCHANGED <<clientVars, status>> /\ IsFunction(joined', Conn)
  BY <1>1 DEF NewestInv
<1>3. status[c] # "open"
  BY <1>1, HandlerForgets DEF NewestInv, NoCloseYet
<1>4. ASSUME NEW cl \in Client, IsOpen(cl), At(rooms, session[cl], cl, transport[cl])
      PROVE  At(rooms', session[cl], cl, transport[cl])
  <2>1. CASE rooms' = rooms
    BY <1>4, <2>1
  <2>2. CASE rooms' # rooms
    <3> DEFINE room == joined[c][1]
               client == joined[c][2]
               before == rooms[room].peers
               after == RemovePeer(before, client, c)
    <3>1. room \in DOMAIN rooms /\ rooms' = RoomsAfterClose(room, after)
      BY <2>2 DEF HandleClose
    <3>2. \A x \in DOMAIN before : before[x] # c => x \in DOMAIN after /\ after[x] = before[x]
      BY DEF RemovePeer, IsActiveSender, Restrict
    <3>3. IsRoom(rooms[room])
      BY <3>1 DEF IndInv, ListsOK
    <3>4. transport[cl] # c
      BY <1>3, <1>4 DEF IsOpen
    <3> HIDE DEF room, client, after
    <3>5. CASE session[cl] # room
      <4>1. CASE after = NoPeers
        <5>1. rooms' = [x \in DOMAIN rooms \ {room} |-> rooms[x]]
          BY <3>1, <4>1 DEF RoomsAfterClose, Restrict
        <5> QED
          BY <1>4, <3>5, <5>1 DEF At
      <4>2. CASE after # NoPeers
        <5>1. rooms' = SetRoom(room, [rooms[room] EXCEPT !.peers = after])
          BY <3>1, <4>2 DEF RoomsAfterClose
        <5> QED
          BY <1>4, <3>5, <5>1 DEF At, SetRoom
      <4> QED
        BY <4>1, <4>2
    <3>6. CASE session[cl] = room
      <4>1. cl \in DOMAIN after /\ after[cl] = transport[cl]
        BY <1>4, <3>2, <3>4, <3>6 DEF At
      <4>2. after # NoPeers
        <5>1. DOMAIN NoPeers = {}
          BY DEF NoPeers
        <5> QED
          BY <4>1, <5>1
      <4>3. [rooms[room] EXCEPT !.peers = after] = [peers |-> after, log |-> rooms[room].log]
        BY <3>3 DEF IsRoom
      <4>4. rooms' = [x \in DOMAIN rooms \cup {room} |->
                        IF x = room THEN [peers |-> after, log |-> rooms[room].log] ELSE rooms[x]]
        BY <3>1, <4>2, <4>3 DEF RoomsAfterClose, SetRoom
      <4>5. room \in DOMAIN rooms' /\ rooms'[room].peers = after
        BY <4>4
      <4> QED
        BY <3>6, <4>1, <4>5 DEF At
    <3> QED
      BY <3>5, <3>6
  <2> QED
    BY <2>1, <2>2
<1>5. \A cl \in Client : IsOpen(cl) /\ joined'[transport[cl]] # NotJoined =>
        At(rooms', session[cl], cl, transport[cl])
  BY <1>1, <1>4, NewestIsAt
<1> QED
  BY <1>1, <1>2, <1>5, NewestAtServer

LEMMA NewestServer ==
  ASSUME IndInv, NewestInv, NEW c \in Conn, Server(c)
  PROVE  NewestInv'
<1>1. Handle(c) /\ UNCHANGED clientVars
  BY DEF Server
<1> QED
  BY <1>1, NewestJoins, NewestOperates, NewestCloses DEF Handle

\* A step of the clients that opens no connection: it adds no join, and no
\* close to a connection that stays open.
LEMMA NewestAlong ==
  ASSUME NewestInv, UNCHANGED <<rooms, joined>>,
         \A c \in Conn :
           /\ Waits(c)' => Waits(c)
           /\ status'[c] = "open" => status[c] = "open"
           /\ \A m \in Range(inbox'[c]) :
                m.type = "join" \/ (m.type = "close" /\ status'[c] = "open") => m \in Range(inbox[c])
           /\ JoinsIn(inbox, c) # {} /\ owner[c] # NoOwner =>
                /\ owner'[c] = owner[c]
                /\ InSession(TheOwner(c))' => UNCHANGED <<transport[TheOwner(c)], session[TheOwner(c)]>>,
         \A cl \in Client : IsOpen(cl)' => IsOpen(cl) /\ UNCHANGED <<transport[cl], session[cl]>>
  PROVE  NewestInv'
<1>1. \A c \in Conn : Waits(c)' => joined'[c] = NotJoined
  BY DEF NewestInv
<1>2. JoinsAreMeant'
  <2> SUFFICES ASSUME NEW c \in Conn, NEW m \in JoinsIn(inbox', c)
               PROVE  /\ owner'[c] # NoOwner /\ m.client = TheOwner(c)'
                      /\ InSession(TheOwner(c))' =>
                           c = transport'[TheOwner(c)'] /\ m.room = session'[TheOwner(c)']
    BY DEF JoinsAreMeant
  <2>1. m \in JoinsIn(inbox, c)
    BY DEF JoinsIn
  <2>2. /\ owner[c] # NoOwner /\ m.client = TheOwner(c)
        /\ InSession(TheOwner(c)) => c = transport[TheOwner(c)] /\ m.room = session[TheOwner(c)]
    BY <2>1 DEF NewestInv, JoinsAreMeant
  <2>3. /\ owner'[c] = owner[c]
        /\ InSession(TheOwner(c))' => UNCHANGED <<transport[TheOwner(c)], session[TheOwner(c)]>>
    BY <2>1, <2>2
  <2>4. TheOwner(c)' = TheOwner(c)
    BY <2>3 DEF TheOwner
  <2> QED
    BY <2>2, <2>3, <2>4 DEF InSession
<1>3. NoCloseYet'
  BY DEF NewestInv, NoCloseYet
<1>4. AnsweredIsRegistered'
  BY DEF NewestInv, AnsweredIsRegistered, Registered, IsActiveSender
<1> QED
  BY <1>1, <1>2, <1>3, <1>4 DEF NewestInv

\* Within a session only operations are sent.
LEMMA NewestWithin ==
  ASSUME NewestInv, UNCHANGED <<rooms, joined, status, session, transport, owner>>,
         \A c \in Conn : \A m \in Range(inbox'[c]) : m \in Range(inbox[c]) \/ m.type = "operation"
  PROVE  NewestInv'
<1>1. \A c \in Conn :
        /\ Waits(c)' => Waits(c)
        /\ status'[c] = "open" => status[c] = "open"
        /\ \A m \in Range(inbox'[c]) :
             m.type = "join" \/ (m.type = "close" /\ status'[c] = "open") => m \in Range(inbox[c])
        /\ JoinsIn(inbox, c) # {} /\ owner[c] # NoOwner =>
             /\ owner'[c] = owner[c]
             /\ InSession(TheOwner(c))' => UNCHANGED <<transport[TheOwner(c)], session[TheOwner(c)]>>
  BY DEF Waits, TheOwner
<1>2. \A cl \in Client : IsOpen(cl)' => IsOpen(cl) /\ UNCHANGED <<transport[cl], session[cl]>>
  BY DEF IsOpen
<1> QED
  BY <1>1, <1>2, NewestAlong

LEMMA SentSays ==
  ASSUME IndInv, NEW cl \in Client, NEW box, NEW ops, BoxOK(box), IsList(ops)
  PROVE  \A c \in Conn : \A m \in Range(Sent(cl, box, ops)[c]) : m \in Range(box[c]) \/ m.type = "operation"
<1>1. CASE ~IsOpen(cl)
  BY <1>1 DEF Sent
<1>2. CASE IsOpen(cl)
  <2> DEFINE t == transport[cl]
             more == Operations(cl, ops)
  <2>1. t \in Conn
    BY <1>2 DEF IsOpen, IndInv, TypeOK
  <2>2. Sent(cl, box, ops) = [c \in Conn |-> IF c = t THEN box[t] \o more ELSE box[c]]
    BY <1>2 DEF Sent, BoxOK, IsFunction
  <2>3. \A m \in Range(more) : m.type = "operation"
    BY DEF Operations, OperationMsg, Range
  <2>4. IsList(more)
    BY OperationsAreAList
  <2> HIDE DEF more, t
  <2>5. Range(box[t] \o more) \subseteq Range(box[t]) \cup Range(more)
    BY <2>1, <2>4, Ranges DEF BoxOK
  <2> QED
    BY <2>2, <2>3, <2>5
<1> QED
  BY <1>1, <1>2

LEMMA ReadySays ==
  ASSUME IndInv, NEW cl \in Client, NEW box, NEW queue, Ready(cl, box, queue), BoxOK(box), IsList(queue)
  PROVE  \A c \in Conn : \A m \in Range(inbox'[c]) : m \in Range(box[c]) \/ m.type = "operation"
BY SentSays DEF Ready

LEMMA NewestEdits ==
  ASSUME IndInv, NewestInv, NEW cl \in Client, NEW dep, Edit(cl, dep)
  PROVE  NewestInv'
<1>1. /\ inbox' = Sent(cl, inbox, <<NewOp(cl, dep)>>)
      /\ UNCHANGED <<rooms, joined, status, session, transport, owner>>
  BY DEF Edit
<1>2. \A c \in Conn : \A m \in Range(inbox'[c]) : m \in Range(inbox[c]) \/ m.type = "operation"
  BY <1>1, BoxesAndQueues, OneOperation, SentSays
<1> QED
  BY <1>1, <1>2, NewestWithin

LEMMA NewestRenders ==
  ASSUME IndInv, NewestInv, NEW cl \in Client, NEW i, RenderDone(cl, i)
  PROVE  NewestInv'
<1>1. /\ Ready(cl, inbox, offlineQueue[cl])
      /\ UNCHANGED <<rooms, joined, status, session, transport, owner>>
  BY DEF RenderDone
<1>2. \A c \in Conn : \A m \in Range(inbox'[c]) : m \in Range(inbox[c]) \/ m.type = "operation"
  BY <1>1, BoxesAndQueues, ReadySays DEF IndInv, ListsOK
<1> QED
  BY <1>1, <1>2, NewestWithin

LEMMA NewestMessages ==
  ASSUME IndInv, NewestInv, NEW c \in Conn, Message(c)
  PROVE  NewestInv'
<1> DEFINE cl == TheOwner(c)
<1>1. cl \in Client
  BY DEF Message, IndInv, FunctionsOK, TheOwner
<1>2. UNCHANGED <<rooms, joined, status, session, transport, owner>>
  BY DEF Message, HandleNothing, HandleTransportOperation, ReplayLog, EmptyLog, Reading,
         clientVars, managerVars
<1>3. \A d \in Conn : \A m \in Range(inbox'[d]) : m \in Range(inbox[d]) \/ m.type = "operation"
  <2>1. CASE UNCHANGED inbox
    BY <2>1
  <2>2. CASE EmptyLog(c)
    <3> DEFINE op == NewOp(cl, Root)
               box == Sent(cl, inbox, <<op>>)
               queue == Queued(cl, offlineQueue[cl], <<op>>)
    <3>1. Ready(cl, box, queue) \/ Ready(cl, inbox, offlineQueue[cl])
      BY <2>2 DEF EmptyLog
    <3> HIDE DEF op, cl
    <3>2. BoxOK(inbox) /\ IsList(offlineQueue[cl]) /\ IsList(<<op>>)
      BY <1>1, BoxesAndQueues, OneOperation DEF IndInv, ListsOK
    <3>3. BoxOK(box) /\ IsList(queue)
      BY <1>1, <3>2, SentKeeps, QueuedIsAList DEF BoxOK
    <3>4. \A d \in Conn : \A m \in Range(box[d]) : m \in Range(inbox[d]) \/ m.type = "operation"
      BY <1>1, <3>2, SentSays
    <3> HIDE DEF box, queue
    <3>5. CASE Ready(cl, inbox, offlineQueue[cl])
      BY <1>1, <3>2, <3>5, ReadySays
    <3>6. CASE Ready(cl, box, queue)
      <4>1. \A d \in Conn : \A m \in Range(inbox'[d]) : m \in Range(box[d]) \/ m.type = "operation"
        BY <1>1, <3>3, <3>6, ReadySays
      <4> QED
        BY <3>4, <4>1
    <3> QED
      BY <3>1, <3>5, <3>6
  <2> QED
    BY <2>1, <2>2 DEF Message, HandleNothing, HandleTransportOperation, ReplayLog
<1> QED
  BY <1>2, <1>3, NewestWithin

\* No join is under way when a client begins another session or connection.
LEMMA NoOldJoin ==
  ASSUME ~SlowServer, NEW cl \in Client, JoinsHandled(cl), NEW c \in Conn, owner[c] # NoOwner, TheOwner(c) = cl
  PROVE  JoinsIn(inbox, c) = {}
BY DEF JoinsHandled, JoinsIn

LEMMA NewestChanges ==
  ASSUME IndInv, NewestInv, NEW cl \in Client, NEW room, NEW new, ChangeSession(cl, room, new),
         \/ room = NoRoom /\ new = NoConn
         \/ new \in Conn /\ status[new] = "unused",
         \A c \in Conn : c # new => owner'[c] = owner[c],
         \/ room = NoRoom
         \/ \A c \in Conn : owner[c] # NoOwner /\ TheOwner(c) = cl => JoinsIn(inbox, c) = {}
  PROVE  NewestInv'
<1> DEFINE old == transport[cl]
<1>1. /\ session' = [dl \in Client |-> IF dl = cl THEN room ELSE session[dl]]
      /\ transport' = [dl \in Client |-> IF dl = cl THEN new ELSE transport[dl]]
      /\ inbox' = IF IsOpen(cl) THEN [inbox EXCEPT ![old] = Append(inbox[old], CloseMsg)] ELSE inbox
      /\ \A dl \in Client : InSession(dl) => transport[dl] \in Conn
      /\ \A c \in Conn :
           /\ c = new => status[c] = "unused" /\ status'[c] = "connecting"
           /\ status'[c] = "open" => status[c] = "open"
           /\ c # new /\ status'[c] \in {"unused", "connecting"} => status'[c] = status[c]
           /\ c = old => status'[c] \notin {"connecting", "open"}
  BY ChangeFacts
<1>2. UNCHANGED <<rooms, joined>>
  BY DEF ChangeSession
<1>3. \A c \in Conn : /\ c # old => inbox'[c] = inbox[c]
                      /\ \A m \in Range(inbox'[c]) : m.type = "join" => m \in Range(inbox[c])
  <2>1. CASE ~IsOpen(cl)
    BY <1>1, <2>1
  <2>2. CASE IsOpen(cl)
    <3>1. inbox' = [c \in Conn |-> IF c = old THEN Append(inbox[old], CloseMsg) ELSE inbox[c]]
      BY <1>1, <2>2 DEF IndInv, FunctionsOK, IsFunction
    <3>2. old \in Conn
      BY <2>2 DEF IsOpen, IndInv, TypeOK
    <3>3. Range(Append(inbox[old], CloseMsg)) \subseteq Range(inbox[old]) \cup {CloseMsg}
      BY <3>2, Ranges DEF IndInv, ListsOK
    <3>4. CloseMsg.type # "join"
      BY DEF CloseMsg
    <3> HIDE DEF old
    <3> QED
      BY <3>1, <3>3, <3>4
  <2> QED
    BY <2>1, <2>2
<1> HIDE DEF old
<1>4. ASSUME NEW c \in Conn, JoinsIn(inbox, c) # {}, owner[c] # NoOwner
      PROVE  /\ owner'[c] = owner[c]
             /\ InSession(TheOwner(c))' => UNCHANGED <<transport[TheOwner(c)], session[TheOwner(c)]>>
  <2>1. c # new
    <3>1. ~Waits(c)
      BY <1>4, Ranges DEF JoinsIn, IndInv, NewConns
    <3> QED
      BY <1>1, <3>1 DEF Waits
  <2>2. owner'[c] = owner[c] /\ TheOwner(c)' = TheOwner(c) /\ TheOwner(c) \in Client
    BY <1>4, <2>1 DEF TheOwner, IndInv, FunctionsOK
  <2>3. CASE TheOwner(c) # cl
    BY <1>1, <2>2, <2>3
  <2>4. CASE TheOwner(c) = cl
    <3>1. room = NoRoom
      BY <1>4, <2>4
    <3> QED
      BY <1>1, <2>2, <2>4, <3>1 DEF InSession
  <2> QED
    BY <2>3, <2>4
<1>5. \A c \in Conn :
        /\ Waits(c)' => Waits(c)
        /\ status'[c] = "open" => status[c] = "open"
        /\ \A m \in Range(inbox'[c]) :
             m.type = "join" \/ (m.type = "close" /\ status'[c] = "open") => m \in Range(inbox[c])
        /\ JoinsIn(inbox, c) # {} /\ owner[c] # NoOwner =>
             /\ owner'[c] = owner[c]
             /\ InSession(TheOwner(c))' => UNCHANGED <<transport[TheOwner(c)], session[TheOwner(c)]>>
  BY <1>1, <1>3, <1>4 DEF Waits
<1>6. ASSUME NEW dl \in Client, IsOpen(dl)'
      PROVE  IsOpen(dl) /\ UNCHANGED <<transport[dl], session[dl]>>
  <2>1. dl # cl
    <3>1. new = NoConn \/ (new \in Conn /\ status'[new] = "connecting")
      BY <1>1
    <3> QED
      BY <1>1, <1>6, <3>1 DEF IsOpen
  <2>2. transport'[dl] = transport[dl] /\ session'[dl] = session[dl]
    BY <1>1, <2>1
  <2>3. transport[dl] # NoConn /\ status'[transport[dl]] = "open" /\ transport[dl] \in Conn
    BY <1>6, <2>2 DEF IsOpen, IndInv, TypeOK
  <2> QED
    BY <1>1, <2>2, <2>3 DEF IsOpen
<1> QED
  BY <1>2, <1>5, <1>6, NewestAlong

LEMMA NewestOpens ==
  ASSUME IndInv, NewestInv, NEW cl \in Client, SocketOpens(cl)
  PROVE  NewestInv'
<1> DEFINE t == transport[cl]
           join == JoinMsg(session[cl], cl)
<1>1. /\ t # NoConn /\ status[t] = "connecting"
      /\ status' = [status EXCEPT ![t] = "open"] /\ inbox' = [inbox EXCEPT ![t] = <<join>>]
      /\ UNCHANGED <<rooms, joined, session, transport, owner>>
  BY DEF SocketOpens, Open, clientVars, managerVars
<1>2. t \in Conn /\ InSession(cl) /\ owner[t] = <<cl, lives[cl]>>
  BY <1>1 DEF IndInv, TypeOK
<1>3. join.type = "join" /\ join.client = cl /\ join.room = session[cl]
  BY DEF JoinMsg
<1>4. joined[t] = NotJoined
  BY <1>1, <1>2 DEF NewestInv, Waits
<1>5. t = transport[cl]
  OBVIOUS
<1> HIDE DEF join, t
<1>6. \A c \in Conn : /\ inbox'[c] = IF c = t THEN <<join>> ELSE inbox[c]
                      /\ status'[c] = IF c = t THEN "open" ELSE status[c]
  BY <1>1 DEF IndInv, FunctionsOK, IsFunction
<1>7. Range(<<join>>) = {join}
  BY Ranges
<1>8. \A c \in Conn : Waits(c)' => joined'[c] = NotJoined
  BY <1>1, <1>6 DEF Waits, NewestInv
<1>9. JoinsAreMeant'
  <2> SUFFICES ASSUME NEW c \in Conn, NEW m \in JoinsIn(inbox', c)
               PROVE  /\ owner[c] # NoOwner /\ m.client = TheOwner(c)
                      /\ InSession(TheOwner(c)) => c = transport[TheOwner(c)] /\ m.room = session[TheOwner(c)]
    BY <1>1 DEF JoinsAreMeant, TheOwner, InSession
  <2>1. CASE c = t
    <3>1. m = join
      BY <1>6, <1>7, <2>1 DEF JoinsIn
    <3> QED
      BY <1>2, <1>3, <1>5, <2>1, <3>1 DEF TheOwner, NoOwner
  <2>2. CASE c # t
    <3>1. m \in JoinsIn(inbox, c)
      BY <1>6, <2>2 DEF JoinsIn
    <3> QED
      BY <3>1 DEF NewestInv, JoinsAreMeant
  <2> QED
    BY <2>1, <2>2
<1>10. NoCloseYet'
  BY <1>3, <1>6, <1>7 DEF NewestInv, NoCloseYet
<1>11. AnsweredIsRegistered'
  <2> SUFFICES ASSUME NEW dl \in Client, IsOpen(dl)', joined[transport[dl]] # NotJoined
               PROVE  Registered(dl)'
    BY <1>1 DEF AnsweredIsRegistered
  <2>1. transport[dl] # NoConn /\ status'[transport[dl]] = "open" /\ transport[dl] \in Conn /\ transport[dl] # t
    BY <1>1, <1>4 DEF IsOpen, IndInv, TypeOK
  <2>2. IsOpen(dl)
    BY <1>6, <2>1 DEF IsOpen
  <2>3. Registered(dl)
    BY <2>2 DEF NewestInv, AnsweredIsRegistered
  <2> QED
    BY <1>1, <2>3 DEF Registered
<1> QED
  BY <1>1, <1>8, <1>9, <1>10, <1>11 DEF NewestInv

LEMMA NewestBreaks ==
  ASSUME IndInv, NewestInv, NEW cl \in Client, SocketCloses(cl)
  PROVE  NewestInv'
<1> DEFINE t == transport[cl]
<1>1. /\ InSession(cl) /\ status' = [status EXCEPT ![t] = "gone"]
      /\ UNCHANGED <<rooms, joined, session, transport, owner>>
      /\ \/ UNCHANGED inbox
         \/ \E kept \in 0..Len(inbox[t]) : inbox' = [inbox EXCEPT ![t] = Append(SubSeq(inbox[t], 1, kept), CloseMsg)]
  BY DEF SocketCloses, Disconnect
<1>2. t \in Conn
  BY <1>1 DEF IndInv, TypeOK
<1> HIDE DEF t
<1>3. \A c \in Conn : status'[c] = IF c = t THEN "gone" ELSE status[c]
  BY <1>1 DEF IndInv, FunctionsOK, IsFunction
<1>4. \A c \in Conn : /\ Range(inbox'[c]) \subseteq Range(inbox[c]) \cup {CloseMsg}
                      /\ c # t => inbox'[c] = inbox[c]
  <2>1. CASE UNCHANGED inbox
    BY <2>1
  <2>2. ASSUME NEW kept \in 0..Len(inbox[t]), inbox' = [inbox EXCEPT ![t] = Append(SubSeq(inbox[t], 1, kept), CloseMsg)]
        PROVE  \A c \in Conn : /\ Range(inbox'[c]) \subseteq Range(inbox[c]) \cup {CloseMsg}
                               /\ c # t => inbox'[c] = inbox[c]
    <3>1. IsList(inbox[t])
      BY <1>2 DEF IndInv, ListsOK
    <3>2. Range(Append(SubSeq(inbox[t], 1, kept), CloseMsg)) \subseteq Range(inbox[t]) \cup {CloseMsg}
      BY <3>1, CutRange
    <3>3. \A c \in Conn : inbox'[c] = IF c = t THEN Append(SubSeq(inbox[t], 1, kept), CloseMsg) ELSE inbox[c]
      BY <2>2 DEF IndInv, FunctionsOK, IsFunction
    <3> QED
      BY <3>2, <3>3
  <2> QED
    BY <1>1, <2>1, <2>2
<1>5. CloseMsg.type = "close"
  BY DEF CloseMsg
<1>6. \A c \in Conn :
        /\ Waits(c)' => Waits(c)
        /\ status'[c] = "open" => status[c] = "open"
        /\ \A m \in Range(inbox'[c]) :
             m.type = "join" \/ (m.type = "close" /\ status'[c] = "open") => m \in Range(inbox[c])
        /\ JoinsIn(inbox, c) # {} /\ owner[c] # NoOwner =>
             /\ owner'[c] = owner[c]
             /\ InSession(TheOwner(c))' => UNCHANGED <<transport[TheOwner(c)], session[TheOwner(c)]>>
  BY <1>1, <1>3, <1>4, <1>5 DEF Waits, TheOwner
<1>7. \A dl \in Client : IsOpen(dl)' => IsOpen(dl) /\ UNCHANGED <<transport[dl], session[dl]>>
  BY <1>1, <1>3 DEF IsOpen, IndInv, TypeOK
<1> QED
  BY <1>1, <1>6, <1>7, NewestAlong

LEMMA NewestReconnects ==
  ASSUME ~SlowServer, IndInv, NewestInv, NEW cl \in Client, Reconnect(cl)
  PROVE  NewestInv'
<1> DEFINE new == FreshConn
<1>1. /\ \E c \in Conn : status[c] = "unused"
      /\ JoinsHandled(cl)
      /\ transport' = [transport EXCEPT ![cl] = new]
      /\ owner' = [owner EXCEPT ![new] = <<cl, lives[cl]>>]
      /\ status' = [status EXCEPT ![new] = "connecting"]
      /\ UNCHANGED <<rooms, joined, inbox, session>>
  BY DEF Reconnect
<1>2. new \in Conn /\ status[new] = "unused"
  BY <1>1, FreshIsUnused
<1> HIDE DEF new
<1>3. transport' = [dl \in Client |-> IF dl = cl THEN new ELSE transport[dl]]
  BY <1>1 DEF IndInv, TypeOK
<1>4. \A c \in Conn : /\ status'[c] = IF c = new THEN "connecting" ELSE status[c]
                      /\ owner'[c] = IF c = new THEN <<cl, lives[cl]>> ELSE owner[c]
  BY <1>1 DEF IndInv, FunctionsOK, IsFunction
<1>5. ASSUME NEW c \in Conn, JoinsIn(inbox, c) # {}, owner[c] # NoOwner
      PROVE  /\ owner'[c] = owner[c]
             /\ InSession(TheOwner(c))' => UNCHANGED <<transport[TheOwner(c)], session[TheOwner(c)]>>
  <2>1. ~Waits(c)
    BY <1>5, Ranges DEF JoinsIn, IndInv, NewConns
  <2>2. c # new
    BY <1>2, <2>1 DEF Waits
  <2>3. owner'[c] = owner[c] /\ TheOwner(c)' = TheOwner(c) /\ TheOwner(c) \in Client
    BY <1>4, <1>5, <2>2 DEF TheOwner, IndInv, FunctionsOK
  <2>4. TheOwner(c) # cl
    BY <1>1, <1>5, NoOldJoin
  <2> QED
    BY <1>1, <1>3, <2>3, <2>4
<1>6. \A c \in Conn :
        /\ Waits(c)' => Waits(c)
        /\ status'[c] = "open" => status[c] = "open"
        /\ \A m \in Range(inbox'[c]) :
             m.type = "join" \/ (m.type = "close" /\ status'[c] = "open") => m \in Range(inbox[c])
        /\ JoinsIn(inbox, c) # {} /\ owner[c] # NoOwner =>
             /\ owner'[c] = owner[c]
             /\ InSession(TheOwner(c))' => UNCHANGED <<transport[TheOwner(c)], session[TheOwner(c)]>>
  BY <1>1, <1>2, <1>4, <1>5 DEF Waits
<1>7. ASSUME NEW dl \in Client, IsOpen(dl)'
      PROVE  IsOpen(dl) /\ UNCHANGED <<transport[dl], session[dl]>>
  <2>1. dl # cl
    BY <1>2, <1>3, <1>4, <1>7 DEF IsOpen
  <2>2. transport'[dl] = transport[dl]
    BY <1>3, <2>1
  <2>3. transport[dl] # NoConn /\ status'[transport[dl]] = "open" /\ transport[dl] \in Conn
    BY <1>7, <2>2 DEF IsOpen, IndInv, TypeOK
  <2> QED
    BY <1>1, <1>4, <2>2, <2>3 DEF IsOpen
<1> QED
  BY <1>1, <1>6, <1>7, NewestAlong

LEMMA NewestStarts ==
  ASSUME ~SlowServer, IndInv, NewestInv, NEW cl \in Client, NEW room, StartSession(cl, room)
  PROVE  NewestInv'
<1> DEFINE new == FreshConn
<1>1. /\ ChangeSession(cl, room, new) /\ JoinsHandled(cl)
      /\ \E c \in Conn : status[c] = "unused"
      /\ owner' = [owner EXCEPT ![new] = <<cl, lives[cl] + 1>>]
  BY DEF StartSession
<1>2. new \in Conn /\ status[new] = "unused"
  BY <1>1, FreshIsUnused
<1> HIDE DEF new
<1>3. \A c \in Conn : c # new => owner'[c] = owner[c]
  BY <1>1 DEF IndInv, FunctionsOK, IsFunction
<1>4. \A c \in Conn : owner[c] # NoOwner /\ TheOwner(c) = cl => JoinsIn(inbox, c) = {}
  BY <1>1, NoOldJoin
<1> QED
  BY <1>1, <1>2, <1>3, <1>4, NewestChanges

LEMMA NewestRestarts ==
  ASSUME IndInv, NewestInv, ServerRestarts
  PROVE  NewestInv'
<1>1. /\ inbox' = [c \in Conn |-> <<>>] /\ joined' = [c \in Conn |-> NotJoined]
      /\ status' = [c \in Conn |-> IF status[c] = "unused" THEN "unused" ELSE "gone"]
      /\ UNCHANGED <<session, transport>>
  BY DEF ServerRestarts
<1>2. \A c \in Conn : Range(inbox'[c]) = {} /\ joined'[c] = NotJoined
  BY <1>1, Ranges
<1>3. JoinsAreMeant' /\ NoCloseYet'
  BY <1>2 DEF JoinsAreMeant, NoCloseYet, JoinsIn
<1>4. \A cl \in Client : ~IsOpen(cl)'
  BY <1>1 DEF IsOpen, IndInv, TypeOK
<1>5. AnsweredIsRegistered'
  BY <1>4 DEF AnsweredIsRegistered
<1>6. IsFunction(joined', Conn)
  BY <1>1 DEF IsFunction
<1> QED
  BY <1>2, <1>3, <1>5, <1>6 DEF NewestInv

LEMMA NewestInit == Init => NewestInv
<1> SUFFICES ASSUME Init PROVE NewestInv
  OBVIOUS
<1>1. /\ inbox = [c \in Conn |-> <<>>] /\ joined = [c \in Conn |-> NotJoined]
      /\ transport = [cl \in Client |-> NoConn]
  BY DEF Init, ServerInit, ConnInit
<1>2. \A c \in Conn : Range(inbox[c]) = {} /\ joined[c] = NotJoined
  BY <1>1, Ranges
<1>3. JoinsAreMeant /\ NoCloseYet
  BY <1>2 DEF JoinsAreMeant, NoCloseYet, JoinsIn
<1>4. AnsweredIsRegistered
  BY <1>1 DEF AnsweredIsRegistered, IsOpen
<1>5. IsFunction(joined, Conn)
  BY <1>1 DEF IsFunction
<1> QED
  BY <1>2, <1>3, <1>4, <1>5 DEF NewestInv

LEMMA NewestStep ==
  ASSUME ~SlowServer, IndInv, NewestInv, [Next]_vars
  PROVE  NewestInv'
<1>1. ASSUME NEW c \in Conn, Server(c) \/ Message(c) PROVE NewestInv'
  BY <1>1, NewestServer, NewestMessages
<1>2. ASSUME NEW cl \in Client, NEW room \in Room, StartSession(cl, room) PROVE NewestInv'
  BY <1>2, NewestStarts
<1>3. ASSUME NEW cl \in Client, LeaveSession(cl) PROVE NewestInv'
  <2>1. ChangeSession(cl, NoRoom, NoConn) /\ UNCHANGED owner
    BY <1>3 DEF LeaveSession
  <2> QED
    BY <2>1, NewestChanges
<1>4. ASSUME NEW cl \in Client, (\E dep : Edit(cl, dep)) \/ SocketOpens(cl) \/ SocketCloses(cl) \/ Reconnect(cl)
      PROVE  NewestInv'
  BY <1>4, NewestEdits, NewestOpens, NewestBreaks, NewestReconnects
<1>5. ASSUME NEW cl \in Client, NEW i \in DOMAIN rendering[cl], RenderDone(cl, i) PROVE NewestInv'
  BY <1>5, NewestRenders
<1>6. CASE ServerRestarts
  BY <1>6, NewestRestarts
<1>7. CASE UNCHANGED vars
  <2>1. UNCHANGED <<rooms, joined, inbox, status, session, transport, owner>>
    BY <1>7 DEF vars, serverVars, connVars, clientVars, managerVars
  <2> QED
    BY <2>1, NewestWithin
<1> QED
  BY <1>1, <1>2, <1>3, <1>4, <1>5, <1>6, <1>7 DEF Next
=============================================================================

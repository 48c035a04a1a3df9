-------------------------- MODULE SessionLogProofs --------------------------
(***************************************************************************)
(* Proofs about RelaySession where a Steady client is: what becomes of an  *)
(* operation between its author and the log.                               *)
(***************************************************************************)
EXTENDS RelaySessionProofs

-----------------------------------------------------------------------------
(* Sequences.                                                              *)

\* What is put in a list is in it, behind its head.
LEMMA InAppended ==
  ASSUME NEW s, NEW m, IsList(s)
  PROVE  /\ Range(s) \cup {m} = Range(Append(s, m))
         /\ s # <<>> => Append(s, m) # <<>> /\ Head(Append(s, m)) = Head(s)
<1> DEFINE t == Append(s, m)
           len == Len(s)
<1>1. /\ IsList(t) /\ len \in Nat /\ DOMAIN s = 1..len /\ DOMAIN t = 1..(len + 1)
      /\ t[len + 1] = m /\ \A i \in 1..len : t[i] = s[i]
  BY ListAppend
<1>2. t = Append(s, m)
  OBVIOUS
<1> HIDE DEF t, len
<1>3. \A i \in DOMAIN s : i \in DOMAIN t /\ t[i] = s[i]
  BY <1>1
<1>4. len + 1 \in DOMAIN t
  BY <1>1
<1>5. Range(s) \cup {m} \subseteq Range(t)
  BY <1>1, <1>3, <1>4 DEF Range
<1>6. Range(t) \subseteq Range(s) \cup {m}
  BY <1>2, Ranges
<1>7. ASSUME s # <<>> PROVE t # <<>> /\ Head(t) = Head(s)
  <2>1. 1 \in DOMAIN s /\ Head(s) = s[1]
    BY <1>7, ListTail
  <2>2. t # <<>>
    BY <1>3, <2>1, EmptyList
  <2>3. Head(t) = t[1]
    BY <1>1, <2>2, ListTail
  <2> QED
    BY <1>3, <2>1, <2>2, <2>3
<1> QED
  BY <1>2, <1>5, <1>6, <1>7

LEMMA InConcat ==
  ASSUME NEW s, NEW t, IsList(s), IsList(t)
  PROVE  /\ IsList(s \o t) /\ Range(s) \cup Range(t) = Range(s \o t)
         /\ s # <<>> => s \o t # <<>> /\ Head(s \o t) = Head(s)
<1> DEFINE u == s \o t
           m == Len(s)
           n == Len(t)
<1>1. /\ IsList(u) /\ m \in Nat /\ n \in Nat
      /\ DOMAIN s = 1..m /\ DOMAIN t = 1..n /\ DOMAIN u = 1..(m + n)
      /\ \A i \in 1..m : u[i] = s[i]
      /\ \A i \in 1..n : u[m + i] = t[i]
  BY ListConcat
<1>2. u = s \o t
  OBVIOUS
<1> HIDE DEF u, m, n
<1>3. \A i \in DOMAIN s : i \in DOMAIN u /\ u[i] = s[i]
  BY <1>1
<1>4. \A i \in DOMAIN t : m + i \in DOMAIN u /\ u[m + i] = t[i]
  BY <1>1
<1>5. Range(s) \cup Range(t) \subseteq Range(u)
  BY <1>3, <1>4 DEF Range
<1>6. Range(u) \subseteq Range(s) \cup Range(t)
  BY <1>2, Ranges
<1>7. ASSUME s # <<>> PROVE u # <<>> /\ Head(u) = Head(s)
  <2>1. 1 \in DOMAIN s /\ Head(s) = s[1]
    BY <1>7, ListTail
  <2>2. u # <<>>
    BY <1>3, <2>1, EmptyList
  <2>3. Head(u) = u[1]
    BY <1>1, <2>2, ListTail
  <2> QED
    BY <1>3, <2>1, <2>2, <2>3
<1> QED
  BY <1>1, <1>2, <1>5, <1>6, <1>7

LEMMA HeadOrTail ==
  ASSUME NEW s, IsList(s), s # <<>>
  PROVE  \A m \in Range(s) : m = Head(s) \/ m \in Range(Tail(s))
<1> DEFINE t == Tail(s)
           len == Len(s)
<1>1. /\ len \in Nat \ {0} /\ DOMAIN s = 1..len /\ DOMAIN t = 1..(len - 1)
      /\ Head(s) = s[1] /\ \A i \in 1..(len - 1) : t[i] = s[i + 1]
  BY ListTail
<1> HIDE DEF t, len
<1>2. ASSUME NEW i \in DOMAIN s, i # 1 PROVE s[i] \in Range(t)
  <2>1. i - 1 \in 1..(len - 1) /\ (i - 1) + 1 = i
    BY <1>1, <1>2
  <2>2. i - 1 \in DOMAIN t /\ t[i - 1] = s[i]
    BY <1>1, <2>1
  <2> QED
    BY <2>2 DEF Range
<1> QED
  BY <1>1, <1>2 DEF Range, t

-----------------------------------------------------------------------------
(* Lists in which an operation comes after what it names.                  *)

\* The id that a message names, and the ids that a list of messages gives.
Needs(m) == IF m.type = "operation" /\ m.op.dep # Root THEN {m.op.dep} ELSE {}
Given(s) == UNION {IdsOf(m) : m \in Range(s)}

\* What a message names is of B or of a message before it.
Causal(B, s) ==
  \A i \in DOMAIN s : \A n \in Needs(s[i]) : n \in B \/ \E j \in DOMAIN s : j < i /\ n \in IdsOf(s[j])

\* The same of a log.
LogClosed(log) ==
  \A i \in DOMAIN log : log[i].dep = Root \/ \E j \in DOMAIN log : j < i /\ log[j].id = log[i].dep

\* A join comes first.
JoinFirst(s) == \A i \in DOMAIN s : s[i].type = "join" => i = 1

LEMMA CausalMore == \A B, C, s : Causal(B, s) /\ B \subseteq C => Causal(C, s)
BY DEF Causal

LEMMA CausalFree == \A B, s : (\A m \in Range(s) : Needs(m) = {}) => Causal(B, s)
BY DEF Causal, Range

LEMMA CausalNeeds == \A B, s : Causal(B, s) => \A m \in Range(s) : Needs(m) \subseteq B \cup Given(s)
<1> SUFFICES ASSUME NEW B, NEW s, Causal(B, s), NEW i \in DOMAIN s, NEW n \in Needs(s[i]), n \notin B
             PROVE  n \in Given(s)
  BY DEF Range
<1>1. PICK j \in DOMAIN s : n \in IdsOf(s[j])
  BY DEF Causal
<1>2. s[j] \in Range(s)
  BY DEF Range
<1> QED
  BY <1>1, <1>2 DEF Given

LEMMA CausalTail ==
  ASSUME NEW B, NEW s, IsList(s), s # <<>>, Causal(B, s)
  PROVE  Needs(Head(s)) \subseteq B /\ Causal(B \cup IdsOf(Head(s)), Tail(s))
<1> DEFINE t == Tail(s)
           len == Len(s)
<1>1. /\ len \in Nat \ {0} /\ DOMAIN s = 1..len /\ DOMAIN t = 1..(len - 1)
      /\ Head(s) = s[1] /\ \A i \in 1..(len - 1) : t[i] = s[i + 1]
  BY ListTail
<1>2. t = Tail(s)
  OBVIOUS
<1> HIDE DEF t, len
<1>3. 1 \in DOMAIN s /\ \A j \in DOMAIN s : ~(j < 1)
  BY <1>1
<1>4. Needs(Head(s)) \subseteq B
  BY <1>1, <1>3 DEF Causal
<1>5. ASSUME NEW i \in DOMAIN t, NEW n \in Needs(t[i]), n \notin B, n \notin IdsOf(s[1])
      PROVE  \E j \in DOMAIN t : j < i /\ n \in IdsOf(t[j])
  <2>1. i + 1 \in DOMAIN s /\ t[i] = s[i + 1]
    BY <1>1
  <2>2. PICK k \in DOMAIN s : k < i + 1 /\ n \in IdsOf(s[k])
    BY <1>5, <2>1 DEF Causal
  <2>3. k # 1
    BY <1>5, <2>2
  <2>4. k - 1 \in DOMAIN t /\ k - 1 < i /\ t[k - 1] = s[k]
    BY <1>1, <2>2, <2>3
  <2> QED
    BY <2>2, <2>4
<1> QED
  BY <1>1, <1>2, <1>4, <1>5 DEF Causal

LEMMA CausalConcat ==
  ASSUME NEW B, NEW s, NEW t, IsList(s), IsList(t), Causal(B, s), Causal(B \cup Given(s), t)
  PROVE  Causal(B, s \o t)
<1> DEFINE u == s \o t
           m == Len(s)
           k == Len(t)
<1>1. /\ m \in Nat /\ k \in Nat
      /\ DOMAIN s = 1..m /\ DOMAIN t = 1..k /\ DOMAIN u = 1..(m + k)
      /\ \A i \in 1..m : u[i] = s[i]
      /\ \A i \in 1..k : u[m + i] = t[i]
  BY ListConcat
<1> HIDE DEF u, m, k
<1> SUFFICES ASSUME NEW i \in DOMAIN u, NEW n \in Needs(u[i]), n \notin B
             PROVE  \E j \in DOMAIN u : j < i /\ n \in IdsOf(u[j])
  BY DEF Causal, u
<1>2. CASE i <= m
  <2>1. i \in DOMAIN s /\ u[i] = s[i]
    BY <1>1, <1>2
  <2>2. PICK j \in DOMAIN s : j < i /\ n \in IdsOf(s[j])
    BY <2>1 DEF Causal
  <2>3. j \in DOMAIN u /\ u[j] = s[j]
    BY <1>1, <2>2
  <2> QED
    BY <2>2, <2>3
<1>3. CASE ~(i <= m)
  <2>1. PICK l \in DOMAIN t : l = i - m /\ u[i] = t[l]
    <3>1. i - m \in 1..k /\ m + (i - m) = i
      BY <1>1, <1>3
    <3> QED
      BY <1>1, <3>1
  <2>2. CASE n \in Given(s)
    <3>1. PICK j \in DOMAIN s : n \in IdsOf(s[j])
      BY <2>2 DEF Given, Range
    <3>2. j \in DOMAIN u /\ u[j] = s[j] /\ j < i
      BY <1>1, <1>3, <3>1
    <3> QED
      BY <3>1, <3>2
  <2>3. CASE n \notin Given(s)
    <3>1. PICK j \in DOMAIN t : j < l /\ n \in IdsOf(t[j])
      BY <2>1, <2>3 DEF Causal
    <3>2. m + j \in DOMAIN u /\ u[m + j] = t[j] /\ m + j < i
      BY <1>1, <2>1, <3>1
    <3> QED
      BY <3>1, <3>2
  <2> QED
    BY <2>2, <2>3
<1> QED
  BY <1>2, <1>3

\* A list that begins as s does, and in which only what s gives is named.
Begins(s, t) == \A i \in DOMAIN s : i \in DOMAIN t /\ t[i] = s[i]

LEMMA AppendBegins == \A s, m : IsList(s) => Begins(s, Append(s, m))
<1> SUFFICES ASSUME NEW s, NEW m, IsList(s) PROVE Begins(s, Append(s, m))
  OBVIOUS
<1> DEFINE t == Append(s, m)
           len == Len(s)
<1>1. len \in Nat /\ DOMAIN s = 1..len /\ DOMAIN t = 1..(len + 1) /\ \A i \in 1..len : t[i] = s[i]
  BY ListAppend
<1> HIDE DEF t, len
<1> QED
  BY <1>1 DEF Begins, t

LEMMA ConcatBegins == \A s, t : IsList(s) /\ IsList(t) => Begins(s, s \o t)
<1> SUFFICES ASSUME NEW s, NEW t, IsList(s), IsList(t) PROVE Begins(s, s \o t)
  OBVIOUS
<1> DEFINE u == s \o t
           m == Len(s)
           n == Len(t)
<1>1. m \in Nat /\ n \in Nat /\ DOMAIN s = 1..m /\ DOMAIN u = 1..(m + n) /\ \A i \in 1..m : u[i] = s[i]
  BY ListConcat
<1> HIDE DEF u, m, n
<1> QED
  BY <1>1 DEF Begins, u

LEMMA CausalLonger ==
  ASSUME NEW B, NEW s, NEW t, IsList(s), IsList(t), Begins(s, t), Causal(B, s),
         \A m \in Range(t) : Needs(m) \subseteq B \cup Given(s)
  PROVE  Causal(B, t)
<1>1. PICK len : len \in Nat /\ DOMAIN s = 1..len
  BY LenProperties DEF IsList
<1>2. PICK n : n \in Nat /\ DOMAIN t = 1..n
  BY LenProperties DEF IsList
<1> SUFFICES ASSUME NEW i \in DOMAIN t, NEW x \in Needs(t[i]), x \notin B
             PROVE  \E j \in DOMAIN t : j < i /\ x \in IdsOf(t[j])
  BY DEF Causal
<1>3. CASE i \in DOMAIN s
  <2>1. PICK j \in DOMAIN s : j < i /\ x \in IdsOf(s[j])
    BY <1>3 DEF Causal, Begins
  <2> QED
    BY <2>1 DEF Begins
<1>4. CASE i \notin DOMAIN s
  <2>1. x \in Given(s)
    BY DEF Range
  <2>2. PICK j \in DOMAIN s : x \in IdsOf(s[j])
    BY <2>1 DEF Given, Range
  <2>3. j < i
    BY <1>1, <1>2, <1>4, <2>2
  <2> QED
    BY <2>2, <2>3 DEF Begins
<1> QED
  BY <1>3, <1>4

LEMMA ClosedAppend ==
  ASSUME NEW log, NEW op, IsList(log), LogClosed(log), HasParent(Range(log), op)
  PROVE  LogClosed(Append(log, op))
<1> DEFINE t == Append(log, op)
           len == Len(log)
<1>1. /\ len \in Nat /\ DOMAIN log = 1..len /\ DOMAIN t = 1..(len + 1)
      /\ t[len + 1] = op /\ \A i \in 1..len : t[i] = log[i]
  BY ListAppend
<1> HIDE DEF t, len
<1> SUFFICES ASSUME NEW i \in DOMAIN t, t[i].dep # Root
             PROVE  \E j \in DOMAIN t : j < i /\ t[j].id = t[i].dep
  BY DEF LogClosed, t
<1>2. CASE i \in DOMAIN log
  <2>1. t[i] = log[i]
    BY <1>1, <1>2
  <2>2. PICK j \in DOMAIN log : j < i /\ log[j].id = log[i].dep
    BY <1>2, <2>1 DEF LogClosed
  <2>3. j \in DOMAIN t /\ t[j] = log[j]
    BY <1>1, <2>2
  <2> QED
    BY <2>1, <2>2, <2>3
<1>3. CASE i \notin DOMAIN log
  <2>1. i = len + 1 /\ t[i] = op
    BY <1>1, <1>3
  <2>2. PICK j \in DOMAIN log : log[j].id = op.dep
    BY <2>1 DEF HasParent, OpIds, Range
  <2>3. j \in DOMAIN t /\ t[j] = log[j] /\ j < i
    BY <1>1, <2>1, <2>2
  <2> QED
    BY <2>1, <2>2, <2>3
<1> QED
  BY <1>2, <1>3

LEMMA JoinFirstConcat ==
  ASSUME NEW s, NEW t, IsList(s), IsList(t), JoinFirst(s), \A m \in Range(t) : m.type # "join"
  PROVE  JoinFirst(s \o t)
<1> DEFINE u == s \o t
           m == Len(s)
           k == Len(t)
<1>1. /\ m \in Nat /\ k \in Nat
      /\ DOMAIN s = 1..m /\ DOMAIN t = 1..k /\ DOMAIN u = 1..(m + k)
      /\ \A i \in 1..m : u[i] = s[i]
      /\ \A i \in 1..k : u[m + i] = t[i]
  BY ListConcat
<1> HIDE DEF u, m, k
<1> SUFFICES ASSUME NEW i \in DOMAIN u, u[i].type = "join" PROVE i = 1
  BY DEF JoinFirst, u
<1>2. CASE i <= m
  BY <1>1, <1>2 DEF JoinFirst
<1>3. CASE ~(i <= m)
  <2>1. i - m \in DOMAIN t /\ m + (i - m) = i
    BY <1>1, <1>3
  <2>2. u[i] = t[i - m]
    BY <1>1, <2>1
  <2> QED
    BY <2>1, <2>2 DEF Range
<1> QED
  BY <1>2, <1>3

LEMMA JoinFirstTail ==
  ASSUME NEW s, IsList(s), s # <<>>, JoinFirst(s)
  PROVE  \A m \in Range(Tail(s)) : m.type # "join"
<1> DEFINE t == Tail(s)
           len == Len(s)
<1>1. /\ len \in Nat \ {0} /\ DOMAIN s = 1..len /\ DOMAIN t = 1..(len - 1)
      /\ \A i \in 1..(len - 1) : t[i] = s[i + 1]
  BY ListTail
<1> HIDE DEF t, len
<1>2. ASSUME NEW i \in DOMAIN t PROVE t[i].type # "join"
  <2>1. i + 1 \in DOMAIN s /\ t[i] = s[i + 1] /\ i + 1 # 1
    BY <1>1
  <2> QED
    BY <2>1 DEF JoinFirst
<1> QED
  BY <1>2 DEF Range, t

\* A CRDT that waits for nothing applies what it has the parent of, and what a
\* closed log has.
LEMMA NothingWaiting ==
  ASSUME NEW K, NEW op, HasParent(K, op)
  PROVE  Apply(K, K, op) = Learn(K, op)
<1>1. Waiting(K, K \cup {op}) = {}
  BY DEF Waiting, OpIds
<1>2. Drained(K \cup {op}, {}) = {}
  BY DEF Drained
<1> QED
  BY <1>1, <1>2 DEF Apply, Learn

LEMMA ClosedReplay ==
  ASSUME NEW K, NEW log, IsList(log), LogClosed(log)
  PROVE  ApplyAll(K, K, log) = LearnAll(K, log)
<1> DEFINE len == Len(log)
<1>1. len \in Nat /\ DOMAIN log = 1..len
  BY LenProperties DEF IsList
<1>2. PICK f, g : /\ f[0] = K /\ g[0] = K
                  /\ f[len] = LearnAll(K, log) /\ g[len] = ApplyAll(K, K, log)
                  /\ \A i \in 1..len : /\ f[i] = Learn(f[i - 1], log[i])
                                       /\ g[i] = Apply(f[i - 1], g[i - 1], log[i])
  BY ReplaySteps
<1> HIDE DEF len
<1> DEFINE Good(i) == g[i] = f[i] /\ \A j \in 1..len : j <= i => log[j].id \in OpIds(f[i])
           bad == {i \in 0..len : ~Good(i)}
<1>3. bad = {}
  <2> SUFFICES ASSUME bad # {} PROVE FALSE
    OBVIOUS
  <2>1. PICK k \in bad : \A j \in bad : k <= j
    <3> HIDE DEF bad
    <3>1. bad \in SUBSET Nat
      BY <1>1 DEF bad
    <3> QED
      BY <3>1, LeastNumber
  <2>2. k # 0
    BY <1>1, <1>2, <2>1
  <2>3. k \in 1..len /\ k - 1 \in 0..len /\ k - 1 \notin bad
    BY <1>1, <2>1, <2>2
  <2>4. Good(k - 1)
    BY <2>3
  <2>5. f[k] = Learn(f[k - 1], log[k]) /\ g[k] = Apply(f[k - 1], f[k - 1], log[k])
    BY <1>2, <2>3, <2>4
  <2>6. HasParent(f[k - 1], log[k])
    <3>1. CASE log[k].dep = Root
      BY <3>1 DEF HasParent
    <3>2. CASE log[k].dep # Root
      <4>1. PICK j \in DOMAIN log : j < k /\ log[j].id = log[k].dep
        BY <1>1, <2>3, <3>2 DEF LogClosed
      <4>2. j \in 1..len /\ j <= k - 1
        BY <1>1, <2>3, <4>1
      <4> QED
        BY <2>4, <4>1, <4>2 DEF HasParent
    <3> QED
      BY <3>1, <3>2
  <2>7. g[k] = f[k]
    BY <2>5, <2>6, NothingWaiting
  <2>8. OpIds(f[k - 1]) \subseteq OpIds(f[k]) /\ log[k].id \in OpIds(f[k])
    BY <2>5, LearnIds
  <2>9. ASSUME NEW j \in 1..len, j <= k PROVE log[j].id \in OpIds(f[k])
    <3>1. CASE j = k
      BY <2>8, <3>1
    <3>2. CASE j # k
      <4>1. j <= k - 1
        BY <1>1, <2>3, <2>9, <3>2
      <4> QED
        BY <2>4, <2>8, <4>1
    <3> QED
      BY <3>1, <3>2
  <2> QED
    BY <2>1, <2>7, <2>9
<1>4. len \in 0..len
  BY <1>1
<1> QED
  BY <1>2, <1>3, <1>4 DEF len

-----------------------------------------------------------------------------
(* What the handlers of the server change.                                 *)

\* A handler of c that read message m leaves the other inboxes alone.
LEMMA HandlerTakes ==
  ASSUME IndInv, NEW c \in Conn, NEW type, Reads(c, type)
  PROVE  /\ Head(inbox[c]).type = type /\ Head(inbox[c]) \in Range(inbox[c])
         /\ \A d \in Conn : d # c => inbox'[d] = inbox[d]
         /\ \A d \in Conn : Range(inbox'[d]) \subseteq Range(inbox[d])
         /\ \A m \in Range(inbox[c]) : m = Head(inbox[c]) \/ m \in Range(inbox'[c])
<1>1. /\ inbox' = [inbox EXCEPT ![c] = Tail(inbox[c])] /\ inbox[c] # <<>>
      /\ inbox = [d \in Conn |-> inbox[d]]
  BY DEF Reads, IndInv, FunctionsOK, IsFunction
<1>2. inbox'[c] = Tail(inbox[c]) /\ \A d \in Conn : d # c => inbox'[d] = inbox[d]
  BY <1>1
<1>3. \A m \in Range(inbox[c]) : m = Head(inbox[c]) \/ m \in Range(Tail(inbox[c]))
  BY <1>1, HeadOrTail DEF IndInv, ListsOK
<1> QED
  BY <1>2, <1>3, HandlerForgets

LEMMA JoinFacts ==
  ASSUME IndInv, NEW c \in Conn, HandleJoin(c)
  PROVE  LET m == Head(inbox[c])
         IN  /\ Reads(c, "join") /\ status' = status
             /\ joined' = [joined EXCEPT ![c] = <<m.room, m.client>>]
             /\ \A r : Log(r)' = Log(r)
             /\ \A r, cl, d : At(rooms', r, cl, d) <=>
                  IF r = m.room /\ cl = m.client THEN d = c ELSE At(rooms, r, cl, d)
             /\ \A d \in Conn : \A x \in Range(stream'[d]) :
                  \/ x \in Range(stream[d]) \/ x.type = "presence"
                  \/ d = c /\ x.type = "joined" /\ x.opLog = RoomOf(m.room).log
<1> DEFINE room == Head(inbox[c]).room
           client == Head(inbox[c]).client
           old == RoomOf(room)
           peers == AddPeer(old.peers, client, c)
           answer == Joined(room, client, PeerList(peers), old.log)
           notice == Presence(room, PeerList(peers))
<1>1. /\ Reads(c, "join") /\ status' = status
      /\ joined' = [joined EXCEPT ![c] = <<room, client>>]
      /\ rooms' = SetRoom(room, [old EXCEPT !.peers = peers])
      /\ stream' = [d \in Conn |-> stream[d] \o JoinReplies(d, c, peers, answer, notice)]
  BY DEF HandleJoin
<1>2. IsRoom(old)
  BY RoomOfIsRoom
<1>3. answer.type = "joined" /\ answer.opLog = old.log /\ notice.type = "presence"
  BY DEF Joined, Presence
<1>4. IF room \in DOMAIN rooms THEN old = rooms[room] ELSE old.log = <<>> /\ DOMAIN old.peers = {}
  BY DEF RoomOf, NewRoom, NoPeers
<1>5. peers = [x \in DOMAIN old.peers \cup {client} |-> IF x = client THEN c ELSE old.peers[x]]
  BY DEF AddPeer
<1>6. old = RoomOf(room)
  OBVIOUS
<1> HIDE DEF old, peers, answer, notice
<1>7. rooms' = [x \in DOMAIN rooms \cup {room} |-> IF x = room THEN [peers |-> peers, log |-> old.log] ELSE rooms[x]]
  <2>1. [old EXCEPT !.peers = peers] = [peers |-> peers, log |-> old.log]
    BY <1>2 DEF IsRoom
  <2> QED
    BY <1>1, <2>1 DEF SetRoom
<1>8. ASSUME NEW r PROVE Log(r)' = Log(r)
  <2>1. CASE r = room
    <3>1. Log(r)' = Range(old.log)
      BY <1>7, <2>1 DEF Log, RoomOf
    <3> QED
      BY <1>6, <2>1, <3>1 DEF Log
  <2>2. CASE r # room
    BY <1>7, <2>2 DEF Log, RoomOf
  <2> QED
    BY <2>1, <2>2
<1>9. \A r, cl, d : At(rooms', r, cl, d) <=> IF r = room /\ cl = client THEN d = c ELSE At(rooms, r, cl, d)
  <2> HIDE DEF room, client
  <2> SUFFICES ASSUME NEW r, NEW cl, NEW d
               PROVE  At(rooms', r, cl, d) <=> IF r = room /\ cl = client THEN d = c ELSE At(rooms, r, cl, d)
    OBVIOUS
  <2>1. CASE r # room
    BY <1>7, <2>1 DEF At
  <2>2. CASE r = room
    <3>1. At(rooms', r, cl, d) <=> cl \in DOMAIN peers /\ peers[cl] = d
      BY <1>7, <2>2 DEF At
    <3>2. At(rooms, r, cl, d) <=> cl \in DOMAIN old.peers /\ old.peers[cl] = d
      BY <1>4, <2>2 DEF At
    <3>3. CASE cl = client
      BY <1>5, <2>2, <3>1, <3>3
    <3>4. CASE cl # client
      BY <1>5, <2>2, <3>1, <3>2, <3>4
    <3> QED
      BY <3>3, <3>4
  <2> QED
    BY <2>1, <2>2
<1>10. ASSUME NEW d \in Conn, NEW x \in Range(stream'[d])
       PROVE  x \in Range(stream[d]) \/ x.type = "presence" \/ (d = c /\ x.type = "joined" /\ x.opLog = old.log)
  <2> DEFINE s == IF d = c THEN <<answer>> ELSE <<>>
             t == IF d \in PeerConns(peers) THEN <<notice>> ELSE <<>>
  <2>1. stream'[d] = stream[d] \o (s \o t)
    BY <1>1 DEF JoinReplies
  <2>2. IsList(s) /\ IsList(t) /\ Range(s) = (IF d = c THEN {answer} ELSE {}) /\ Range(t) \subseteq {notice}
    BY Ranges, EmptyList
  <2>3. IsList(stream[d])
    BY DEF IndInv, ListsOK
  <2> HIDE DEF s, t
  <2>4. IsList(s \o t) /\ Range(s \o t) \subseteq Range(s) \cup Range(t)
    BY <2>2, Ranges
  <2>5. Range(stream'[d]) \subseteq Range(stream[d]) \cup Range(s \o t)
    BY <2>1, <2>3, <2>4, Ranges
  <2> QED
    BY <1>3, <2>2, <2>4, <2>5
<1> QED
  BY <1>1, <1>6, <1>8, <1>9, <1>10

\* An operation enters a log only by the connection its author is registered
\* with, under an id that the log does not have, and is then told to the room.
LEMMA OperationFacts ==
  ASSUME IndInv, NEW c \in Conn, RejectOperation(c) \/ IgnoreOperation(c) \/ AcceptOperation(c),
         NEW m, m = Head(inbox[c])
  PROVE  /\ Reads(c, "operation") /\ UNCHANGED <<status, joined>>
         /\ \A r, cl, d : At(rooms', r, cl, d) <=> At(rooms, r, cl, d)
         /\ \A r : \/ Log(r)' = Log(r)
                   \/ /\ r = m.room /\ At(rooms, r, m.client, c) /\ joined[c] = <<r, m.client>>
                      /\ Log(r)' = Log(r) \cup {m.op} /\ \A o \in Log(r) : o.id # m.op.id
         /\ \A d \in Conn : \A x \in Range(stream'[d]) :
              \/ x \in Range(stream[d]) \/ x.type = "error"
              \/ /\ x.type = "operation" /\ x.op = m.op /\ m.op \in Log(m.room)'
                 /\ m.room \in DOMAIN rooms /\ d \in PeerConns(rooms[m.room].peers)
         /\ \/ \E o \in Log(m.room)' : o.id = m.op.id
            \/ joined[c] # <<m.room, m.client>>
            \/ ~At(rooms, m.room, m.client, c)
<1>1. Reads(c, "operation") /\ UNCHANGED <<status, joined>>
  BY DEF RejectOperation, IgnoreOperation, AcceptOperation
<1>2. ASSUME NEW conns, NEW x, stream' = SendTo(conns, x)
      PROVE  \A d \in Conn : \A y \in Range(stream'[d]) : y \in Range(stream[d]) \/ (y = x /\ d \in conns)
  <2> SUFFICES ASSUME NEW d \in Conn, NEW y \in Range(stream'[d])
               PROVE  y \in Range(stream[d]) \/ (y = x /\ d \in conns)
    OBVIOUS
  <2>1. stream'[d] = IF d \in conns THEN Append(stream[d], x) ELSE stream[d]
    BY <1>2 DEF SendTo
  <2>2. Range(Append(stream[d], x)) \subseteq Range(stream[d]) \cup {x}
    BY Ranges DEF IndInv, ListsOK
  <2> QED
    BY <2>1, <2>2
<1>3. CASE RejectOperation(c)
  <2>1. /\ rooms' = rooms /\ stream' = SendTo({c}, Error)
        /\ \/ joined[c] # <<m.room, m.client>>
           \/ m.room \in DOMAIN rooms /\ ~IsActiveSender(rooms[m.room].peers, m.client, c)
    BY <1>3 DEF RejectOperation
  <2>2. Error.type = "error"
    BY DEF Error
  <2>3. joined[c] # <<m.room, m.client>> \/ ~At(rooms, m.room, m.client, c)
    BY <2>1 DEF At, IsActiveSender
  <2>4. \A r : Log(r)' = Log(r)
    BY <2>1 DEF Log, RoomOf
  <2>5. \A d \in Conn : \A x \in Range(stream'[d]) : x \in Range(stream[d]) \/ x.type = "error"
    BY <1>2, <2>1, <2>2
  <2> QED
    BY <1>1, <2>1, <2>3, <2>4, <2>5
<1>4. CASE IgnoreOperation(c)
  <2>1. rooms' = rooms /\ stream' = stream /\ m.room \notin DOMAIN rooms
    BY <1>4 DEF IgnoreOperation
  <2>2. ~At(rooms, m.room, m.client, c)
    BY <2>1 DEF At
  <2>3. \A r : Log(r)' = Log(r)
    BY <2>1 DEF Log, RoomOf
  <2> QED
    BY <1>1, <2>1, <2>2, <2>3
<1>5. CASE AcceptOperation(c)
  <2> DEFINE room == m.room
             op == m.op
             old == rooms[room].log
             peers == rooms[room].peers
             log == AppendOperation(old, op)
             msg == OperationMsg(room, m.client, op)
             conns == Recipients(log # old, peers)
  <2>1. /\ room \in DOMAIN rooms /\ joined[c] = <<room, m.client>>
        /\ IsActiveSender(peers, m.client, c)
        /\ rooms'  = SetRoom(room, [rooms[room] EXCEPT !.log = log])
        /\ stream' = SendTo(conns, msg)
    BY <1>5 DEF AcceptOperation
  <2>2. rooms[room] = [peers |-> peers, log |-> old] /\ IsList(old)
    BY <2>1 DEF IndInv, ListsOK, IsRoom
  <2>3. msg.type = "operation" /\ msg.op = op
    BY DEF OperationMsg
  <2>4. At(rooms, room, m.client, c)
    BY <2>1 DEF At, IsActiveSender
  <2>5. \/ log = old /\ \E o \in Range(old) : o.id = op.id
        \/ log # old /\ Range(log) = Range(old) \cup {op} /\ \A o \in Range(old) : o.id # op.id
    <3>1. CASE \E i \in DOMAIN old : old[i].id = op.id
      BY <3>1 DEF AppendOperation, Range
    <3>2. CASE ~\E i \in DOMAIN old : old[i].id = op.id
      <4>1. log = Append(old, op)
        BY <3>2 DEF AppendOperation
      <4>2. Range(old) \cup {op} = Range(Append(old, op))
        BY <2>2, InAppended
      <4>3. \A o \in Range(old) : o.id # op.id
        BY <3>2 DEF Range
      <4> QED
        BY <4>1, <4>2, <4>3
    <3> QED
      BY <3>1, <3>2
  <2>6. conns = IF log # old THEN PeerConns(peers) ELSE {}
    BY DEF Recipients
  <2> HIDE DEF room, op, msg, log, conns
  <2>7. rooms' = [x \in DOMAIN rooms \cup {room} |-> IF x = room THEN [peers |-> peers, log |-> log] ELSE rooms[x]]
    <3>1. [rooms[room] EXCEPT !.log = log] = [peers |-> peers, log |-> log]
      BY <2>2
    <3> QED
      BY <2>1, <3>1 DEF SetRoom
  <2>8. /\ \A r : r # room => Log(r)' = Log(r)
        /\ Log(room)' = Range(log) /\ Log(room) = Range(old)
    <3>1. Log(room)' = Range(log) /\ Log(room) = Range(old)
      BY <2>1, <2>7 DEF Log, RoomOf, room
    <3>2. ASSUME NEW r, r # room PROVE Log(r)' = Log(r)
      BY <2>7, <3>2 DEF Log, RoomOf
    <3> QED
      BY <3>1, <3>2
  <2>9. \A r, cl, d : At(rooms', r, cl, d) <=> At(rooms, r, cl, d)
    BY <2>1, <2>7 DEF At
  <2>10. \A d \in Conn : \A x \in Range(stream'[d]) : x \in Range(stream[d]) \/ (x = msg /\ d \in conns)
    BY <1>2, <2>1
  <2>11. \E o \in Log(room)' : o.id = op.id
    BY <2>5, <2>8
  <2>12. conns # {} => op \in Log(room)' /\ conns = PeerConns(rooms[room].peers)
    BY <2>5, <2>6, <2>8
  <2>13. ASSUME NEW r
         PROVE  \/ Log(r)' = Log(r)
                \/ /\ r = room /\ At(rooms, r, m.client, c) /\ joined[c] = <<r, m.client>>
                   /\ Log(r)' = Log(r) \cup {op} /\ \A o \in Log(r) : o.id # op.id
    <3>1. CASE r # room
      BY <2>8, <3>1
    <3>2. CASE r = room
      <4>1. Log(r)' = Range(log) /\ Log(r) = Range(old)
        BY <2>1, <2>7, <3>2 DEF Log, RoomOf
      <4> QED
        BY <2>1, <2>4, <2>5, <3>2, <4>1
    <3> QED
      BY <3>1, <3>2
  <2>14. \A d \in Conn : \A x \in Range(stream'[d]) :
           \/ x \in Range(stream[d])
           \/ /\ x.type = "operation" /\ x.op = op /\ op \in Log(room)'
              /\ room \in DOMAIN rooms /\ d \in PeerConns(rooms[room].peers)
    BY <2>1, <2>3, <2>10, <2>12
  <2> QED
    BY <1>1, <2>9, <2>11, <2>13, <2>14 DEF room, op
<1> QED
  BY <1>3, <1>4, <1>5

\* A log goes only with the last connection of its room.
LEMMA CloseFacts ==
  ASSUME IndInv, NEW c \in Conn, HandleClose(c)
  PROVE  /\ Reads(c, "close") /\ UNCHANGED <<status, joined>>
         /\ \A r, cl, d : At(rooms', r, cl, d) => At(rooms, r, cl, d)
         /\ \A r : \/ Log(r)' = Log(r)
                   \/ Log(r)' = {} /\ joined[c] # NotJoined /\ \A cl, d : At(rooms, r, cl, d) => d = c
         /\ \A d \in Conn : \A x \in Range(stream'[d]) : x \in Range(stream[d]) \/ x.type = "presence"
<1>1. Reads(c, "close") /\ UNCHANGED <<status, joined>>
  BY DEF HandleClose
<1>2. CASE UNCHANGED <<rooms, stream>>
  BY <1>1, <1>2 DEF Log, RoomOf
<1>3. CASE ~UNCHANGED <<rooms, stream>>
  <2> DEFINE room == joined[c][1]
             client == joined[c][2]
             before == rooms[room].peers
             after == RemovePeer(before, client, c)
             conns == Recipients(after # before, after)
             m == Presence(room, PeerList(after))
  <2>1. /\ joined[c] # NotJoined /\ room \in DOMAIN rooms
        /\ stream' = SendTo(conns, m) /\ rooms' = RoomsAfterClose(room, after)
    BY <1>3 DEF HandleClose
  <2>2. m.type = "presence"
    BY DEF Presence
  <2>3. /\ \A x \in DOMAIN after : x \in DOMAIN before /\ after[x] = before[x]
        /\ \A x \in DOMAIN before : before[x] # c => x \in DOMAIN after
    BY DEF RemovePeer, Restrict, IsActiveSender
  <2>4. IsRoom(rooms[room])
    BY <2>1 DEF IndInv, ListsOK
  <2> HIDE DEF room, client, after, conns, m
  <2>5. \A d \in Conn : \A x \in Range(stream'[d]) : x \in Range(stream[d]) \/ x.type = "presence"
    <3> SUFFICES ASSUME NEW d \in Conn, NEW x \in Range(stream'[d])
                 PROVE  x \in Range(stream[d]) \/ x = m
      BY <2>2
    <3>1. stream'[d] = IF d \in conns THEN Append(stream[d], m) ELSE stream[d]
      BY <2>1 DEF SendTo
    <3>2. Range(Append(stream[d], m)) \subseteq Range(stream[d]) \cup {m}
      BY Ranges DEF IndInv, ListsOK
    <3> QED
      BY <3>1, <3>2
  <2>6. CASE after = NoPeers
    <3>1. rooms' = [x \in DOMAIN rooms \ {room} |-> rooms[x]]
      BY <2>1, <2>6 DEF RoomsAfterClose, Restrict
    <3>2. \A x \in DOMAIN before : before[x] = c
      BY <2>3, <2>6 DEF NoPeers
    <3>3. ASSUME NEW r PROVE IF r = room THEN Log(r)' = {} ELSE Log(r)' = Log(r)
      <4>1. CASE r # room
        BY <3>1, <4>1 DEF Log, RoomOf
      <4>2. CASE r = room
        <5>1. RoomOf(r)' = NewRoom
          BY <3>1, <4>2 DEF RoomOf
        <5> QED
          BY <4>2, <5>1, EmptyList DEF Log, NewRoom
      <4> QED
        BY <4>1, <4>2
    <3>5. \A cl, d : At(rooms, room, cl, d) => d = c
      BY <3>2 DEF At
    <3>6. \A r, cl, d : At(rooms', r, cl, d) => At(rooms, r, cl, d)
      BY <3>1 DEF At
    <3> QED
      BY <1>1, <2>1, <2>5, <3>3, <3>5, <3>6
  <2>7. CASE after # NoPeers
    <3>1. [rooms[room] EXCEPT !.peers = after] = [peers |-> after, log |-> rooms[room].log]
      BY <2>4 DEF IsRoom
    <3>2. rooms' = [x \in DOMAIN rooms \cup {room} |->
                      IF x = room THEN [peers |-> after, log |-> rooms[room].log] ELSE rooms[x]]
      BY <2>1, <2>7, <3>1 DEF RoomsAfterClose, SetRoom
    <3>3. \A r : Log(r)' = Log(r)
      BY <2>1, <3>2 DEF Log, RoomOf
    <3>4. \A r, cl, d : At(rooms', r, cl, d) => At(rooms, r, cl, d)
      BY <2>1, <2>3, <3>2 DEF At
    <3> QED
      BY <1>1, <2>5, <3>3, <3>4
  <2> QED
    BY <2>6, <2>7
<1> QED
  BY <1>2, <1>3

-----------------------------------------------------------------------------
(* What a session does while it lasts.                                     *)

\* The inboxes box become after: cl has sent operations of ops, which come last.
Grows(cl, box, after, ops) ==
  \A c \in Conn :
    /\ Range(box[c]) \subseteq Range(after[c])
    /\ box[c] # <<>> => after[c] # <<>> /\ Head(after[c]) = Head(box[c])
    /\ JoinFirst(box[c]) => JoinFirst(after[c])
    /\ ~(IsOpen(cl) /\ c = transport[cl]) => after[c] = box[c]
    /\ \A m \in Range(after[c]) :
         \/ m \in Range(box[c])
         \/ IsOpen(cl) /\ c = transport[cl] /\ m.type = "operation" /\ m.client = cl /\ m.op \in ops

\* An operation of cl is on its way to the server, or queued.
Kept(cl, box, queue, o) ==
  \/ o \in Range(queue)
  \/ IsOpen(cl) /\ \E m \in Range(box[transport[cl]]) : m.type = "operation" /\ m.op = o

LEMMA SentOrQueued ==
  ASSUME IndInv, NEW cl \in Client, NEW box, NEW queue, NEW ops, BoxOK(box), IsList(queue), IsList(ops)
  PROVE  /\ Grows(cl, box, Sent(cl, box, ops), Range(ops))
         /\ \A o \in Range(ops) \cup Range(queue) : Kept(cl, Sent(cl, box, ops), Queued(cl, queue, ops), o)
         /\ Range(Queued(cl, queue, ops)) \subseteq Range(queue) \cup Range(ops)
<1>1. CASE ~IsOpen(cl)
  <2>1. Sent(cl, box, ops) = box /\ Queued(cl, queue, ops) = queue \o ops
    BY <1>1 DEF Sent, Queued
  <2>2. Range(queue) \cup Range(ops) = Range(queue \o ops)
    BY InConcat
  <2> QED
    BY <2>1, <2>2 DEF Grows, Kept
<1>2. CASE IsOpen(cl)
  <2> DEFINE t == transport[cl]
             more == Operations(cl, ops)
             after == Sent(cl, box, ops)
  <2>1. t \in Conn
    BY <1>2 DEF IsOpen, IndInv, TypeOK
  <2>2. after = [c \in Conn |-> IF c = t THEN box[t] \o more ELSE box[c]]
    BY <1>2 DEF Sent, BoxOK, IsFunction
  <2>3. \A m \in Range(more) : m.type = "operation" /\ m.client = cl /\ m.op \in Range(ops)
    BY DEF Operations, OperationMsg, Range
  <2>4. \A o \in Range(ops) : \E m \in Range(more) : m.type = "operation" /\ m.op = o
    <3>1. /\ DOMAIN more = DOMAIN ops
          /\ \A i \in DOMAIN ops : more[i].type = "operation" /\ more[i].op = ops[i]
      BY DEF Operations, OperationMsg
    <3> HIDE DEF more
    <3> QED
      BY <3>1 DEF Range
  <2>5. IsList(more) /\ IsList(box[t])
    BY <2>1, OperationsAreAList DEF BoxOK
  <2>6. Queued(cl, queue, ops) = queue
    BY <1>2 DEF Queued
  <2>7. t = transport[cl]
    OBVIOUS
  <2> HIDE DEF more, t, after
  <2>8. /\ Range(box[t]) \cup Range(more) = Range(box[t] \o more)
        /\ box[t] # <<>> => box[t] \o more # <<>> /\ Head(box[t] \o more) = Head(box[t])
    BY <2>5, InConcat
  <2>12. JoinFirst(box[t]) => JoinFirst(box[t] \o more)
    BY <2>3, <2>5, JoinFirstConcat
  <2>9. Grows(cl, box, after, Range(ops))
    <3> SUFFICES ASSUME NEW c \in Conn
                 PROVE  /\ Range(box[c]) \subseteq Range(after[c])
                        /\ box[c] # <<>> => after[c] # <<>> /\ Head(after[c]) = Head(box[c])
                        /\ JoinFirst(box[c]) => JoinFirst(after[c])
                        /\ ~(IsOpen(cl) /\ c = transport[cl]) => after[c] = box[c]
                        /\ \A m \in Range(after[c]) :
                             \/ m \in Range(box[c])
                             \/ /\ IsOpen(cl) /\ c = transport[cl]
                                /\ m.type = "operation" /\ m.client = cl /\ m.op \in Range(ops)
      BY DEF Grows
    <3>1. CASE c # t
      BY <2>2, <3>1
    <3>2. CASE c = t
      <4>1. after[c] = box[t] \o more
        BY <2>2, <3>2
      <4> QED
        BY <1>2, <2>3, <2>7, <2>8, <2>12, <3>2, <4>1
    <3> QED
      BY <3>1, <3>2
  <2>10. Range(after[t]) = Range(box[t]) \cup Range(more)
    BY <2>1, <2>2, <2>8
  <2>11. \A o \in Range(ops) \cup Range(queue) : Kept(cl, after, queue, o)
    BY <1>2, <2>4, <2>7, <2>10 DEF Kept
  <2> QED
    BY <2>6, <2>9, <2>11 DEF after
<1> QED
  BY <1>1, <1>2

LEMMA ReadySends ==
  ASSUME IndInv, NEW cl \in Client, NEW box, NEW queue, Ready(cl, box, queue), BoxOK(box), IsList(queue)
  PROVE  /\ Grows(cl, box, inbox', Range(queue))
         /\ \A o \in Range(queue) : Kept(cl, inbox', offlineQueue'[cl], o)
         /\ Range(offlineQueue'[cl]) \subseteq Range(queue)
         /\ \A dl \in Client : dl # cl => offlineQueue'[dl] = offlineQueue[dl]
<1>1. IsFunction(offlineQueue, Client)
  BY DEF IndInv, FunctionsOK
<1>2. CASE InSession(cl)
  <2> DEFINE rest == Queued(cl, <<>>, queue)
  <2>1. inbox' = Sent(cl, box, queue) /\ offlineQueue' = [offlineQueue EXCEPT ![cl] = rest]
    BY <1>2 DEF Ready
  <2>2. /\ Grows(cl, box, Sent(cl, box, queue), Range(queue))
        /\ \A o \in Range(queue) : Kept(cl, Sent(cl, box, queue), rest, o)
        /\ Range(rest) \subseteq Range(queue)
    BY SentOrQueued, EmptyList
  <2> HIDE DEF rest
  <2>3. offlineQueue'[cl] = rest /\ \A dl \in Client : dl # cl => offlineQueue'[dl] = offlineQueue[dl]
    BY <1>1, <2>1 DEF IsFunction
  <2> QED
    BY <2>1, <2>2, <2>3
<1>3. CASE ~InSession(cl)
  <2>1. inbox' = box /\ offlineQueue' = [offlineQueue EXCEPT ![cl] = queue]
    BY <1>3 DEF Ready
  <2>2. offlineQueue'[cl] = queue /\ \A dl \in Client : dl # cl => offlineQueue'[dl] = offlineQueue[dl]
    BY <1>1, <2>1 DEF IsFunction
  <2> QED
    BY <2>1, <2>2 DEF Grows, Kept
<1> QED
  BY <1>2, <1>3

LEMMA GrowsOn ==
  ASSUME NEW cl, NEW a, NEW b, NEW c, NEW ops, NEW more, Grows(cl, a, b, ops), Grows(cl, b, c, more)
  PROVE  /\ Grows(cl, a, c, ops \cup more)
         /\ \A queue, after, o :
              transport[cl] \in Conn /\ Kept(cl, b, queue, o) => o \in Range(queue) \/ Kept(cl, c, after, o)
<1>1. Grows(cl, a, c, ops \cup more)
  <2> SUFFICES ASSUME NEW d \in Conn
               PROVE  /\ Range(a[d]) \subseteq Range(c[d])
                      /\ a[d] # <<>> => c[d] # <<>> /\ Head(c[d]) = Head(a[d])
                      /\ JoinFirst(a[d]) => JoinFirst(c[d])
                      /\ ~(IsOpen(cl) /\ d = transport[cl]) => c[d] = a[d]
                      /\ \A m \in Range(c[d]) :
                           \/ m \in Range(a[d])
                           \/ /\ IsOpen(cl) /\ d = transport[cl]
                              /\ m.type = "operation" /\ m.client = cl /\ m.op \in ops \cup more
    BY DEF Grows
  <2> QED
    BY DEF Grows
<1> QED
  BY <1>1 DEF Grows, Kept

\* An operation of a session comes after what it names, in what the session
\* sends and queues; B are the ids that the log has.
FlowOK(cl, B, box, queue) ==
  LET t == transport[cl]
  IN  Causal(B, box[t]) /\ Causal(B \cup Given(box[t]), Operations(cl, queue))

Follows(cl, B, box, queue, op) ==
  \/ op.dep = Root
  \/ op.dep \in B \cup Given(box[transport[cl]])
  \/ ~IsOpen(cl) /\ op.dep \in OpIds(Range(queue))

LEMMA OperationsGive ==
  ASSUME NEW cl, NEW ops
  PROVE  /\ Given(Operations(cl, ops)) = OpIds(Range(ops))
         /\ \A m \in Range(Operations(cl, ops)) : \E o \in Range(ops) : m = OperationMsg(session[cl], cl, o)
<1> DEFINE msgs == Operations(cl, ops)
<1>1. DOMAIN msgs = DOMAIN ops /\ \A i \in DOMAIN ops : msgs[i] = OperationMsg(session[cl], cl, ops[i])
  BY DEF Operations
<1>2. \A i \in DOMAIN ops : IdsOf(msgs[i]) = {ops[i].id}
  BY <1>1 DEF IdsOf, OperationMsg
<1>3. msgs = Operations(cl, ops)
  OBVIOUS
<1> HIDE DEF msgs
<1>4. Given(msgs) \subseteq OpIds(Range(ops))
  BY <1>1, <1>2 DEF Given, Range, OpIds
<1>5. OpIds(Range(ops)) \subseteq Given(msgs)
  <2> SUFFICES ASSUME NEW i \in DOMAIN ops PROVE ops[i].id \in Given(msgs)
    BY DEF OpIds, Range
  <2>1. msgs[i] \in Range(msgs) /\ ops[i].id \in IdsOf(msgs[i])
    BY <1>1, <1>2 DEF Range
  <2> QED
    BY <2>1 DEF Given
<1> QED
  BY <1>1, <1>3, <1>4, <1>5 DEF Range

LEMMA FlowFlush ==
  ASSUME IndInv, NEW cl \in Client, NEW box, NEW queue, NEW B, BoxOK(box), IsList(queue), FlowOK(cl, B, box, queue)
  PROVE  FlowOK(cl, B, Sent(cl, box, queue), Queued(cl, <<>>, queue))
<1>1. CASE ~IsOpen(cl)
  <2>1. Sent(cl, box, queue) = box /\ Queued(cl, <<>>, queue) = <<>> \o queue
    BY <1>1 DEF Sent, Queued
  <2>2. <<>> \o queue = queue
    BY ConcatEmptySeq DEF IsList
  <2> QED
    BY <2>1, <2>2
<1>2. CASE IsOpen(cl)
  <2> DEFINE t == transport[cl]
             more == Operations(cl, queue)
             after == Sent(cl, box, queue)
  <2>1. t \in Conn
    BY <1>2 DEF IsOpen, IndInv, TypeOK
  <2>2. after[t] = box[t] \o more
    BY <1>2, <2>1 DEF Sent, BoxOK, IsFunction
  <2>3. IsList(more) /\ IsList(box[t])
    BY <2>1, OperationsAreAList DEF BoxOK
  <2>4. Causal(B, box[t]) /\ Causal(B \cup Given(box[t]), more)
    BY DEF FlowOK
  <2>5. Queued(cl, <<>>, queue) = <<>>
    BY <1>2 DEF Queued
  <2>6. \A C : Causal(C, Operations(cl, <<>>))
    BY EmptyList, OperationsGive, CausalFree
  <2> HIDE DEF more, after
  <2>7. Causal(B, after[t])
    BY <2>2, <2>3, <2>4, CausalConcat
  <2> QED
    BY <2>5, <2>6, <2>7 DEF FlowOK, after
<1> QED
  BY <1>1, <1>2

LEMMA FlowAdd ==
  ASSUME IndInv, NEW cl \in Client, NEW box, NEW queue, NEW B, NEW op, BoxOK(box), IsList(queue),
         FlowOK(cl, B, box, queue), Follows(cl, B, box, queue, op)
  PROVE  FlowOK(cl, B, Sent(cl, box, <<op>>), Queued(cl, queue, <<op>>))
<1> DEFINE t == transport[cl]
           C == B \cup Given(box[t])
<1>1. Causal(B, box[t]) /\ Causal(C, Operations(cl, queue))
  BY DEF FlowOK
<1>2. IsList(<<op>>) /\ Range(<<op>>) = {op}
  BY Ranges
<1>3. \A o : /\ Needs(OperationMsg(session[cl], cl, o)) = {o.dep} \ {Root}
             /\ IdsOf(OperationMsg(session[cl], cl, o)) = {o.id}
  BY DEF Needs, IdsOf, OperationMsg
<1>4. CASE IsOpen(cl)
  <2> DEFINE more == Operations(cl, <<op>>)
             after == Sent(cl, box, <<op>>)
  <2>1. t \in Conn
    BY <1>4 DEF IsOpen, IndInv, TypeOK
  <2>2. after[t] = box[t] \o more
    BY <1>4, <2>1 DEF Sent, BoxOK, IsFunction
  <2>3. IsList(more) /\ IsList(box[t])
    BY <1>2, <2>1, OperationsAreAList DEF BoxOK
  <2>4. \A m \in Range(more) : m = OperationMsg(session[cl], cl, op)
    BY <1>2, OperationsGive
  <2>5. op.dep = Root \/ op.dep \in C
    BY <1>4 DEF Follows
  <2>6. Queued(cl, queue, <<op>>) = queue
    BY <1>4 DEF Queued
  <2>7. after = Sent(cl, box, <<op>>)
    OBVIOUS
  <2> HIDE DEF more, after, C, t
  <2>8. Range(box[t]) \subseteq Range(box[t] \o more) /\ IsList(box[t] \o more)
        /\ Range(box[t] \o more) = Range(box[t]) \cup Range(more)
    BY <2>3, InConcat
  <2>9. Begins(box[t], box[t] \o more)
    BY <2>3, ConcatBegins
  <2>10. \A m \in Range(box[t] \o more) : Needs(m) \subseteq C
    <3>1. \A m \in Range(box[t]) : Needs(m) \subseteq C
      BY <1>1, CausalNeeds DEF C
    <3>2. \A m \in Range(more) : Needs(m) \subseteq C
      BY <1>3, <2>4, <2>5
    <3> QED
      BY <2>8, <3>1, <3>2
  <2>11. Causal(B, after[t])
    BY <1>1, <2>2, <2>3, <2>8, <2>9, <2>10, CausalLonger DEF C
  <2>12. Given(box[t]) \subseteq Given(after[t])
    BY <2>2, <2>8 DEF Given
  <2>13. Causal(B \cup Given(after[t]), Operations(cl, queue))
    BY <1>1, <2>12, CausalMore DEF C
  <2> QED
    BY <2>6, <2>7, <2>11, <2>13 DEF FlowOK, t
<1>5. CASE ~IsOpen(cl)
  <2> DEFINE long == queue \o <<op>>
             old == Operations(cl, queue)
             new == Operations(cl, long)
  <2>1. Sent(cl, box, <<op>>) = box /\ Queued(cl, queue, <<op>>) = long
    BY <1>5 DEF Sent, Queued
  <2>2. IsList(long) /\ Range(long) = Range(queue) \cup {op}
    BY <1>2, InConcat
  <2>3. Begins(queue, long)
    BY <1>2, ConcatBegins
  <2>4. IsList(old) /\ IsList(new)
    BY <2>2, OperationsAreAList
  <2>5. Begins(old, new)
    <3> HIDE DEF long
    <3> QED
      BY <2>3 DEF Begins, Operations
  <2>6. op.dep = Root \/ op.dep \in C \cup OpIds(Range(queue))
    BY DEF Follows
  <2>7. Given(old) = OpIds(Range(queue))
    BY OperationsGive
  <2>8. \A m \in Range(new) : \E o \in Range(long) : m = OperationMsg(session[cl], cl, o)
    BY OperationsGive
  <2> HIDE DEF long, C, t
  <2>9. \A m \in Range(old) : Needs(m) \subseteq C \cup Given(old)
    BY <1>1, CausalNeeds
  <2>10. \A o \in Range(queue) : OperationMsg(session[cl], cl, o) \in Range(old)
    <3> SUFFICES ASSUME NEW i \in DOMAIN queue PROVE OperationMsg(session[cl], cl, queue[i]) \in Range(old)
      BY DEF Range
    <3>1. i \in DOMAIN old /\ old[i] = OperationMsg(session[cl], cl, queue[i])
      BY DEF Operations
    <3> HIDE DEF old
    <3> QED
      BY <3>1 DEF Range
  <2> HIDE DEF old, new
  <2>11. \A m \in Range(new) : Needs(m) \subseteq C \cup Given(old)
    <3> SUFFICES ASSUME NEW m \in Range(new) PROVE Needs(m) \subseteq C \cup Given(old)
      OBVIOUS
    <3>1. PICK o \in Range(long) : m = OperationMsg(session[cl], cl, o)
      BY <2>8
    <3>2. CASE o \in Range(queue)
      BY <2>9, <2>10, <3>1, <3>2
    <3>3. CASE o = op
      BY <1>3, <2>6, <2>7, <3>1, <3>3
    <3> QED
      BY <2>2, <3>2, <3>3
  <2>12. Causal(C, new)
    BY <1>1, <2>4, <2>5, <2>11, CausalLonger DEF old
  <2> QED
    BY <1>1, <2>1, <2>12 DEF FlowOK, new, C, t
<1> QED
  BY <1>4, <1>5

\* What is queued is sent when the join is answered.
QueueSent ==
  \A cl \in Client :
    InSession(cl) /\ IsOpen(cl) /\ Answered(cl) /\ lives[cl] \notin Range(rendering[cl]) => offlineQueue[cl] = <<>>

\* A local edit names something that the session shows, and is not made on an
\* open connection while something is queued.
Knows(cl, dep) == dep = Root \/ (dep \in OpIds(elements[cl]) /\ (IsOpen(cl) => offlineQueue[cl] = <<>>))

\* The message heard is the first on the connection.
ReadsHead(cl, heard) ==
  LET s == stream[transport[cl]]
  IN  IsOpen(cl) /\ s # <<>> /\ heard = {Head(s)} /\ stream'[transport[cl]] = Tail(s)

Applicable(cl, m) ==
  /\ Needs(m) \subseteq OpIds(known[cl])
  /\ m.type = "joined" => LogClosed(m.opLog)

LEMMA ReadyFlows ==
  ASSUME IndInv, NEW cl \in Client, NEW box, NEW queue, Ready(cl, box, queue), BoxOK(box), IsList(queue)
  PROVE  \A B : FlowOK(cl, B, box, queue) => FlowOK(cl, B, inbox', offlineQueue'[cl])
<1> SUFFICES ASSUME NEW B, FlowOK(cl, B, box, queue) PROVE FlowOK(cl, B, inbox', offlineQueue'[cl])
  OBVIOUS
<1>1. IsFunction(offlineQueue, Client)
  BY DEF IndInv, FunctionsOK
<1>2. CASE InSession(cl)
  <2> DEFINE rest == Queued(cl, <<>>, queue)
  <2>1. inbox' = Sent(cl, box, queue) /\ offlineQueue' = [offlineQueue EXCEPT ![cl] = rest]
    BY <1>2 DEF Ready
  <2>2. FlowOK(cl, B, Sent(cl, box, queue), rest)
    BY FlowFlush
  <2> HIDE DEF rest
  <2>3. offlineQueue'[cl] = rest
    BY <1>1, <2>1 DEF IsFunction
  <2> QED
    BY <2>1, <2>2, <2>3
<1>3. CASE ~InSession(cl)
  <2>1. inbox' = box /\ offlineQueue' = [offlineQueue EXCEPT ![cl] = queue]
    BY <1>3 DEF Ready
  <2>2. offlineQueue'[cl] = queue
    BY <1>1, <2>1 DEF IsFunction
  <2> QED
    BY <2>1, <2>2
<1> QED
  BY <1>2, <1>3

\* A session whose connections and place stay makes operations new, sends or
\* queues them with what was queued, and hears of others.
Told(m) == IF m.type = "operation" THEN {m.op} ELSE IF m.type = "joined" THEN Range(m.opLog) ELSE {}
UniqueIds(ops) == \A o, p \in ops : o.id = p.id => o = p

Writes(cl, new) ==
  /\ new = {} \/ (InSession(cl) /\ \E dep : new = {NewOp(cl, dep)} /\ Knows(cl, dep))
  /\ \A B : /\ FlowOK(cl, B, inbox, offlineQueue[cl])
            /\ \A o \in new : Follows(cl, B, inbox, offlineQueue[cl], o)
            => FlowOK(cl, B, inbox', offlineQueue'[cl])
  /\ Grows(cl, inbox, inbox', new \cup Range(offlineQueue[cl]))
  /\ \A o \in new \cup Range(offlineQueue[cl]) : Kept(cl, inbox', offlineQueue'[cl], o)
  /\ Range(offlineQueue'[cl]) \subseteq new \cup Range(offlineQueue[cl])
  /\ \A dl \in Client : dl # cl => offlineQueue'[dl] = offlineQueue[dl]

Receives(cl, heard) ==
  /\ heard \subseteq Range(stream[transport[cl]]) /\ (heard # {} => InSession(cl))
  /\ \A c \in Conn : Range(stream'[c]) \subseteq Range(stream[c])
  /\ \A c \in Conn : c # transport[cl] => stream'[c] = stream[c]
  /\ heard = {} => stream' = stream
  /\ heard # {} => ReadsHead(cl, heard)

Hears(cl, heard, new) ==
  /\ Receives(cl, heard)
  /\ \A dl \in Client : dl # cl => known'[dl] = known[dl] /\ elements'[dl] = elements[dl]
  /\ elements[cl] = known[cl] /\ (\A m \in heard : Applicable(cl, m)) => elements'[cl] = known'[cl]
  /\ known[cl] \cup new \subseteq known'[cl]
  /\ known'[cl] \subseteq known[cl] \cup new \cup UNION {Told(m) : m \in heard}
  /\ \A m \in heard : OpIds(Told(m)) \subseteq OpIds(known'[cl] \ new)
  /\ UniqueIds(known[cl]) /\ elements[cl] = known[cl] => UniqueIds(known'[cl])
  /\ hydrated \subseteq hydrated' /\ hydrated' \subseteq hydrated \cup {cl}
  /\ cl \in hydrated' => cl \in hydrated \/ \E m \in heard : m.type = "joined"
  /\ new # {} => cl \in hydrated'

SessionStep(cl, heard, new) ==
  /\ UNCHANGED <<rooms, joined, status, session, transport, owner, lives>>
  /\ Writes(cl, new) /\ Hears(cl, heard, new)

LEMMA StreamsShrink ==
  ASSUME NEW cl, NEW heard, NEW new, SessionStep(cl, heard, new)
  PROVE  \A c \in Conn : Range(stream'[c]) \subseteq Range(stream[c])
BY DEF SessionStep, Hears, Receives

LEMMA LearnUnique == \A K, op : (UniqueIds(K) => UniqueIds(Learn(K, op))) /\ K \subseteq Learn(K, op)
BY DEF UniqueIds, Learn, Seen, OpIds

LEMMA UniqueWithNew ==
  ASSUME NEW K, NEW op, \A o \in K : o.id # op.id
  PROVE  UniqueIds(K) => UniqueIds(K \cup {op})
BY DEF UniqueIds

\* A replay forgets nothing and keeps ids unique.
LEMMA LearnAllUnique ==
  ASSUME NEW K, NEW log, IsList(log)
  PROVE  K \subseteq LearnAll(K, log) /\ (UniqueIds(K) => UniqueIds(LearnAll(K, log)))
<1> DEFINE len == Len(log)
           f == CHOOSE f : Learnt(f, K, log, len)
           Good(S) == K \subseteq S /\ (UniqueIds(K) => UniqueIds(S))
<1>1. len \in Nat
  BY LenProperties DEF IsList
<1>2. Learnt(f, K, log, len)
  BY <1>1, LearntExists
<1>3. LearnAll(K, log) = f[len]
  BY DEF LearnAll, Learnt
<1> HIDE DEF f, len
<1>4. \A i \in 0..len : f[i] = IF i = 0 THEN K ELSE Learn(f[i - 1], log[i])
  BY <1>2 DEF Learnt
<1> DEFINE bad == {i \in 0..len : ~Good(f[i])}
<1>5. bad = {}
  <2> SUFFICES ASSUME bad # {} PROVE FALSE
    OBVIOUS
  <2>1. PICK k \in bad : \A j \in bad : k <= j
    <3> HIDE DEF bad
    <3>1. bad \in SUBSET Nat
      BY <1>1 DEF bad
    <3> QED
      BY <3>1, LeastNumber
  <2>2. CASE k = 0
    BY <1>1, <1>4, <2>1, <2>2
  <2>3. CASE k # 0
    <3>1. k \in 0..len /\ k - 1 \in 0..len
      BY <1>1, <2>1, <2>3
    <3>2. Good(f[k - 1])
      BY <1>1, <2>1, <3>1
    <3>3. f[k] = Learn(f[k - 1], log[k])
      BY <1>4, <2>3, <3>1
    <3>4. Good(f[k])
      <4>1. /\ UniqueIds(f[k - 1]) => UniqueIds(Learn(f[k - 1], log[k]))
            /\ f[k - 1] \subseteq Learn(f[k - 1], log[k])
        BY LearnUnique
      <4> QED
        BY <3>2, <3>3, <4>1
    <3> QED
      BY <2>1, <3>4
  <2> QED
    BY <2>2, <2>3
<1> QED
  <2>1. len \in 0..len
    BY <1>1
  <2> QED
    BY <1>3, <1>5, <2>1

LEMMA EditIsStep ==
  ASSUME ~EarlyEdits, QueueSent, ~LateDelivery, IndInv, LogCameFirst, RoomsInv, ElementsInv, NEW cl \in Client,
         NEW dep \in {Root} \cup OpIds(elements[cl]), Edit(cl, dep)
  PROVE  SessionStep(cl, {}, {NewOp(cl, dep)})
<1> DEFINE op == NewOp(cl, dep)
           box == Sent(cl, inbox, <<op>>)
           queue == Queued(cl, offlineQueue[cl], <<op>>)
<1>1. /\ InSession(cl) /\ cl \in syncReady
      /\ known' = [known EXCEPT ![cl] = known[cl] \cup {op}]
      /\ elements' = [elements EXCEPT ![cl] = elements[cl] \cup {op}]
      /\ ~IsOpen(cl) \/ Answered(cl)
      /\ lives[cl] \notin Range(rendering[cl])
      /\ inbox' = box
      /\ offlineQueue' = [offlineQueue EXCEPT ![cl] = queue]
      /\ UNCHANGED <<rooms, joined, stream, status, session, transport, owner, lives, hydrated>>
  BY DEF Edit, Make
<1>2. \A o \in elements[cl] : o.id # op.id
  BY <1>1, NewOpIsNew
<1>3. op = NewOp(cl, dep)
  OBVIOUS
<1>4. BoxOK(inbox) /\ IsList(offlineQueue[cl]) /\ IsList(<<op>>) /\ Range(<<op>>) = {op}
  BY BoxesAndQueues, Ranges DEF IndInv, ListsOK
<1> HIDE DEF op
<1>5. UniqueIds(known[cl]) /\ elements[cl] = known[cl] => UniqueIds(known[cl] \cup {op})
  BY <1>2, UniqueWithNew
<1>6. /\ Grows(cl, inbox, box, {op})
      /\ \A o \in {op} \cup Range(offlineQueue[cl]) : Kept(cl, box, queue, o)
      /\ Range(queue) \subseteq Range(offlineQueue[cl]) \cup {op}
  BY <1>4, SentOrQueued
<1>11. \A B : FlowOK(cl, B, inbox, offlineQueue[cl]) /\ Follows(cl, B, inbox, offlineQueue[cl], op)
         => FlowOK(cl, B, box, queue)
  BY <1>4, FlowAdd
<1>12. Knows(cl, dep)
  <2>1. IsOpen(cl) => offlineQueue[cl] = <<>>
    BY <1>1 DEF QueueSent
  <2> QED
    BY <2>1 DEF Knows
<1> HIDE DEF box, queue
<1>7. /\ known'[cl] = known[cl] \cup {op} /\ \A dl \in Client : dl # cl => known'[dl] = known[dl]
      /\ offlineQueue'[cl] = queue /\ \A dl \in Client : dl # cl => offlineQueue'[dl] = offlineQueue[dl]
  BY <1>1 DEF IndInv, FunctionsOK, IsFunction
<1>13. /\ elements'[cl] = elements[cl] \cup {op} /\ \A dl \in Client : dl # cl => elements'[dl] = elements[dl]
  BY <1>1 DEF ElementsInv, IsFunction
<1>8. Grows(cl, inbox, inbox', {op} \cup Range(offlineQueue[cl]))
  BY <1>1, <1>6 DEF Grows
<1>9. Writes(cl, {op})
  BY <1>1, <1>3, <1>6, <1>7, <1>8, <1>11, <1>12 DEF Writes
<1>10. Hears(cl, {}, {op})
  BY <1>1, <1>5, <1>7, <1>13 DEF Hears, Receives, LogCameFirst
<1> QED
  BY <1>1, <1>3, <1>9, <1>10 DEF SessionStep

LEMMA RenderIsStep ==
  ASSUME IndInv, NEW cl \in Client, NEW i, RenderDone(cl, i)
  PROVE  SessionStep(cl, {}, {})
<1>1. /\ Ready(cl, inbox, offlineQueue[cl])
      /\ UNCHANGED <<rooms, joined, stream, status, known, elements, session, transport, owner, lives, hydrated>>
  BY DEF RenderDone, crdtVars
<1>2. BoxOK(inbox) /\ IsList(offlineQueue[cl])
  BY BoxesAndQueues DEF IndInv, ListsOK
<1>5. \A B : FlowOK(cl, B, inbox, offlineQueue[cl]) => FlowOK(cl, B, inbox', offlineQueue'[cl])
  BY <1>1, <1>2, ReadyFlows
<1>3. Writes(cl, {})
  BY <1>1, <1>2, <1>5, ReadySends DEF Writes
<1>4. Hears(cl, {}, {})
  BY <1>1 DEF Hears, Receives
<1> QED
  BY <1>1, <1>3, <1>4 DEF SessionStep

LEMMA SilentWrites ==
  ASSUME IndInv, NEW cl \in Client, UNCHANGED <<inbox, offlineQueue>>
  PROVE  Writes(cl, {})
BY EmptyList DEF Writes, Grows, Kept, FlowOK

LEMMA ReadIsStep ==
  ASSUME ~LateDelivery, IndInv, LinkInv, NEW c \in Conn, NEW type, Reading(c, type)
  PROVE  /\ Head(stream[c]).type = type /\ Head(stream[c]) \in Range(stream[c])
         /\ \A d \in Conn : Range(stream'[d]) \subseteq Range(stream[d])
         /\ \A d \in Conn : d # c => stream'[d] = stream[d]
         /\ IsOpen(TheOwner(c)) /\ stream[c] # <<>> /\ stream'[c] = Tail(stream[c])
         /\ TheOwner(c) \in Client /\ transport[TheOwner(c)] = c /\ OwnerLife(c) = lives[TheOwner(c)]
         /\ InSession(TheOwner(c)) /\ UNCHANGED <<rooms, joined, status>>
<1>1. /\ stream[c] # <<>> /\ Head(stream[c]).type = type /\ UNCHANGED <<rooms, joined, status>>
      /\ stream' = [stream EXCEPT ![c] = Tail(stream[c])] /\ status[c] = "open"
  BY DEF Reading
<1>2. \A d \in Conn : stream'[d] = IF d = c THEN Tail(stream[c]) ELSE stream[d]
  BY <1>1 DEF IndInv, FunctionsOK, IsFunction
<1>3. Range(Tail(stream[c])) \subseteq Range(stream[c]) /\ Head(stream[c]) \in Range(stream[c])
  BY <1>1, Ranges DEF IndInv, ListsOK
<1>4. TheOwner(c) \in Client /\ transport[TheOwner(c)] = c /\ OwnerLife(c) = lives[TheOwner(c)]
  BY ReadsItsOwn
<1>5. InSession(TheOwner(c))
  BY <1>4, NamesAssumption DEF IndInv, TypeOK
<1>6. IsOpen(TheOwner(c))
  BY <1>1, <1>4, NamesAssumption DEF IsOpen
<1> QED
  BY <1>1, <1>2, <1>3, <1>4, <1>5, <1>6

\* A message is heard in the session whose connection it came by.
LEMMA MessageIsStep ==
  ASSUME ~LateDelivery, IndInv, LinkInv, RoomsInv, ElementsInv, NEW c \in Conn, Message(c)
  PROVE  /\ TheOwner(c) \in Client
         /\ \E heard, new : SessionStep(TheOwner(c), heard, new)
<1> DEFINE cl == TheOwner(c)
           m == Head(stream[c])
<1>1. ASSUME NEW type, Reading(c, type)
      PROVE  /\ m.type = type /\ m \in Range(stream[transport[cl]])
             /\ \A d \in Conn : Range(stream'[d]) \subseteq Range(stream[d])
             /\ \A d \in Conn : d # transport[cl] => stream'[d] = stream[d]
             /\ ReadsHead(cl, {m})
             /\ cl \in Client /\ transport[cl] = c /\ OwnerLife(c) = lives[cl]
             /\ InSession(cl) /\ UNCHANGED <<rooms, joined, status>>
  <2>1. /\ m.type = type /\ m \in Range(stream[c]) /\ transport[cl] = c
        /\ \A d \in Conn : Range(stream'[d]) \subseteq Range(stream[d])
        /\ \A d \in Conn : d # c => stream'[d] = stream[d]
        /\ IsOpen(cl) /\ stream[c] # <<>> /\ stream'[c] = Tail(stream[c])
        /\ cl \in Client /\ OwnerLife(c) = lives[cl]
        /\ InSession(cl) /\ UNCHANGED <<rooms, joined, status>>
    <3>1. /\ m.type = type /\ m \in Range(stream[c])
          /\ \A d \in Conn : Range(stream'[d]) \subseteq Range(stream[d])
          /\ \A d \in Conn : d # c => stream'[d] = stream[d]
          /\ IsOpen(cl) /\ stream[c] # <<>> /\ stream'[c] = Tail(stream[c])
      BY <1>1, ReadIsStep
    <3>2. /\ cl \in Client /\ transport[cl] = c /\ OwnerLife(c) = lives[cl]
          /\ InSession(cl) /\ UNCHANGED <<rooms, joined, status>>
      BY <1>1, ReadIsStep
    <3> QED
      BY <3>1, <3>2
  <2>2. ReadsHead(cl, {m})
    BY <2>1 DEF ReadsHead
  <2> HIDE DEF cl, m
  <2> QED
    BY <2>1, <2>2
<1>2. CASE HandleNothing(c)
  <2>1. PICK type \in {"error", "presence"} : Reading(c, type)
    <3>1. ~(~InSession(cl) /\ (Reading(c, "joined") \/ Reading(c, "operation")))
      BY <1>1
    <3> QED
      BY <1>2, <3>1 DEF HandleNothing
  <2>2. UNCHANGED <<inbox, session, transport, owner, lives, known, elements, offlineQueue, hydrated>>
    BY <1>2 DEF HandleNothing, clientVars, crdtVars, managerVars
  <2>6. m.type \in {"error", "presence"}
    BY <1>1, <2>1
  <2>7. Told(m) = {} /\ m.type # "joined"
    BY <2>6 DEF Told
  <2> HIDE DEF cl, m
  <2>3. Writes(cl, {})
    BY <1>1, <2>1, <2>2, SilentWrites
  <2>4. Hears(cl, {m}, {})
    BY <1>1, <2>1, <2>2, <2>7 DEF Hears, Receives, OpIds
  <2>5. SessionStep(cl, {m}, {})
    BY <1>1, <2>1, <2>2, <2>3, <2>4 DEF SessionStep
  <2> QED
    BY <1>1, <2>1, <2>5 DEF cl
<1>3. CASE HandleTransportOperation(c)
  <2>1. /\ Reading(c, "operation") /\ known' = [known EXCEPT ![cl] = Learn(known[cl], m.op)]
        /\ elements' = [elements EXCEPT ![cl] = Apply(known[cl], elements[cl], m.op)]
        /\ UNCHANGED <<inbox, session, transport, owner, lives, offlineQueue, hydrated>>
    BY <1>3 DEF HandleTransportOperation, managerVars
  <2>2. Told(m) = {m.op} /\ m.type = "operation"
    BY <1>1, <2>1 DEF Told
  <2> HIDE DEF cl, m
  <2>3. Writes(cl, {})
    BY <1>1, <2>1, SilentWrites
  <2>4. known'[cl] = Learn(known[cl], m.op) /\ \A dl \in Client : dl # cl => known'[dl] = known[dl]
    BY <1>1, <2>1 DEF IndInv, FunctionsOK, IsFunction
  <2>5. /\ UniqueIds(known[cl]) => UniqueIds(Learn(known[cl], m.op))
        /\ known[cl] \subseteq Learn(known[cl], m.op) /\ m.op.id \in OpIds(Learn(known[cl], m.op))
    BY LearnUnique, LearnIds
  <2>6. Learn(known[cl], m.op) \subseteq known[cl] \cup {m.op}
    BY DEF Learn
  <2>9. /\ elements'[cl] = Apply(known[cl], elements[cl], m.op)
        /\ \A dl \in Client : dl # cl => elements'[dl] = elements[dl]
    BY <1>1, <2>1 DEF ElementsInv, IsFunction
  <2>10. ASSUME elements[cl] = known[cl], Applicable(cl, m) PROVE elements'[cl] = known'[cl]
    <3>1. HasParent(known[cl], m.op)
      BY <2>2, <2>10 DEF Applicable, Needs, HasParent
    <3> QED
      BY <2>4, <2>9, <2>10, <3>1, NothingWaiting
  <2>11. Receives(cl, {m})
    BY <1>1, <2>1 DEF Receives
  <2>12. /\ OpIds(Told(m)) \subseteq OpIds(known'[cl] \ {})
         /\ known'[cl] \subseteq known[cl] \cup {} \cup UNION {Told(x) : x \in {m}}
         /\ known[cl] \cup {} \subseteq known'[cl]
    BY <2>2, <2>4, <2>5, <2>6 DEF OpIds
  <2>7. Hears(cl, {m}, {})
    BY <2>1, <2>2, <2>4, <2>5, <2>9, <2>10, <2>11, <2>12 DEF Hears
  <2>8. SessionStep(cl, {m}, {})
    BY <1>1, <2>1, <2>3, <2>7 DEF SessionStep
  <2> QED
    BY <1>1, <2>1, <2>8 DEF cl
<1>4. CASE ReplayLog(c)
  <2> DEFINE log == m.opLog
  <2>1. /\ Reading(c, "joined") /\ known' = [known EXCEPT ![cl] = LearnAll(known[cl], log)]
        /\ elements' = [elements EXCEPT ![cl] = ApplyAll(known[cl], elements[cl], log)]
        /\ Hydrated(cl, c)
        /\ UNCHANGED <<inbox, session, transport, owner, lives, offlineQueue>>
    BY <1>4 DEF ReplayLog
  <2>2. m.type = "joined" /\ Told(m) = Range(log) /\ log = m.opLog
    BY <1>1, <2>1 DEF Told
  <2>3. IsList(log)
    BY <2>1, ReadingKeeps
  <2> HIDE DEF cl, m, log
  <2>4. Writes(cl, {})
    BY <1>1, <2>1, SilentWrites
  <2>5. known'[cl] = LearnAll(known[cl], log) /\ \A dl \in Client : dl # cl => known'[dl] = known[dl]
    BY <1>1, <2>1 DEF IndInv, FunctionsOK, IsFunction
  <2>6. /\ UniqueIds(known[cl]) => UniqueIds(LearnAll(known[cl], log))
        /\ known[cl] \subseteq LearnAll(known[cl], log)
        /\ LearnAll(known[cl], log) \subseteq known[cl] \cup Range(log)
        /\ OpIds(Range(log)) \subseteq OpIds(LearnAll(known[cl], log))
    BY <2>3, LearnAllUnique, LearnAllOfLog, LearnAllIds
  <2>7. hydrated' = hydrated \cup {cl}
    BY <1>1, <2>1 DEF Hydrated
  <2>10. /\ elements'[cl] = ApplyAll(known[cl], elements[cl], log)
         /\ \A dl \in Client : dl # cl => elements'[dl] = elements[dl]
    BY <1>1, <2>1 DEF ElementsInv, IsFunction
  <2>11. elements[cl] = known[cl] /\ Applicable(cl, m) => elements'[cl] = known'[cl]
    BY <2>2, <2>3, <2>5, <2>10, ClosedReplay DEF Applicable
  <2>8. Hears(cl, {m}, {})
    BY <1>1, <2>1, <2>2, <2>5, <2>6, <2>7, <2>10, <2>11 DEF Hears, Receives
  <2>9. SessionStep(cl, {m}, {})
    BY <1>1, <2>1, <2>4, <2>8 DEF SessionStep
  <2> QED
    BY <1>1, <2>1, <2>9 DEF cl
<1>5. CASE EmptyLog(c)
  <2> DEFINE op == NewOp(cl, Root)
             box == Sent(cl, inbox, <<op>>)
             queue == Queued(cl, offlineQueue[cl], <<op>>)
  <2>1. /\ Reading(c, "joined") /\ m.opLog = <<>> /\ Hydrated(cl, c)
        /\ \/ /\ known' = [known EXCEPT ![cl] = known[cl] \cup {op}]
              /\ elements' = [elements EXCEPT ![cl] = elements[cl] \cup {op}]
              /\ Ready(cl, box, queue)
           \/ UNCHANGED <<known, elements>> /\ Ready(cl, inbox, offlineQueue[cl])
        /\ UNCHANGED <<session, transport, owner, lives>>
    BY <1>5 DEF EmptyLog, Make, crdtVars
  <2>2. m.type = "joined" /\ Told(m) = {}
    BY <1>1, <2>1, EmptyList DEF Told
  <2>3. hydrated' = hydrated \cup {cl}
    BY <1>1, <2>1 DEF Hydrated
  <2>4. /\ BoxOK(inbox) /\ IsList(offlineQueue[cl]) /\ IsList(<<op>>) /\ Range(<<op>>) = {op}
        /\ IsFunction(known, Client) /\ IsFunction(elements, Client)
    BY <1>1, <2>1, BoxesAndQueues, Ranges DEF IndInv, ListsOK, FunctionsOK, ElementsInv
  <2>5. op = NewOp(cl, Root) /\ \A o \in elements[cl] : o.id # op.id
    BY <1>1, <2>1, NewOpIsNew
  <2> HIDE DEF cl, m, op
  <2>6. UniqueIds(known[cl]) /\ elements[cl] = known[cl] => UniqueIds(known[cl] \cup {op})
    BY <2>5, UniqueWithNew
  <2>9. op.dep = Root /\ Knows(cl, Root)
    BY <2>5 DEF NewOp, Knows
  <2>7. CASE UNCHANGED <<known, elements>> /\ Ready(cl, inbox, offlineQueue[cl])
    <3>4. \A B : FlowOK(cl, B, inbox, offlineQueue[cl]) => FlowOK(cl, B, inbox', offlineQueue'[cl])
      BY <1>1, <2>1, <2>4, <2>7, ReadyFlows
    <3>1. Writes(cl, {})
      BY <1>1, <2>1, <2>4, <2>7, <3>4, ReadySends DEF Writes
    <3>2. Hears(cl, {m}, {})
      BY <1>1, <2>1, <2>2, <2>3, <2>7 DEF Hears, Receives, OpIds
    <3>3. SessionStep(cl, {m}, {})
      BY <1>1, <2>1, <3>1, <3>2 DEF SessionStep
    <3> QED
      BY <1>1, <2>1, <3>3 DEF cl
  <2>8. CASE /\ known' = [known EXCEPT ![cl] = known[cl] \cup {op}]
             /\ elements' = [elements EXCEPT ![cl] = elements[cl] \cup {op}]
             /\ Ready(cl, box, queue)
    <3>1. /\ known'[cl] = known[cl] \cup {op} /\ elements'[cl] = elements[cl] \cup {op}
          /\ \A dl \in Client : dl # cl => known'[dl] = known[dl] /\ elements'[dl] = elements[dl]
      BY <1>1, <2>1, <2>4, <2>8 DEF IsFunction
    <3>2. BoxOK(box) /\ IsList(queue)
      BY <1>1, <2>1, <2>4, SentKeeps, QueuedIsAList DEF BoxOK
    <3>3. /\ Grows(cl, inbox, box, {op})
          /\ \A o \in {op} \cup Range(offlineQueue[cl]) : Kept(cl, box, queue, o)
          /\ Range(queue) \subseteq Range(offlineQueue[cl]) \cup {op}
      <4>1. cl \in Client
        BY <1>1, <2>1
      <4> QED
        BY <2>4, <4>1, SentOrQueued
    <3>10. \A B : FlowOK(cl, B, inbox, offlineQueue[cl]) => FlowOK(cl, B, box, queue)
      <4> SUFFICES ASSUME NEW B, FlowOK(cl, B, inbox, offlineQueue[cl]) PROVE FlowOK(cl, B, box, queue)
        OBVIOUS
      <4>1. cl \in Client /\ Follows(cl, B, inbox, offlineQueue[cl], op)
        BY <1>1, <2>1, <2>9 DEF Follows
      <4> QED
        BY <2>4, <4>1, FlowAdd
    <3> HIDE DEF box, queue
    <3>4. /\ Grows(cl, box, inbox', Range(queue))
          /\ \A o \in Range(queue) : Kept(cl, inbox', offlineQueue'[cl], o)
          /\ Range(offlineQueue'[cl]) \subseteq Range(queue)
          /\ \A dl \in Client : dl # cl => offlineQueue'[dl] = offlineQueue[dl]
      BY <1>1, <2>1, <2>8, <3>2, ReadySends
    <3>5. /\ Grows(cl, inbox, inbox', {op} \cup Range(queue))
          /\ \A o \in {op} \cup Range(offlineQueue[cl]) :
               o \in Range(queue) \/ Kept(cl, inbox', offlineQueue'[cl], o)
      BY <1>1, <2>1, <3>3, <3>4, GrowsOn
    <3>6. Grows(cl, inbox, inbox', {op} \cup Range(offlineQueue[cl]))
      BY <3>3, <3>5 DEF Grows
    <3>11. \A B : FlowOK(cl, B, box, queue) => FlowOK(cl, B, inbox', offlineQueue'[cl])
      BY <1>1, <2>1, <2>8, <3>2, ReadyFlows
    <3>7. Writes(cl, {op})
      BY <1>1, <2>1, <2>5, <2>9, <3>3, <3>4, <3>5, <3>6, <3>10, <3>11 DEF Writes
    <3>8. Hears(cl, {m}, {op})
      BY <1>1, <2>1, <2>2, <2>3, <2>6, <3>1 DEF Hears, Receives, OpIds
    <3>9. SessionStep(cl, {m}, {op})
      BY <1>1, <2>1, <3>7, <3>8 DEF SessionStep
    <3> QED
      BY <1>1, <2>1, <3>9 DEF cl
  <2> QED
    BY <2>1, <2>7, <2>8
<1> QED
  BY <1>2, <1>3, <1>4, <1>5 DEF Message

-----------------------------------------------------------------------------
(* Who is there.                                                           *)

\* A Steady client has one connection, and it lasts; before the others begin,
\* every one of them is in its room.
SteadyInv ==
  /\ \A st \in Steady : InSession(st) => status[transport[st]] \in {"connecting", "open"}
  /\ \A c \in Conn : owner[c] # NoOwner =>
       /\ OwnerLife(c) \in 1..lives[TheOwner(c)] /\ owner[c] = <<TheOwner(c), OwnerLife(c)>>
       /\ TheOwner(c) \in Steady => c = transport[TheOwner(c)]
  /\ \A cl \in Client : lives[cl] \in Nat /\ (lives[cl] = 0 => ~InSession(cl))
  /\ (\E cl \in Client \ Steady : lives[cl] > 0) =>
       \A st \in Steady : IsOpen(st) /\ joined[transport[st]] # NotJoined

\* A connection has joined as its owner, and the one of a session its room; who
\* is in a room has joined it.
MembersInv ==
  /\ \A c \in Conn : joined[c] # NotJoined =>
       /\ owner[c] # NoOwner /\ joined[c] = <<joined[c][1], TheOwner(c)>>
       /\ transport[TheOwner(c)] = c => joined[c][1] = session[TheOwner(c)]
  /\ \A room, cl, c : At(rooms, room, cl, c) => c \in Conn /\ joined[c] = <<room, cl>>
  /\ \A c \in Conn : \A m \in JoinsIn(inbox, c) :
       /\ joined[c] # NotJoined => m.room = joined[c][1]
       /\ \A n \in JoinsIn(inbox, c) : n.room = m.room

\* A client speaks for itself.
AuthorsInv ==
  /\ \A c \in Conn : \A m \in Range(inbox[c]) : m.type = "operation" =>
       owner[c] # NoOwner /\ m.client = TheOwner(c) /\ m.op.id[1] = TheOwner(c)
  /\ \A cl \in Client : \A o \in Range(offlineQueue[cl]) : o.id[1] = cl

\* A session of a lasting room has applied what it has seen.
NoneWaits == \A cl \in Client : session[cl] \in LastingRooms => elements[cl] = known[cl]

CastInv == SteadyInv /\ MembersInv /\ AuthorsInv
BaseInv == IndInv /\ LinkInv /\ LogCameFirst /\ RoomsInv /\ ElementsInv /\ NewestInv

LEMMA CastInit == Init => CastInv
<1> SUFFICES ASSUME Init PROVE CastInv
  OBVIOUS
<1>1. /\ joined = [c \in Conn |-> NotJoined] /\ inbox = [c \in Conn |-> <<>>]
      /\ rooms = [room \in {} |-> NewRoom]
      /\ session = [cl \in Client |-> NoRoom] /\ owner = [c \in Conn |-> NoOwner]
      /\ offlineQueue = [cl \in Client |-> <<>>] /\ lives = [cl \in Client |-> 0]
  BY DEF Init, ServerInit, ConnInit
<1>2. Range(<<>>) = {}
  BY EmptyList
<1>3. SteadyInv
  BY <1>1, EnvironmentAssumption DEF SteadyInv, InSession
<1>4. MembersInv
  BY <1>1, <1>2 DEF MembersInv, At, JoinsIn
<1>5. AuthorsInv
  BY <1>1, <1>2 DEF AuthorsInv
<1> QED
  BY <1>3, <1>4, <1>5 DEF CastInv

LEMMA CastWithin ==
  ASSUME IndInv, RoomsInv, ElementsInv, CastInv, NEW cl \in Client, NEW heard, NEW new, SessionStep(cl, heard, new)
  PROVE  CastInv'
<1>1. UNCHANGED <<rooms, joined, status, session, transport, owner, lives>>
  BY DEF SessionStep
<1>2. SteadyInv'
  BY <1>1 DEF CastInv, SteadyInv, InSession, IsOpen, OwnerLife, TheOwner
<1>3. MembersInv'
  <2>1. ASSUME NEW c \in Conn PROVE JoinsIn(inbox', c) \subseteq JoinsIn(inbox, c)
    BY DEF JoinsIn, SessionStep, Writes, Grows
  <2> QED
    BY <1>1, <2>1 DEF CastInv, MembersInv, TheOwner
<1>4. \A o \in new \cup Range(offlineQueue[cl]) : o.id[1] = cl
  <2>1. \A o \in new : o.id[1] = cl
    BY NewOpIsNew DEF SessionStep, Writes
  <2> QED
    BY <2>1 DEF CastInv, AuthorsInv
<1>5. \A dl \in Client : \A o \in Range(offlineQueue'[dl]) : o.id[1] = dl
  BY <1>4 DEF SessionStep, Writes, CastInv, AuthorsInv
<1>6. ASSUME NEW c \in Conn, NEW m \in Range(inbox'[c]), m.type = "operation"
      PROVE  owner[c] # NoOwner /\ m.client = TheOwner(c) /\ m.op.id[1] = TheOwner(c)
  <2>1. CASE m \in Range(inbox[c])
    BY <1>6, <2>1 DEF CastInv, AuthorsInv
  <2>2. CASE m \notin Range(inbox[c])
    <3>1. /\ IsOpen(cl) /\ c = transport[cl] /\ m.client = cl
          /\ m.op \in new \cup Range(offlineQueue[cl])
      BY <2>2, <1>6 DEF SessionStep, Writes, Grows
    <3>2. owner[c] = <<cl, lives[cl]>>
      BY <3>1 DEF IsOpen, IndInv, TypeOK
    <3> QED
      BY <1>4, <3>1, <3>2 DEF TheOwner, NoOwner
  <2> QED
    BY <2>1, <2>2
<1>7. AuthorsInv'
  BY <1>1, <1>5, <1>6 DEF AuthorsInv, TheOwner
<1> QED
  BY <1>2, <1>3, <1>7 DEF CastInv

\* A connection that joins is the one its client meant, and is not yet in a room
\* or in the same one.
LEMMA CastJoins ==
  ASSUME IndInv, NewestInv, CastInv, NEW c \in Conn, HandleJoin(c), UNCHANGED clientVars
  PROVE  CastInv'
<1> DEFINE m == Head(inbox[c])
<1>1. /\ Reads(c, "join") /\ status' = status
      /\ joined' = [joined EXCEPT ![c] = <<m.room, m.client>>]
      /\ \A r, cl, d : At(rooms', r, cl, d) <=>
           IF r = m.room /\ cl = m.client THEN d = c ELSE At(rooms, r, cl, d)
  BY JoinFacts
<1>2. /\ m \in JoinsIn(inbox, c)
      /\ \A d \in Conn : Range(inbox'[d]) \subseteq Range(inbox[d])
  BY <1>1, HandlerTakes DEF JoinsIn
<1>3. /\ owner[c] # NoOwner /\ m.client = TheOwner(c) /\ TheOwner(c) \in Client
      /\ transport[TheOwner(c)] = c => m.room = session[TheOwner(c)]
  <2>1. /\ owner[c] # NoOwner /\ m.client = TheOwner(c)
        /\ InSession(TheOwner(c)) => m.room = session[TheOwner(c)]
    BY <1>2 DEF NewestInv, JoinsAreMeant
  <2>2. TheOwner(c) \in Client
    BY <2>1 DEF IndInv, FunctionsOK, TheOwner
  <2>3. transport[TheOwner(c)] = c => InSession(TheOwner(c))
    BY <2>2, NamesAssumption DEF IndInv, TypeOK
  <2> QED
    BY <2>1, <2>2, <2>3
<1>4. UNCHANGED <<session, transport, owner, lives, offlineQueue>>
  BY DEF clientVars, managerVars
<1>5. joined[c] # NotJoined => joined[c] = <<m.room, m.client>>
  BY <1>2, <1>3 DEF CastInv, MembersInv
<1>6. \A n \in JoinsIn(inbox, c) : n.room = m.room
  BY <1>2 DEF CastInv, MembersInv
<1> HIDE DEF m
<1>7. \A d \in Conn : joined'[d] = IF d = c THEN <<m.room, m.client>> ELSE joined[d]
  BY <1>1 DEF NewestInv, IsFunction
<1>8. <<m.room, m.client>> # NotJoined /\ <<m.room, m.client>>[1] = m.room /\ <<m.room, m.client>>[2] = m.client
  BY DEF NotJoined
<1>9. \A d \in Conn : joined[d] # NotJoined => joined'[d] # NotJoined
  BY <1>7, <1>8
<1>10. SteadyInv'
  <2>1. \A st \in Steady : IsOpen(st) => transport[st] \in Conn
    BY EnvironmentAssumption DEF IndInv, TypeOK, IsOpen
  <2> QED
    BY <1>1, <1>4, <1>9, <2>1 DEF CastInv, SteadyInv, InSession, IsOpen, OwnerLife, TheOwner
<1>11. MembersInv'
  <2>1. ASSUME NEW d \in Conn, joined'[d] # NotJoined
        PROVE  /\ owner[d] # NoOwner /\ joined'[d] = <<joined'[d][1], TheOwner(d)>>
               /\ transport[TheOwner(d)] = d => joined'[d][1] = session[TheOwner(d)]
    <3>1. CASE d = c
      BY <1>3, <1>7, <1>8, <3>1
    <3>2. CASE d # c
      BY <1>7, <2>1, <3>2 DEF CastInv, MembersInv
    <3> QED
      BY <3>1, <3>2
  <2>2. ASSUME NEW r, NEW cl, NEW d, At(rooms', r, cl, d)
        PROVE  d \in Conn /\ joined'[d] = <<r, cl>>
    <3>1. CASE r = m.room /\ cl = m.client
      BY <1>1, <1>7, <2>2, <3>1
    <3>2. CASE ~(r = m.room /\ cl = m.client)
      <4>1. d \in Conn /\ joined[d] = <<r, cl>>
        BY <1>1, <2>2, <3>2 DEF CastInv, MembersInv
      <4>2. d # c
        <5>1. <<r, cl>> # NotJoined /\ <<r, cl>>[1] = r /\ <<r, cl>>[2] = cl
          BY DEF NotJoined
        <5> QED
          BY <1>5, <1>8, <3>2, <4>1, <5>1
      <4> QED
        BY <1>7, <4>1, <4>2
    <3> QED
      BY <3>1, <3>2
  <2>3. ASSUME NEW d \in Conn, NEW x \in JoinsIn(inbox', d)
        PROVE  /\ joined'[d] # NotJoined => x.room = joined'[d][1]
               /\ \A n \in JoinsIn(inbox', d) : n.room = x.room
    <3>1. JoinsIn(inbox', d) \subseteq JoinsIn(inbox, d)
      BY <1>2 DEF JoinsIn
    <3>2. CASE d = c
      BY <1>6, <1>7, <1>8, <2>3, <3>1, <3>2
    <3>3. CASE d # c
      BY <1>7, <2>3, <3>1, <3>3 DEF CastInv, MembersInv
    <3> QED
      BY <3>2, <3>3
  <2> QED
    BY <1>4, <2>1, <2>2, <2>3 DEF MembersInv, TheOwner
<1>12. AuthorsInv'
  BY <1>2, <1>4 DEF CastInv, AuthorsInv, TheOwner
<1> QED
  BY <1>10, <1>11, <1>12 DEF CastInv

\* The other handlers add nobody to a room.
LEMMA CastHandled ==
  ASSUME IndInv, CastInv, NEW c \in Conn, NEW type, Reads(c, type), UNCHANGED <<clientVars, status, joined>>,
         \A r, cl, d : At(rooms', r, cl, d) => At(rooms, r, cl, d)
  PROVE  CastInv'
<1>1. \A d \in Conn : Range(inbox'[d]) \subseteq Range(inbox[d])
  BY HandlerTakes
<1>2. UNCHANGED <<session, transport, owner, lives, offlineQueue>>
  BY DEF clientVars, managerVars
<1>3. SteadyInv'
  BY <1>2 DEF CastInv, SteadyInv, InSession, IsOpen, OwnerLife, TheOwner
<1>4. \A d \in Conn : JoinsIn(inbox', d) \subseteq JoinsIn(inbox, d)
  BY <1>1 DEF JoinsIn
<1>5. MembersInv'
  BY <1>2, <1>4 DEF CastInv, MembersInv, TheOwner
<1>6. AuthorsInv'
  BY <1>1, <1>2 DEF CastInv, AuthorsInv, TheOwner
<1> QED
  BY <1>3, <1>5, <1>6 DEF CastInv

LEMMA CastServer ==
  ASSUME IndInv, NewestInv, CastInv, NEW c \in Conn, Server(c)
  PROVE  CastInv'
<1>1. CASE HandleJoin(c)
  BY <1>1, CastJoins DEF Server
<1>2. CASE RejectOperation(c) \/ IgnoreOperation(c) \/ AcceptOperation(c)
  <2> DEFINE m == Head(inbox[c])
  <2>1. m = Head(inbox[c])
    OBVIOUS
  <2> HIDE DEF m
  <2>2. Reads(c, "operation") /\ UNCHANGED <<status, joined>> /\ \A r, cl, d : At(rooms', r, cl, d) <=> At(rooms, r, cl, d)
    BY <1>2, <2>1, OperationFacts
  <2> QED
    BY <2>2, CastHandled DEF Server
<1>3. CASE HandleClose(c)
  BY <1>3, CloseFacts, CastHandled DEF Server
<1> QED
  BY <1>1, <1>2, <1>3 DEF Server, Handle

\* A step that opens no connection and handles nothing.
LEMMA CastOpens ==
  ASSUME IndInv, NewestInv, CastInv, NEW cl \in Client, SocketOpens(cl)
  PROVE  CastInv'
<1> DEFINE t == transport[cl]
           join == JoinMsg(session[cl], cl)
<1>1. /\ t # NoConn /\ status[t] = "connecting"
      /\ status' = [status EXCEPT ![t] = "open"] /\ inbox' = [inbox EXCEPT ![t] = <<join>>]
      /\ UNCHANGED <<rooms, joined, session, transport, owner, lives, offlineQueue>>
  BY DEF SocketOpens, Open, clientVars, managerVars
<1>2. t \in Conn /\ joined[t] = NotJoined
  BY <1>1 DEF IndInv, TypeOK, NewestInv, Waits
<1>3. join.type = "join"
  BY DEF JoinMsg
<1> HIDE DEF join, t
<1>4. \A c \in Conn : /\ inbox'[c] = IF c = t THEN <<join>> ELSE inbox[c]
                      /\ status'[c] = IF c = t THEN "open" ELSE status[c]
  BY <1>1 DEF IndInv, FunctionsOK, IsFunction
<1>5. Range(<<join>>) = {join}
  BY Ranges
<1>6. SteadyInv'
  <2>1. \A st \in Steady : InSession(st) => transport[st] \in Conn
    BY EnvironmentAssumption DEF IndInv, TypeOK
  <2>2. \A st \in Steady : IsOpen(st) => transport[st] \in Conn
    BY EnvironmentAssumption DEF IndInv, TypeOK, IsOpen
  <2>3. \A st \in Steady : IsOpen(st) => IsOpen(st)'
    BY <1>1, <1>4, <2>2 DEF IsOpen
  <2> QED
    BY <1>1, <1>4, <2>1, <2>3 DEF CastInv, SteadyInv, InSession, OwnerLife, TheOwner
<1>7. MembersInv'
  <2>1. ASSUME NEW d \in Conn, NEW x \in JoinsIn(inbox', d)
        PROVE  /\ joined[d] # NotJoined => x.room = joined[d][1]
               /\ \A n \in JoinsIn(inbox', d) : n.room = x.room
    <3>1. CASE d = t
      BY <1>2, <1>4, <1>5, <2>1, <3>1 DEF JoinsIn
    <3>2. CASE d # t
      <4>1. JoinsIn(inbox', d) = JoinsIn(inbox, d)
        BY <1>4, <3>2 DEF JoinsIn
      <4> QED
        BY <2>1, <4>1 DEF CastInv, MembersInv
    <3> QED
      BY <3>1, <3>2
  <2>2. \A d \in Conn : \A x \in JoinsIn(inbox', d) :
          /\ joined'[d] # NotJoined => x.room = joined'[d][1]
          /\ \A n \in JoinsIn(inbox', d) : n.room = x.room
    BY <1>1, <2>1
  <2>3. /\ \A c \in Conn : joined[c] # NotJoined =>
             /\ owner[c] # NoOwner /\ joined[c] = <<joined[c][1], TheOwner(c)>>
             /\ transport[TheOwner(c)] = c => joined[c][1] = session[TheOwner(c)]
        /\ \A room, dl, c : At(rooms, room, dl, c) => c \in Conn /\ joined[c] = <<room, dl>>
    BY DEF CastInv, MembersInv
  <2>4. UNCHANGED <<rooms, joined, session, transport, owner>>
    BY <1>1
  <2> QED
    BY <2>2, <2>3, <2>4 DEF MembersInv, TheOwner
<1>8. AuthorsInv'
  BY <1>1, <1>3, <1>4, <1>5 DEF CastInv, AuthorsInv, TheOwner
<1> QED
  BY <1>6, <1>7, <1>8 DEF CastInv

\* What the break of a connection leaves of what was under way.
LEMMA BreakFacts ==
  ASSUME IndInv, NEW cl \in Client, SocketCloses(cl)
  PROVE  /\ InSession(cl) /\ cl \notin Steady /\ transport[cl] \in Conn
         /\ UNCHANGED <<rooms, joined, session, transport, owner, lives, known, offlineQueue, hydrated>>
         /\ \A c \in Conn :
              /\ status'[c] = IF c = transport[cl] THEN "gone" ELSE status[c]
              /\ c # transport[cl] => inbox'[c] = inbox[c]
              /\ Range(inbox'[c]) \subseteq Range(inbox[c]) \cup {CloseMsg}
              /\ Range(stream'[c]) \subseteq Range(stream[c])
         /\ ~LosesMessages => Range(inbox[transport[cl]]) = {} /\ Range(inbox'[transport[cl]]) \subseteq {CloseMsg}
<1> DEFINE t == transport[cl]
<1>1. /\ InSession(cl) /\ cl \notin Steady /\ status' = [status EXCEPT ![t] = "gone"]
      /\ UNCHANGED <<rooms, joined, session, transport, owner, lives, known, offlineQueue, hydrated>>
      /\ \/ /\ status[t] = "connecting" /\ UNCHANGED <<inbox, stream>>
         \/ \E kept \in 0..Len(inbox[t]) :
              /\ LosesMessages \/ inbox[t] = <<>>
              /\ inbox' = [inbox EXCEPT ![t] = Append(SubSeq(inbox[t], 1, kept), CloseMsg)]
              /\ stream' = [stream EXCEPT ![t] = <<>>]
  BY DEF SocketCloses, Disconnect, crdtVars
<1>2. t \in Conn /\ IsList(inbox[t])
  BY <1>1 DEF IndInv, TypeOK, ListsOK
<1>3. t = transport[cl]
  OBVIOUS
<1> HIDE DEF t
<1>4. \A c \in Conn : status'[c] = IF c = t THEN "gone" ELSE status[c]
  BY <1>1 DEF IndInv, FunctionsOK, IsFunction
<1>5. CASE status[t] = "connecting" /\ UNCHANGED <<inbox, stream>>
  <2>1. inbox[t] = <<>>
    BY <1>2, <1>5 DEF IndInv, NewConns, Waits
  <2>2. Range(inbox[t]) = {} /\ Range(inbox'[t]) = {}
    BY <1>5, <2>1, EmptyList
  <2> QED
    BY <1>1, <1>2, <1>3, <1>4, <1>5, <2>2
<1>6. ASSUME NEW kept \in 0..Len(inbox[t]), LosesMessages \/ inbox[t] = <<>>,
             inbox' = [inbox EXCEPT ![t] = Append(SubSeq(inbox[t], 1, kept), CloseMsg)],
             stream' = [stream EXCEPT ![t] = <<>>]
      PROVE  /\ \A c \in Conn :
                  /\ c # t => inbox'[c] = inbox[c]
                  /\ Range(inbox'[c]) \subseteq Range(inbox[c]) \cup {CloseMsg}
                  /\ Range(stream'[c]) \subseteq Range(stream[c])
             /\ ~LosesMessages => Range(inbox[t]) = {} /\ Range(inbox'[t]) \subseteq {CloseMsg}
  <2> DEFINE rest == Append(SubSeq(inbox[t], 1, kept), CloseMsg)
  <2>1. Range(rest) \subseteq Range(inbox[t]) \cup {CloseMsg}
    BY <1>2, CutRange
  <2>2. inbox' = [inbox EXCEPT ![t] = rest]
    BY <1>6
  <2> HIDE DEF rest
  <2>3. \A c \in Conn : /\ inbox'[c] = IF c = t THEN rest ELSE inbox[c]
                        /\ stream'[c] = IF c = t THEN <<>> ELSE stream[c]
    BY <1>6, <2>2 DEF IndInv, FunctionsOK, IsFunction
  <2>4. Range(<<>>) = {}
    BY EmptyList
  <2>5. \A c \in Conn : Range(stream'[c]) \subseteq Range(stream[c])
    BY <2>3, <2>4
  <2>6. ~LosesMessages => Range(inbox[t]) = {}
    BY <1>6, <2>4
  <2> QED
    BY <1>2, <2>1, <2>3, <2>5, <2>6
<1> QED
  BY <1>1, <1>2, <1>3, <1>4, <1>5, <1>6

LEMMA CastBreaks ==
  ASSUME IndInv, CastInv, NEW cl \in Client, SocketCloses(cl)
  PROVE  CastInv'
<1> DEFINE t == transport[cl]
<1>1. /\ InSession(cl) /\ cl \notin Steady /\ t \in Conn
      /\ UNCHANGED <<rooms, joined, session, transport, owner, lives, offlineQueue>>
      /\ \A c \in Conn :
           /\ status'[c] = IF c = t THEN "gone" ELSE status[c]
           /\ Range(inbox'[c]) \subseteq Range(inbox[c]) \cup {CloseMsg}
  BY BreakFacts
<1>2. owner[t] = <<cl, lives[cl]>>
  BY <1>1 DEF IndInv, TypeOK
<1>3. \A st \in Steady : InSession(st) => transport[st] \in Conn /\ transport[st] # t
  BY <1>1, <1>2, EnvironmentAssumption DEF IndInv, TypeOK
<1>4. CloseMsg.type = "close"
  BY DEF CloseMsg
<1> HIDE DEF t
<1>5. \A st \in Steady : IsOpen(st) => IsOpen(st)'
  <2>1. \A st \in Steady : IsOpen(st) => InSession(st)
    BY EnvironmentAssumption DEF IndInv, TypeOK, IsOpen
  <2> QED
    BY <1>1, <1>3, <2>1 DEF IsOpen
<1>6. SteadyInv'
  BY <1>1, <1>3, <1>5 DEF CastInv, SteadyInv, InSession, OwnerLife, TheOwner
<1>7. MembersInv'
  <2>1. \A d \in Conn : JoinsIn(inbox', d) \subseteq JoinsIn(inbox, d)
    BY <1>1, <1>4 DEF JoinsIn
  <2> QED
    BY <1>1, <2>1 DEF CastInv, MembersInv, TheOwner
<1>8. AuthorsInv'
  BY <1>1, <1>4 DEF CastInv, AuthorsInv, TheOwner
<1> QED
  BY <1>6, <1>7, <1>8 DEF CastInv

\* A connection that was never used.
LEMMA UnusedIsEmpty ==
  ASSUME IndInv, RoomsInv, NewestInv, NEW c \in Conn, Waits(c)
  PROVE  /\ inbox[c] = <<>> /\ Range(inbox[c]) = {} /\ stream[c] = <<>> /\ Range(stream[c]) = {}
         /\ joined[c] = NotJoined
BY EmptyList DEF IndInv, NewConns, RoomsInv, NewestInv

\* The connection of a session is nobody else's.
LEMMA OwnConnection ==
  ASSUME IndInv, NEW cl \in Client, InSession(cl)
  PROVE  /\ transport[cl] \in Conn /\ owner[transport[cl]] = <<cl, lives[cl]>>
         /\ owner[transport[cl]] # NoOwner /\ TheOwner(transport[cl]) = cl /\ OwnerLife(transport[cl]) = lives[cl]
         /\ \A dl \in Client : transport[dl] = transport[cl] => dl = cl
<1>1. transport[cl] \in Conn /\ owner[transport[cl]] = <<cl, lives[cl]>>
  BY DEF IndInv, TypeOK
<1>2. ASSUME NEW dl \in Client, transport[dl] = transport[cl] PROVE dl = cl
  <2>1. owner[transport[dl]] = <<dl, lives[dl]>>
    BY <1>1, <1>2, NamesAssumption DEF IndInv, TypeOK
  <2> QED
    BY <1>1, <1>2, <2>1
<1> QED
  BY <1>1, <1>2 DEF TheOwner, OwnerLife, NoOwner

LEMMA ReconnectFacts ==
  ASSUME IndInv, LinkInv, RoomsInv, NewestInv, CastInv, NEW cl \in Client, Reconnect(cl)
  PROVE  \E new \in Conn :
           /\ InSession(cl) /\ cl \notin Steady /\ ~IsOpen(cl) /\ lives[cl] \in 1..lives[cl]
           /\ Waits(new) /\ Waits(new)' /\ owner'[new] = <<cl, lives[cl]>> /\ transport'[cl] = new
           /\ \A dl \in Client : InSession(dl) => transport[dl] # new
           /\ \A dl \in Client : dl # cl => transport'[dl] = transport[dl]
           /\ \A c \in Conn : c # new => owner'[c] = owner[c] /\ status'[c] = status[c]
           /\ UNCHANGED <<rooms, joined, inbox, stream, session, lives, known, offlineQueue, hydrated>>
<1>10. FreshConn \in Conn /\ status[FreshConn] = "unused" /\ \A dl \in Client : InSession(dl) => transport[dl] # FreshConn
  BY FreshIsUnused DEF Reconnect
<1>9. PICK new \in Conn : new = FreshConn
  BY <1>10
<1>1. /\ cl \in reconnect
      /\ transport' = [transport EXCEPT ![cl] = new]
      /\ owner' = [owner EXCEPT ![new] = <<cl, lives[cl]>>]
      /\ status' = [status EXCEPT ![new] = "connecting"]
      /\ UNCHANGED <<rooms, joined, inbox, stream, session, lives, known, offlineQueue, hydrated>>
  BY <1>9 DEF Reconnect, crdtVars
<1>2. status[new] = "unused" /\ \A dl \in Client : InSession(dl) => transport[dl] # new
  BY <1>10, <1>9
<1>3. InSession(cl) /\ status[transport[cl]] = "gone"
  BY <1>1 DEF LinkInv, IndInv, TypeOK
<1>4. cl \notin Steady
  BY <1>3 DEF CastInv, SteadyInv
<1>5. lives[cl] \in 1..lives[cl]
  BY <1>3, OwnConnection DEF CastInv, SteadyInv
<1>6. transport' = [dl \in Client |-> IF dl = cl THEN new ELSE transport[dl]]
  BY <1>1 DEF IndInv, TypeOK
<1>7. \A c \in Conn : /\ status'[c] = IF c = new THEN "connecting" ELSE status[c]
                      /\ owner'[c] = IF c = new THEN <<cl, lives[cl]>> ELSE owner[c]
  BY <1>1 DEF IndInv, FunctionsOK, IsFunction
<1>8. Waits(new) /\ Waits(new)'
  BY <1>2, <1>7 DEF Waits
<1> QED
  <2>1. ~IsOpen(cl) /\ owner'[new] = <<cl, lives[cl]>> /\ transport'[cl] = new
    BY <1>3, <1>6, <1>7 DEF IsOpen
  <2>2. /\ \A dl \in Client : dl # cl => transport'[dl] = transport[dl]
        /\ \A c \in Conn : c # new => owner'[c] = owner[c] /\ status'[c] = status[c]
    BY <1>6, <1>7
  <2> QED
    BY <1>1, <1>2, <1>3, <1>4, <1>5, <1>8, <2>1, <2>2

LEMMA CastReconnects ==
  ASSUME IndInv, LinkInv, RoomsInv, NewestInv, CastInv, NEW cl \in Client, Reconnect(cl)
  PROVE  CastInv'
<1>1. PICK new \in Conn :
        /\ InSession(cl) /\ cl \notin Steady /\ lives[cl] \in 1..lives[cl]
        /\ Waits(new) /\ owner'[new] = <<cl, lives[cl]>> /\ transport'[cl] = new
        /\ \A dl \in Client : InSession(dl) => transport[dl] # new
        /\ \A dl \in Client : dl # cl => transport'[dl] = transport[dl]
        /\ \A c \in Conn : c # new => owner'[c] = owner[c] /\ status'[c] = status[c]
        /\ UNCHANGED <<rooms, joined, inbox, session, lives, offlineQueue>>
  BY ReconnectFacts
<1>2. Range(inbox[new]) = {} /\ joined[new] = NotJoined
  BY <1>1, UnusedIsEmpty
<1>3. \A st \in Steady : st \in Client /\ st # cl
  BY <1>1, EnvironmentAssumption
<1>4. \A st \in Steady : InSession(st) => transport[st] \in Conn /\ transport[st] # new
  BY <1>1, <1>3 DEF IndInv, TypeOK
<1>5. \A st \in Steady : IsOpen(st) => IsOpen(st)'
  <2>1. \A st \in Steady : IsOpen(st) => InSession(st)
    BY <1>3 DEF IndInv, TypeOK, IsOpen
  <2> QED
    BY <1>1, <1>3, <1>4, <2>1 DEF IsOpen
<1>6. SteadyInv'
  <2>1. ASSUME NEW st \in Steady, InSession(st)' PROVE status'[transport'[st]] \in {"connecting", "open"}
    <3>1. InSession(st)
      BY <1>1, <2>1 DEF InSession
    <3> QED
      BY <1>1, <1>3, <1>4, <3>1 DEF CastInv, SteadyInv
  <2>2. ASSUME NEW c \in Conn, owner'[c] # NoOwner
        PROVE  /\ OwnerLife(c)' \in 1..lives[TheOwner(c)'] /\ owner'[c] = <<TheOwner(c)', OwnerLife(c)'>>
               /\ TheOwner(c)' \in Steady => c = transport'[TheOwner(c)']
    <3>1. CASE c = new
      <4>1. OwnerLife(c)' = lives[cl] /\ TheOwner(c)' = cl /\ owner'[c] = <<cl, lives[cl]>>
        BY <1>1, <3>1 DEF OwnerLife, TheOwner
      <4> QED
        BY <1>1, <4>1
    <3>2. CASE c # new
      <4>1. owner'[c] = owner[c] /\ OwnerLife(c)' = OwnerLife(c) /\ TheOwner(c)' = TheOwner(c)
        BY <1>1, <3>2 DEF OwnerLife, TheOwner
      <4>2. /\ OwnerLife(c) \in 1..lives[TheOwner(c)] /\ owner[c] = <<TheOwner(c), OwnerLife(c)>>
            /\ TheOwner(c) \in Steady => c = transport[TheOwner(c)]
        BY <2>2, <4>1 DEF CastInv, SteadyInv
      <4> QED
        BY <1>1, <1>3, <4>1, <4>2
    <3> QED
      BY <3>1, <3>2
  <2>3. (\E dl \in Client \ Steady : lives[dl] > 0) =>
          \A st \in Steady : IsOpen(st)' /\ joined[transport'[st]] # NotJoined
    <3> SUFFICES ASSUME \E dl \in Client \ Steady : lives[dl] > 0, NEW st \in Steady
                 PROVE  IsOpen(st)' /\ joined[transport'[st]] # NotJoined
      OBVIOUS
    <3>1. IsOpen(st) /\ joined[transport[st]] # NotJoined
      BY DEF CastInv, SteadyInv
    <3> QED
      BY <1>1, <1>3, <1>5, <3>1
  <2>4. \A dl \in Client : lives[dl] \in Nat /\ (lives[dl] = 0 => ~InSession(dl)')
    BY <1>1 DEF CastInv, SteadyInv, InSession
  <2> QED
    BY <1>1, <2>1, <2>2, <2>3, <2>4 DEF SteadyInv
<1>7. MembersInv'
  <2>1. ASSUME NEW c \in Conn, joined[c] # NotJoined
        PROVE  /\ owner'[c] # NoOwner /\ joined[c] = <<joined[c][1], TheOwner(c)'>>
               /\ transport'[TheOwner(c)'] = c => joined[c][1] = session[TheOwner(c)']
    <3>1. c # new
      BY <1>2, <2>1
    <3>2. owner'[c] = owner[c] /\ TheOwner(c)' = TheOwner(c)
      BY <1>1, <3>1 DEF TheOwner
    <3>3. /\ owner[c] # NoOwner /\ joined[c] = <<joined[c][1], TheOwner(c)>>
          /\ transport[TheOwner(c)] = c => joined[c][1] = session[TheOwner(c)]
      BY <2>1 DEF CastInv, MembersInv
    <3>4. TheOwner(c) \in Client
      BY <3>3 DEF IndInv, FunctionsOK, TheOwner
    <3> QED
      BY <1>1, <3>1, <3>2, <3>3, <3>4
  <2>2. /\ \A room, dl, c : At(rooms, room, dl, c) => c \in Conn /\ joined[c] = <<room, dl>>
        /\ \A c \in Conn : \A m \in JoinsIn(inbox, c) :
             /\ joined[c] # NotJoined => m.room = joined[c][1]
             /\ \A n \in JoinsIn(inbox, c) : n.room = m.room
    BY DEF CastInv, MembersInv
  <2>3. UNCHANGED <<rooms, joined, inbox, session>>
    BY <1>1
  <2> QED
    BY <2>1, <2>2, <2>3 DEF MembersInv
<1>8. AuthorsInv'
  <2>1. ASSUME NEW c \in Conn, NEW m \in Range(inbox[c]), m.type = "operation"
        PROVE  owner'[c] # NoOwner /\ m.client = TheOwner(c)' /\ m.op.id[1] = TheOwner(c)'
    <3>1. c # new
      BY <1>2, <2>1
    <3>2. owner'[c] = owner[c] /\ TheOwner(c)' = TheOwner(c)
      BY <1>1, <3>1 DEF TheOwner
    <3> QED
      BY <2>1, <3>2 DEF CastInv, AuthorsInv
  <2> QED
    BY <1>1, <2>1 DEF CastInv, AuthorsInv
<1> QED
  BY <1>6, <1>7, <1>8 DEF CastInv

\* leaveSession, for the session that follows or none.
Moves(cl, room, new) ==
  /\ \A dl \in Client :
       /\ session'[dl] = (IF dl = cl THEN room ELSE session[dl])
       /\ transport'[dl] = (IF dl = cl THEN new ELSE transport[dl])
       /\ known'[dl] = (IF dl = cl THEN {} ELSE known[dl])
       /\ offlineQueue'[dl] = (IF dl = cl THEN <<>> ELSE offlineQueue[dl])
  /\ hydrated' = hydrated \ {cl}
  /\ UNCHANGED <<rooms, joined, stream>>
  /\ \A c \in Conn :
       /\ Range(inbox'[c]) \subseteq Range(inbox[c]) \cup {CloseMsg}
       /\ c # transport[cl] => inbox'[c] = inbox[c]
       /\ c # new /\ c # transport[cl] => status'[c] = status[c]
       /\ status'[c] = "open" => status[c] = "open" /\ c # transport[cl]
  /\ \A dl \in Client : InSession(dl) => transport[dl] # new /\ transport[dl] \in Conn

LEMMA MoveFacts ==
  ASSUME IndInv, NEW cl \in Client, NEW room, NEW new, ChangeSession(cl, room, new),
         new = NoConn \/ (new \in Conn /\ status[new] = "unused")
  PROVE  Moves(cl, room, new) /\ (new \in Conn => Waits(new) /\ Waits(new)' /\ status'[new] = "connecting")
<1> DEFINE old == transport[cl]
<1>1. /\ session' = [dl \in Client |-> IF dl = cl THEN room ELSE session[dl]]
      /\ transport' = [dl \in Client |-> IF dl = cl THEN new ELSE transport[dl]]
      /\ known' = [dl \in Client |-> IF dl = cl THEN {} ELSE known[dl]]
      /\ offlineQueue' = [dl \in Client |-> IF dl = cl THEN <<>> ELSE offlineQueue[dl]]
      /\ hydrated' = hydrated \ {cl}
      /\ inbox' = IF IsOpen(cl) THEN [inbox EXCEPT ![old] = Append(inbox[old], CloseMsg)] ELSE inbox
      /\ UNCHANGED <<rooms, stream>>
      /\ \A c \in Conn : c = new => status[c] = "unused"
      /\ \A dl \in Client : InSession(dl) =>
           transport[dl] # new /\ transport[dl] \in Conn /\ status[transport[dl]] # "unused"
      /\ \A c \in Conn :
           /\ c = new => status'[c] = "connecting"
           /\ status'[c] = "open" => status[c] = "open"
           /\ c # new /\ c # old => status'[c] = status[c]
  BY ChangeFacts
<1>2. UNCHANGED joined /\ status' = [c \in Conn |-> CASE c = new -> "connecting"
                                                  [] c = old /\ status[c] = "open" -> "closing"
                                                  [] c = old /\ status[c] = "connecting" -> "gone"
                                                  [] OTHER -> status[c]]
  BY DEF ChangeSession
<1> HIDE DEF old
<1>5. \A c \in Conn : c = old => status'[c] # "open"
  <2> SUFFICES ASSUME NEW c \in Conn, c = old PROVE status'[c] # "open"
    OBVIOUS
  <2>1. \/ status'[c] \in {"connecting", "closing", "gone"}
        \/ status'[c] = status[c] /\ status[c] # "open"
    BY <1>2
  <2> QED
    BY <2>1
<1>3. \A c \in Conn : /\ Range(inbox'[c]) \subseteq Range(inbox[c]) \cup {CloseMsg}
                      /\ c # old => inbox'[c] = inbox[c]
  <2>1. CASE ~IsOpen(cl)
    BY <1>1, <2>1
  <2>2. CASE IsOpen(cl)
    <3>1. inbox' = [inbox EXCEPT ![old] = Append(inbox[old], CloseMsg)]
      BY <1>1, <2>2
    <3>2. \A c \in Conn : Range(Append(inbox[c], CloseMsg)) \subseteq Range(inbox[c]) \cup {CloseMsg}
      BY Ranges DEF IndInv, ListsOK
    <3>3. \A c \in Conn : inbox'[c] = IF c = old THEN Append(inbox[c], CloseMsg) ELSE inbox[c]
      BY <3>1 DEF IndInv, FunctionsOK, IsFunction
    <3> QED
      BY <3>2, <3>3
  <2> QED
    BY <2>1, <2>2
<1>4. Moves(cl, room, new)
  BY <1>1, <1>2, <1>3, <1>5 DEF Moves, old
<1> QED
  BY <1>1, <1>4 DEF Waits

\* Nobody else's part changes, and the connection is the newest of its owner.
LEMMA CastMoves ==
  ASSUME IndInv, RoomsInv, NewestInv, CastInv, NEW cl \in Client, NEW room, NEW new, Moves(cl, room, new),
         new = NoConn \/ (new \in Conn /\ Waits(new)),
         \A c \in Conn : c # new => owner'[c] = owner[c]
  PROVE  MembersInv' /\ AuthorsInv'
<1>1. CloseMsg.type = "close"
  BY DEF CloseMsg
<1>2. new \in Conn => Range(inbox[new]) = {} /\ joined[new] = NotJoined
  <2>1. new \in Conn => Waits(new)
    BY NamesAssumption
  <2> QED
    BY <2>1, UnusedIsEmpty
<1>3. new \in Conn => Range(inbox'[new]) \subseteq {CloseMsg}
  BY <1>2 DEF Moves
<1>4. \A c \in Conn : c # new => owner'[c] = owner[c] /\ TheOwner(c)' = TheOwner(c)
  BY DEF TheOwner
<1>5. MembersInv'
  <2>1. ASSUME NEW c \in Conn, joined[c] # NotJoined
        PROVE  /\ owner'[c] # NoOwner /\ joined[c] = <<joined[c][1], TheOwner(c)'>>
               /\ transport'[TheOwner(c)'] = c => joined[c][1] = session'[TheOwner(c)']
    <3>1. c # new
      BY <1>2, <2>1
    <3>2. /\ owner[c] # NoOwner /\ joined[c] = <<joined[c][1], TheOwner(c)>>
          /\ transport[TheOwner(c)] = c => joined[c][1] = session[TheOwner(c)]
      BY <2>1 DEF CastInv, MembersInv
    <3>3. TheOwner(c) \in Client
      BY <3>2 DEF IndInv, FunctionsOK, TheOwner
    <3> QED
      BY <1>4, <3>1, <3>2, <3>3 DEF Moves
  <2>2. ASSUME NEW c \in Conn PROVE JoinsIn(inbox', c) \subseteq JoinsIn(inbox, c)
    BY <1>1 DEF JoinsIn, Moves
  <2>3. UNCHANGED <<rooms, joined>>
    BY DEF Moves
  <2>4. \A c \in Conn : \A m \in JoinsIn(inbox', c) :
          /\ joined[c] # NotJoined => m.room = joined[c][1]
          /\ \A n \in JoinsIn(inbox', c) : n.room = m.room
    BY <2>2 DEF CastInv, MembersInv
  <2>5. \A r, dl, c : At(rooms, r, dl, c) => c \in Conn /\ joined[c] = <<r, dl>>
    BY DEF CastInv, MembersInv
  <2> QED
    BY <2>1, <2>3, <2>4, <2>5 DEF MembersInv
<1>6. AuthorsInv'
  <2>1. ASSUME NEW c \in Conn, NEW m \in Range(inbox'[c]), m.type = "operation"
        PROVE  owner'[c] # NoOwner /\ m.client = TheOwner(c)' /\ m.op.id[1] = TheOwner(c)'
    <3>1. m \in Range(inbox[c]) /\ c # new
      BY <1>1, <1>3, <2>1 DEF Moves
    <3> QED
      BY <1>4, <2>1, <3>1 DEF CastInv, AuthorsInv
  <2>2. \A dl \in Client : \A o \in Range(offlineQueue'[dl]) : o.id[1] = dl
    BY EmptyList DEF Moves, CastInv, AuthorsInv
  <2> QED
    BY <2>1, <2>2 DEF AuthorsInv
<1> QED
  BY <1>5, <1>6

LEMMA StartFacts ==
  ASSUME IndInv, NEW cl \in Client, NEW room, StartSession(cl, room)
  PROVE  \E new \in Conn :
           /\ Moves(cl, room, new) /\ Waits(new) /\ Waits(new)' /\ status'[new] = "connecting"
           /\ owner'[new] = <<cl, lives[cl] + 1>> /\ \A c \in Conn : c # new => owner'[c] = owner[c]
           /\ \A dl \in Client : lives'[dl] = IF dl = cl THEN lives[cl] + 1 ELSE lives[dl]
           /\ cl \in Steady => lives[cl] < 1
           /\ cl \in Steady \/ \A st \in Steady : Registered(st)
<1>1. FreshConn \in Conn /\ status[FreshConn] = "unused"
  BY FreshIsUnused DEF StartSession
<1>2. PICK new \in Conn : new = FreshConn
  BY <1>1
<1>3. /\ ChangeSession(cl, room, new) /\ status[new] = "unused"
      /\ lives' = [lives EXCEPT ![cl] = lives[cl] + 1]
      /\ owner' = [owner EXCEPT ![new] = <<cl, lives[cl] + 1>>]
      /\ cl \in Steady => lives[cl] < 1
      /\ cl \in Steady \/ \A st \in Steady : Registered(st)
  BY <1>1, <1>2 DEF StartSession
<1>4. Moves(cl, room, new) /\ Waits(new) /\ Waits(new)' /\ status'[new] = "connecting"
  BY <1>3, MoveFacts
<1>5. /\ \A dl \in Client : lives'[dl] = IF dl = cl THEN lives[cl] + 1 ELSE lives[dl]
      /\ \A c \in Conn : owner'[c] = IF c = new THEN <<cl, lives[cl] + 1>> ELSE owner[c]
  BY <1>3 DEF IndInv, FunctionsOK, IsFunction
<1> QED
  BY <1>3, <1>4, <1>5

LEMMA CastStarts ==
  ASSUME IndInv, RoomsInv, NewestInv, CastInv, NEW cl \in Client, NEW room, StartSession(cl, room)
  PROVE  CastInv'
<1>1. PICK new \in Conn :
        /\ Moves(cl, room, new) /\ Waits(new) /\ status'[new] = "connecting"
        /\ owner'[new] = <<cl, lives[cl] + 1>> /\ \A c \in Conn : c # new => owner'[c] = owner[c]
        /\ \A dl \in Client : lives'[dl] = IF dl = cl THEN lives[cl] + 1 ELSE lives[dl]
        /\ cl \in Steady => lives[cl] < 1
        /\ cl \in Steady \/ \A st \in Steady : Registered(st)
  BY StartFacts
<1>2. MembersInv' /\ AuthorsInv'
  BY <1>1, CastMoves
<1>3. /\ lives[cl] \in Nat /\ lives[cl] + 1 \in 1..(lives[cl] + 1)
      /\ cl \in Steady => lives[cl] = 0 /\ ~InSession(cl)
  BY <1>1 DEF CastInv, SteadyInv
<1>4. \A st \in Steady : st \in Client
  BY EnvironmentAssumption
\* The connections of the other Steady clients stay as they are.
<1>5. ASSUME NEW st \in Steady, st # cl, InSession(st)
      PROVE  status'[transport[st]] = status[transport[st]] /\ transport[st] \in Conn
  <2>1. transport[st] \in Conn /\ transport[st] # new /\ transport[st] # transport[cl]
    BY <1>1, <1>4, <1>5, OwnConnection DEF Moves
  <2> QED
    BY <1>1, <2>1 DEF Moves
<1>6. ASSUME NEW st \in Steady, InSession(st)' PROVE status'[transport'[st]] \in {"connecting", "open"}
  <2>1. CASE st = cl
    BY <1>1, <2>1 DEF Moves
  <2>2. CASE st # cl
    <3>1. InSession(st) /\ transport'[st] = transport[st]
      BY <1>1, <1>4, <1>6, <2>2 DEF InSession, Moves
    <3> QED
      BY <1>5, <2>2, <3>1 DEF CastInv, SteadyInv
  <2> QED
    BY <2>1, <2>2
<1>7. ASSUME NEW c \in Conn, owner'[c] # NoOwner
      PROVE  /\ OwnerLife(c)' \in 1..lives'[TheOwner(c)'] /\ owner'[c] = <<TheOwner(c)', OwnerLife(c)'>>
             /\ TheOwner(c)' \in Steady => c = transport'[TheOwner(c)']
  <2>1. CASE c = new
    <3>1. OwnerLife(c)' = lives[cl] + 1 /\ TheOwner(c)' = cl /\ owner'[c] = <<cl, lives[cl] + 1>>
      BY <1>1, <2>1 DEF OwnerLife, TheOwner
    <3>2. transport'[cl] = new /\ lives'[cl] = lives[cl] + 1
      BY <1>1 DEF Moves
    <3> QED
      BY <1>3, <2>1, <3>1, <3>2
  <2>2. CASE c # new
    <3>1. owner'[c] = owner[c] /\ OwnerLife(c)' = OwnerLife(c) /\ TheOwner(c)' = TheOwner(c)
      BY <1>1, <2>2 DEF OwnerLife, TheOwner
    <3>2. /\ OwnerLife(c) \in 1..lives[TheOwner(c)] /\ owner[c] = <<TheOwner(c), OwnerLife(c)>>
          /\ TheOwner(c) \in Steady => c = transport[TheOwner(c)]
          /\ TheOwner(c) \in Client
      BY <1>7, <3>1 DEF CastInv, SteadyInv, IndInv, FunctionsOK, TheOwner
    <3>3. CASE TheOwner(c) # cl
      BY <1>1, <3>1, <3>2, <3>3 DEF Moves
    <3>4. CASE TheOwner(c) = cl
      <4>1. cl \notin Steady
        BY <1>3, <3>2, <3>4
      <4>2. OwnerLife(c) \in 1..(lives[cl] + 1)
        BY <1>3, <3>2, <3>4
      <4> QED
        BY <1>1, <3>1, <3>2, <3>4, <4>1, <4>2
    <3> QED
      BY <3>3, <3>4
  <2> QED
    BY <2>1, <2>2
<1>8. \A dl \in Client : lives'[dl] \in Nat /\ (lives'[dl] = 0 => ~InSession(dl)')
  <2>1. \A dl \in Client : lives[dl] \in Nat /\ (lives[dl] = 0 => ~InSession(dl))
    BY DEF CastInv, SteadyInv
  <2>2. \A dl \in Client : dl # cl => (InSession(dl)' <=> InSession(dl))
    BY <1>1 DEF InSession, Moves
  <2> QED
    BY <1>1, <1>3, <2>1, <2>2
<1>9. ASSUME \E dl \in Client \ Steady : lives'[dl] > 0, NEW st \in Steady
      PROVE  IsOpen(st)' /\ joined'[transport'[st]] # NotJoined
  <2>1. IsOpen(st) /\ joined[transport[st]] # NotJoined /\ cl \notin Steady
    <3>1. CASE cl \in Steady
      <4>1. \E dl \in Client \ Steady : lives[dl] > 0
        BY <1>1, <1>9, <3>1
      <4>2. IsOpen(cl)
        BY <3>1, <4>1 DEF CastInv, SteadyInv
      <4> QED
        BY <1>3, <3>1, <4>2 DEF IsOpen, IndInv, TypeOK
    <3>2. CASE cl \notin Steady
      <4>1. IsOpen(st) /\ At(rooms, session[st], st, transport[st])
        BY <1>1, <3>2 DEF Registered, IsActiveSender, At
      <4>2. joined[transport[st]] = <<session[st], st>>
        BY <4>1 DEF CastInv, MembersInv
      <4> QED
        BY <3>2, <4>1, <4>2 DEF NotJoined
    <3> QED
      BY <3>1, <3>2
  <2>2. InSession(st) /\ st # cl
    BY <1>4, <2>1 DEF IsOpen, IndInv, TypeOK
  <2>3. transport'[st] = transport[st] /\ joined' = joined
    BY <1>1, <1>4, <2>2 DEF Moves
  <2> QED
    BY <1>5, <2>1, <2>2, <2>3 DEF IsOpen
<1>10. SteadyInv'
  BY <1>6, <1>7, <1>8, <1>9 DEF SteadyInv
<1> QED
  BY <1>2, <1>10 DEF CastInv

LEMMA LeaveFacts ==
  ASSUME IndInv, NEW cl \in Client, LeaveSession(cl)
  PROVE  Moves(cl, NoRoom, NoConn) /\ InSession(cl) /\ cl \notin Steady /\ UNCHANGED <<lives, owner>>
<1>1. ChangeSession(cl, NoRoom, NoConn) /\ InSession(cl) /\ cl \notin Steady /\ UNCHANGED <<lives, owner>>
  BY DEF LeaveSession
<1> QED
  BY <1>1, MoveFacts

LEMMA CastLeaves ==
  ASSUME IndInv, RoomsInv, NewestInv, CastInv, NEW cl \in Client, LeaveSession(cl)
  PROVE  CastInv'
<1>1. Moves(cl, NoRoom, NoConn) /\ InSession(cl) /\ cl \notin Steady /\ UNCHANGED <<lives, owner>>
  BY LeaveFacts
<1>2. MembersInv' /\ AuthorsInv'
  BY <1>1, CastMoves
<1>3. \A st \in Steady : st \in Client /\ st # cl
  BY <1>1, EnvironmentAssumption
<1>4. ASSUME NEW st \in Steady, InSession(st)
      PROVE  /\ status'[transport[st]] = status[transport[st]] /\ transport'[st] = transport[st]
             /\ session'[st] = session[st]
  <2>1. transport[st] \in Conn /\ transport[st] # NoConn /\ transport[st] # transport[cl]
    BY <1>1, <1>3, <1>4, OwnConnection DEF Moves
  <2> QED
    BY <1>1, <1>3, <2>1 DEF Moves
<1>5. \A st \in Steady : InSession(st)' => InSession(st)
  BY <1>1, <1>3 DEF Moves, InSession
<1>6. \A st \in Steady : IsOpen(st) => IsOpen(st)' /\ transport'[st] = transport[st]
  <2>1. \A st \in Steady : IsOpen(st) => InSession(st)
    BY <1>3 DEF IsOpen, IndInv, TypeOK
  <2> QED
    BY <1>4, <2>1 DEF IsOpen
<1>7. \A dl \in Client : InSession(dl)' => InSession(dl)
  BY <1>1 DEF Moves, InSession
<1>8. joined' = joined
  BY <1>1 DEF Moves
<1>9. ASSUME NEW c \in Conn, owner[c] # NoOwner, TheOwner(c) \in Steady PROVE c = transport'[TheOwner(c)]
  <2>1. c = transport[TheOwner(c)]
    BY <1>9 DEF CastInv, SteadyInv
  <2> QED
    BY <1>1, <1>3, <1>9, <2>1 DEF Moves
<1>10. SteadyInv'
  <2>1. \A st \in Steady : InSession(st)' => status'[transport'[st]] \in {"connecting", "open"}
    BY <1>4, <1>5 DEF CastInv, SteadyInv
  <2>2. \A c \in Conn : owner'[c] # NoOwner =>
          /\ OwnerLife(c)' \in 1..lives'[TheOwner(c)'] /\ owner'[c] = <<TheOwner(c)', OwnerLife(c)'>>
          /\ TheOwner(c)' \in Steady => c = transport'[TheOwner(c)']
    BY <1>1, <1>9 DEF CastInv, SteadyInv, OwnerLife, TheOwner
  <2>3. \A dl \in Client : lives'[dl] \in Nat /\ (lives'[dl] = 0 => ~InSession(dl)')
    BY <1>1, <1>7 DEF CastInv, SteadyInv
  <2>4. (\E dl \in Client \ Steady : lives'[dl] > 0) =>
          \A st \in Steady : IsOpen(st)' /\ joined'[transport'[st]] # NotJoined
    BY <1>1, <1>6, <1>8 DEF CastInv, SteadyInv
  <2> QED
    BY <2>1, <2>2, <2>3, <2>4 DEF SteadyInv
<1> QED
  BY <1>2, <1>10 DEF CastInv

LEMMA CastStep ==
  ASSUME ~EarlyEdits, QueueSent, ~LateDelivery, ~Restarts, BaseInv, CastInv, [Next]_vars
  PROVE  CastInv'
<1>1. IndInv /\ LinkInv /\ LogCameFirst /\ RoomsInv /\ ElementsInv /\ NewestInv
  BY DEF BaseInv
<1>2. ASSUME NEW c \in Conn, Server(c) PROVE CastInv'
  BY <1>1, <1>2, CastServer
<1>3. ASSUME NEW c \in Conn, Message(c) PROVE CastInv'
  BY <1>1, <1>3, MessageIsStep, CastWithin
<1>4. ASSUME NEW cl \in Client, NEW room \in Room, StartSession(cl, room) PROVE CastInv'
  BY <1>1, <1>4, CastStarts
<1>5. ASSUME NEW cl \in Client, LeaveSession(cl) PROVE CastInv'
  BY <1>1, <1>5, CastLeaves
<1>6. ASSUME NEW cl \in Client, NEW dep \in {Root} \cup OpIds(elements[cl]), Edit(cl, dep) PROVE CastInv'
  BY <1>1, <1>6, EditIsStep, CastWithin
<1>7. ASSUME NEW cl \in Client, SocketOpens(cl) PROVE CastInv'
  BY <1>1, <1>7, CastOpens
<1>8. ASSUME NEW cl \in Client, SocketCloses(cl) PROVE CastInv'
  BY <1>1, <1>8, CastBreaks
<1>9. ASSUME NEW cl \in Client, Reconnect(cl) PROVE CastInv'
  BY <1>1, <1>9, CastReconnects
<1>10. ASSUME NEW cl \in Client, NEW i \in DOMAIN rendering[cl], RenderDone(cl, i) PROVE CastInv'
  BY <1>1, <1>10, RenderIsStep, CastWithin
<1>11. ~ServerRestarts
  BY DEF ServerRestarts
<1>12. CASE UNCHANGED vars
  <2>1. UNCHANGED <<rooms, joined, inbox, status, session, transport, owner, lives, offlineQueue>>
    BY <1>12 DEF vars, serverVars, connVars, clientVars, managerVars
  <2>2. SteadyInv'
    BY <2>1 DEF CastInv, SteadyInv, InSession, IsOpen, OwnerLife, TheOwner
  <2>3. MembersInv'
    BY <2>1 DEF CastInv, MembersInv, TheOwner
  <2>4. AuthorsInv'
    BY <2>1 DEF CastInv, AuthorsInv, TheOwner
  <2> QED
    BY <2>2, <2>3, <2>4 DEF CastInv
<1> QED
  BY <1>2, <1>3, <1>4, <1>5, <1>6, <1>7, <1>8, <1>9, <1>10, <1>11, <1>12 DEF Next

-----------------------------------------------------------------------------
(* Whose connection the server knows a session by.                         *)

\* A connection of the session that there is has joined.
Arrived(cl) == \E c \in Conn : owner[c] = <<cl, lives[cl]>> /\ joined[c] # NotJoined

\* Who has not joined was told no log; when a session has come to its room, no
\* connection of an earlier one is in it any more.
PlaceInv ==
  /\ \A c \in Conn : joined[c] = NotJoined => \A m \in Range(stream[c]) : m.type # "joined"
  /\ \A cl \in Client : cl \in hydrated => Arrived(cl)
  /\ \A cl \in Client : InSession(cl) /\ Arrived(cl) =>
       \A c : At(rooms, session[cl], cl, c) => OwnerLife(c) = lives[cl]

LEMMA PlaceInit == Init => PlaceInv
<1> SUFFICES ASSUME Init PROVE PlaceInv
  OBVIOUS
<1>1. /\ stream = [c \in Conn |-> <<>>] /\ hydrated = {} /\ session = [cl \in Client |-> NoRoom]
  BY DEF Init, ServerInit, ConnInit
<1>2. Range(<<>>) = {}
  BY EmptyList
<1> QED
  BY <1>1, <1>2 DEF PlaceInv, InSession

\* A step after which nobody new is in a room, has joined, or was told a log
\* but through a connection that had joined.
LEMMA PlaceStays ==
  ASSUME PlaceInv, UNCHANGED <<joined, session, owner, lives>>,
         \A r, cl, d : At(rooms', r, cl, d) => At(rooms, r, cl, d),
         \A c \in Conn : \A m \in Range(stream'[c]) : m \in Range(stream[c]) \/ m.type # "joined",
         \A cl \in Client : cl \in hydrated' => cl \in hydrated \/ Arrived(cl)
  PROVE  PlaceInv'
<1>1. \A cl \in Client : Arrived(cl)' <=> Arrived(cl)
  BY DEF Arrived
<1>2. \A c \in Conn : joined'[c] = NotJoined => \A m \in Range(stream'[c]) : m.type # "joined"
  BY DEF PlaceInv
<1>3. \A cl \in Client : cl \in hydrated' => Arrived(cl)'
  BY <1>1 DEF PlaceInv
<1>4. ASSUME NEW cl \in Client, InSession(cl)', Arrived(cl)', NEW c, At(rooms', session'[cl], cl, c)
      PROVE  OwnerLife(c)' = lives'[cl]
  <2>1. InSession(cl) /\ Arrived(cl) /\ At(rooms, session[cl], cl, c)
    BY <1>1, <1>4 DEF InSession
  <2> QED
    BY <2>1 DEF PlaceInv, OwnerLife
<1> QED
  BY <1>2, <1>3, <1>4 DEF PlaceInv

LEMMA PlaceWithin ==
  ASSUME IndInv, PlaceInv, NEW cl \in Client, NEW heard, NEW new, SessionStep(cl, heard, new)
  PROVE  PlaceInv'
<1>1. UNCHANGED <<rooms, joined, session, owner, lives>>
  BY DEF SessionStep
<1>2. ASSUME NEW dl \in Client, dl \in hydrated', dl \notin hydrated PROVE Arrived(dl)
  <2>1. dl = cl /\ \E m \in heard : m.type = "joined"
    BY <1>2 DEF SessionStep, Hears, Receives
  <2>2. InSession(cl) /\ \E m \in Range(stream[transport[cl]]) : m.type = "joined"
    BY <2>1 DEF SessionStep, Hears, Receives
  <2>3. transport[cl] \in Conn /\ owner[transport[cl]] = <<cl, lives[cl]>>
    BY <2>2, OwnConnection
  <2>4. joined[transport[cl]] # NotJoined
    BY <2>2, <2>3 DEF PlaceInv
  <2> QED
    BY <2>1, <2>3, <2>4 DEF Arrived
<1>3. \A c \in Conn : Range(stream'[c]) \subseteq Range(stream[c])
  BY StreamsShrink
<1> QED
  BY <1>1, <1>2, <1>3, PlaceStays

LEMMA PlaceJoins ==
  ASSUME IndInv, NewestInv, CastInv, PlaceInv, NEW c \in Conn, HandleJoin(c), UNCHANGED clientVars
  PROVE  PlaceInv'
<1> DEFINE m == Head(inbox[c])
<1>1. /\ Reads(c, "join")
      /\ joined' = [joined EXCEPT ![c] = <<m.room, m.client>>]
      /\ \A r, cl, d : At(rooms', r, cl, d) <=>
           IF r = m.room /\ cl = m.client THEN d = c ELSE At(rooms, r, cl, d)
      /\ \A d \in Conn : \A x \in Range(stream'[d]) :
           x \in Range(stream[d]) \/ x.type = "presence" \/ (d = c /\ x.type = "joined")
  BY JoinFacts
<1>2. m \in JoinsIn(inbox, c)
  BY <1>1, HandlerTakes DEF JoinsIn
<1>3. /\ owner[c] # NoOwner /\ m.client = TheOwner(c)
      /\ InSession(TheOwner(c)) => c = transport[TheOwner(c)] /\ m.room = session[TheOwner(c)]
  BY <1>2 DEF NewestInv, JoinsAreMeant
<1>4. UNCHANGED <<session, owner, lives, hydrated>>
  BY DEF clientVars, managerVars
<1> HIDE DEF m
<1>5. \A d \in Conn : joined'[d] = IF d = c THEN <<m.room, m.client>> ELSE joined[d]
  BY <1>1 DEF NewestInv, IsFunction
<1>6. joined'[c] # NotJoined /\ \A d \in Conn : joined[d] # NotJoined => joined'[d] # NotJoined
  BY <1>5 DEF NotJoined
<1>7. \A d \in Conn : joined'[d] = NotJoined => \A x \in Range(stream'[d]) : x.type # "joined"
  BY <1>1, <1>6 DEF PlaceInv
<1>8. \A cl \in Client : cl \in hydrated' => Arrived(cl)'
  BY <1>4, <1>6 DEF PlaceInv, Arrived
<1>9. ASSUME NEW cl \in Client, InSession(cl)', Arrived(cl)', NEW d, At(rooms', session'[cl], cl, d)
      PROVE  OwnerLife(d)' = lives'[cl]
  <2>1. InSession(cl) /\ session'[cl] = session[cl]
    BY <1>4, <1>9 DEF InSession
  <2>2. transport[cl] \in Conn /\ OwnerLife(transport[cl]) = lives[cl]
    BY <2>1, OwnConnection
  <2>3. CASE cl = TheOwner(c)
    <3>1. d = c /\ c = transport[cl]
      BY <1>1, <1>3, <1>9, <2>1, <2>3
    <3> QED
      BY <1>4, <2>2, <3>1 DEF OwnerLife
  <2>4. CASE cl # TheOwner(c)
    <3>1. At(rooms, session[cl], cl, d)
      BY <1>1, <1>3, <1>9, <2>1, <2>4
    <3>2. PICK e \in Conn : owner[e] = <<cl, lives[cl]>> /\ joined'[e] # NotJoined
      BY <1>4, <1>9 DEF Arrived
    <3>3. e # c
      BY <2>4, <3>2 DEF TheOwner
    <3>4. Arrived(cl)
      BY <1>5, <3>2, <3>3 DEF Arrived
    <3> QED
      BY <1>4, <2>1, <3>1, <3>4 DEF PlaceInv, OwnerLife
  <2> QED
    BY <2>3, <2>4
<1> QED
  BY <1>7, <1>8, <1>9 DEF PlaceInv

LEMMA PlaceServer ==
  ASSUME IndInv, NewestInv, CastInv, PlaceInv, NEW c \in Conn, Server(c)
  PROVE  PlaceInv'
<1>1. CASE HandleJoin(c)
  BY <1>1, PlaceJoins DEF Server
<1>2. UNCHANGED <<session, owner, lives, hydrated>>
  BY DEF Server, clientVars, managerVars
<1>3. CASE RejectOperation(c) \/ IgnoreOperation(c) \/ AcceptOperation(c)
  <2> DEFINE m == Head(inbox[c])
  <2>1. m = Head(inbox[c])
    OBVIOUS
  <2> HIDE DEF m
  <2>2. /\ UNCHANGED joined /\ \A r, cl, d : At(rooms', r, cl, d) <=> At(rooms, r, cl, d)
        /\ \A d \in Conn : \A x \in Range(stream'[d]) :
             x \in Range(stream[d]) \/ x.type = "error" \/ x.type = "operation"
    BY <1>3, <2>1, OperationFacts
  <2> QED
    BY <1>2, <2>2, PlaceStays
<1>4. CASE HandleClose(c)
  <2>1. /\ UNCHANGED joined /\ \A r, cl, d : At(rooms', r, cl, d) => At(rooms, r, cl, d)
        /\ \A d \in Conn : \A x \in Range(stream'[d]) : x \in Range(stream[d]) \/ x.type = "presence"
    BY <1>4, CloseFacts
  <2> QED
    BY <1>2, <2>1, PlaceStays
<1> QED
  BY <1>1, <1>3, <1>4 DEF Server, Handle

\* A step that begins a connection, a session, both or none: for every client
\* it leaves session and life, or the client has not come to its next room.
LEMMA PlaceBegins ==
  ASSUME CastInv, PlaceInv, UNCHANGED <<rooms, joined, stream>>, hydrated' \subseteq hydrated,
         NEW new, new \in Conn => joined[new] = NotJoined,
         \A c \in Conn : c # new => owner'[c] = owner[c],
         \A cl \in Client : \/ session'[cl] = session[cl] /\ lives'[cl] = lives[cl]
                            \/ cl \notin hydrated' /\ (~InSession(cl)' \/ ~Arrived(cl)')
  PROVE  PlaceInv'
<1>1. \A c \in Conn : joined[c] # NotJoined => owner'[c] = owner[c]
  OBVIOUS
<1>2. ASSUME NEW cl \in Client, session'[cl] = session[cl], lives'[cl] = lives[cl]
      PROVE  /\ InSession(cl)' <=> InSession(cl)
             /\ Arrived(cl)' <=> Arrived(cl)
             /\ \A c : At(rooms, session[cl], cl, c) => OwnerLife(c)' = OwnerLife(c)
  <2>1. ASSUME NEW c, At(rooms, session[cl], cl, c) PROVE c \in Conn /\ joined[c] # NotJoined
    <3>1. c \in Conn /\ joined[c] = <<session[cl], cl>>
      BY <2>1 DEF CastInv, MembersInv
    <3> QED
      BY <3>1 DEF NotJoined
  <2> QED
    BY <1>1, <1>2, <2>1 DEF InSession, Arrived, OwnerLife
<1>3. ASSUME NEW cl \in Client, cl \in hydrated' PROVE Arrived(cl)'
  BY <1>2, <1>3 DEF PlaceInv
<1>4. ASSUME NEW cl \in Client, InSession(cl)', Arrived(cl)', NEW c, At(rooms', session'[cl], cl, c)
      PROVE  OwnerLife(c)' = lives'[cl]
  <2>1. session'[cl] = session[cl] /\ lives'[cl] = lives[cl]
    BY <1>4
  <2> QED
    BY <1>2, <1>4, <2>1 DEF PlaceInv
<1>5. \A c \in Conn : joined'[c] = NotJoined => \A m \in Range(stream'[c]) : m.type # "joined"
  BY DEF PlaceInv
<1> QED
  BY <1>3, <1>4, <1>5 DEF PlaceInv

LEMMA PlaceStarts ==
  ASSUME IndInv, RoomsInv, NewestInv, CastInv, PlaceInv, NEW cl \in Client, NEW room, StartSession(cl, room)
  PROVE  PlaceInv'
<1>1. PICK new \in Conn :
        /\ Moves(cl, room, new) /\ Waits(new)
        /\ owner'[new] = <<cl, lives[cl] + 1>> /\ \A c \in Conn : c # new => owner'[c] = owner[c]
        /\ \A dl \in Client : lives'[dl] = IF dl = cl THEN lives[cl] + 1 ELSE lives[dl]
  BY StartFacts
<1>2. joined[new] = NotJoined /\ joined' = joined
  BY <1>1, UnusedIsEmpty DEF Moves
<1>3. ~Arrived(cl)'
  <2> SUFFICES ASSUME NEW c \in Conn, owner'[c] = <<cl, lives[cl] + 1>>, joined[c] # NotJoined
               PROVE  FALSE
    BY <1>1, <1>2 DEF Arrived
  <2>1. owner[c] = <<cl, lives[cl] + 1>> /\ owner[c] # NoOwner
    BY <1>1, <1>2 DEF NoOwner
  <2>2. TheOwner(c) = cl /\ OwnerLife(c) = lives[cl] + 1
    BY <2>1 DEF OwnerLife, TheOwner
  <2>3. lives[cl] + 1 \in 1..lives[cl] /\ lives[cl] \in Nat
    BY <2>1, <2>2 DEF CastInv, SteadyInv
  <2> QED
    BY <2>3
<1>4. \A dl \in Client : dl # cl => session'[dl] = session[dl] /\ lives'[dl] = lives[dl]
  BY <1>1 DEF Moves
<1>5. UNCHANGED <<rooms, stream>> /\ hydrated' \subseteq hydrated /\ cl \notin hydrated'
  BY <1>1 DEF Moves
<1> QED
  BY <1>1, <1>2, <1>3, <1>4, <1>5, PlaceBegins

LEMMA PlaceStep ==
  ASSUME ~EarlyEdits, QueueSent, ~LateDelivery, ~Restarts, BaseInv, CastInv, PlaceInv, [Next]_vars
  PROVE  PlaceInv'
<1>1. IndInv /\ LinkInv /\ LogCameFirst /\ RoomsInv /\ ElementsInv /\ NewestInv
  BY DEF BaseInv
<1>2. ASSUME NEW c \in Conn, Server(c) PROVE PlaceInv'
  BY <1>1, <1>2, PlaceServer
<1>3. ASSUME NEW c \in Conn, Message(c) PROVE PlaceInv'
  BY <1>1, <1>3, MessageIsStep, PlaceWithin
<1>4. ASSUME NEW cl \in Client, NEW room \in Room, StartSession(cl, room) PROVE PlaceInv'
  BY <1>1, <1>4, PlaceStarts
<1>5. ASSUME NEW cl \in Client, LeaveSession(cl) PROVE PlaceInv'
  <2>1. Moves(cl, NoRoom, NoConn) /\ UNCHANGED <<lives, owner>>
    BY <1>1, <1>5, LeaveFacts
  <2>2. \A dl \in Client : \/ session'[dl] = session[dl] /\ lives'[dl] = lives[dl]
                           \/ dl \notin hydrated' /\ ~InSession(dl)'
    BY <2>1 DEF Moves, InSession
  <2>3. UNCHANGED <<rooms, joined, stream>> /\ hydrated' \subseteq hydrated
    BY <2>1 DEF Moves
  <2> QED
    BY <2>1, <2>2, <2>3, PlaceBegins, NamesAssumption
<1>6. ASSUME NEW cl \in Client, NEW dep \in {Root} \cup OpIds(elements[cl]), Edit(cl, dep) PROVE PlaceInv'
  BY <1>1, <1>6, EditIsStep, PlaceWithin
<1>7. ASSUME NEW cl \in Client, SocketOpens(cl) PROVE PlaceInv'
  <2>1. UNCHANGED <<rooms, joined, stream, session, owner, lives, hydrated>>
    BY <1>7 DEF SocketOpens, Open, clientVars, managerVars
  <2> QED
    BY <2>1, PlaceStays
<1>8. ASSUME NEW cl \in Client, SocketCloses(cl) PROVE PlaceInv'
  <2>1. /\ UNCHANGED <<rooms, joined, session, owner, lives, hydrated>>
        /\ \A c \in Conn : Range(stream'[c]) \subseteq Range(stream[c])
    BY <1>1, <1>8, BreakFacts
  <2> QED
    BY <2>1, PlaceStays
<1>9. ASSUME NEW cl \in Client, Reconnect(cl) PROVE PlaceInv'
  <2>1. PICK new \in Conn :
          /\ Waits(new) /\ \A c \in Conn : c # new => owner'[c] = owner[c]
          /\ UNCHANGED <<rooms, joined, stream, session, lives, hydrated>>
    BY <1>1, <1>9, ReconnectFacts
  <2>2. joined[new] = NotJoined
    BY <1>1, <2>1, UnusedIsEmpty
  <2> QED
    BY <2>1, <2>2, PlaceBegins
<1>10. ASSUME NEW cl \in Client, NEW i \in DOMAIN rendering[cl], RenderDone(cl, i) PROVE PlaceInv'
  BY <1>1, <1>10, RenderIsStep, PlaceWithin
<1>11. ~ServerRestarts
  BY DEF ServerRestarts
<1>12. CASE UNCHANGED vars
  <2>1. UNCHANGED <<rooms, joined, stream, session, owner, lives, hydrated>>
    BY <1>12 DEF vars, serverVars, connVars, clientVars, managerVars
  <2> QED
    BY <2>1, PlaceStays
<1> QED
  BY <1>2, <1>3, <1>4, <1>5, <1>6, <1>7, <1>8, <1>9, <1>10, <1>11, <1>12 DEF Next

-----------------------------------------------------------------------------
(* Where a Steady client is.                                               *)

\* The last connection of a room that has a Steady client does not close, so the
\* log of the room stays.
LEMMA LastingLogStays ==
  ASSUME ~SlowServer, BaseInv, CastInv, NEW c \in Conn, HandleClose(c), NEW room \in LastingRooms
  PROVE  Log(room)' = Log(room)
<1>1. IndInv /\ NewestInv /\ RoomsInv
  BY DEF BaseInv
<1>2. /\ Reads(c, "close")
      /\ \/ Log(room)' = Log(room)
         \/ joined[c] # NotJoined /\ \A cl, d : At(rooms, room, cl, d) => d = c
  BY <1>1, CloseFacts
<1>3. CASE joined[c] # NotJoined /\ \A cl, d : At(rooms, room, cl, d) => d = c
  <2>1. status[c] # "open" /\ ~Waits(c)
    <3>1. Head(inbox[c]) \in Range(inbox[c]) /\ Head(inbox[c]).type = "close" /\ ~Waits(c)
      BY <1>1, <1>2, HandlerForgets
    <3> QED
      BY <1>1, <3>1 DEF NewestInv, NoCloseYet
  <2>2. owner[c] # NoOwner
    BY <1>3 DEF CastInv, MembersInv
  <2>3. TheOwner(c) \in Client
    BY <1>1, <2>2 DEF IndInv, FunctionsOK, TheOwner
  <2>4. TheOwner(c) \notin Steady
    <3> SUFFICES ASSUME TheOwner(c) \in Steady PROVE FALSE
      OBVIOUS
    <3>1. c = transport[TheOwner(c)]
      BY <2>2 DEF CastInv, SteadyInv
    <3>2. InSession(TheOwner(c))
      BY <1>1, <2>3, <3>1, NamesAssumption DEF IndInv, TypeOK
    <3>3. status[c] \in {"connecting", "open"}
      BY <3>1, <3>2 DEF CastInv, SteadyInv
    <3> QED
      BY <2>1, <3>3 DEF Waits
  <2>5. lives[TheOwner(c)] > 0
    BY <2>2, <2>3 DEF CastInv, SteadyInv
  <2>6. PICK st \in Steady : session[st] = room
    BY DEF LastingRooms
  <2>7. st \in Client /\ IsOpen(st) /\ joined[transport[st]] # NotJoined
    BY <2>3, <2>4, <2>5, EnvironmentAssumption DEF CastInv, SteadyInv
  <2>8. At(rooms, room, st, transport[st])
    BY <1>1, <2>6, <2>7, NewestIsAt
  <2>9. transport[st] = c
    BY <1>3, <2>8
  <2> QED
    BY <2>1, <2>7, <2>9 DEF IsOpen
<1> QED
  BY <1>2, <1>3

ByOf(cl, ops) == {o \in ops : o.id[1] = cl}

\* What a client of a room with this log holds, and reads, is in the log, but
\* for operations of its own in a session that was given the log; such a
\* session holds all of its own that the log has, and what it sends or queues
\* it holds.
Holds(cl, log) ==
  /\ \A o \in known[cl] : o \in log \/ (cl \in hydrated /\ o.id[1] = cl)
  /\ \A m \in Range(stream[transport[cl]]) :
       /\ Told(m) \subseteq log
       /\ m.type = "joined" /\ cl \notin hydrated => ByOf(cl, log) \subseteq Told(m)
  /\ cl \in hydrated => ByOf(cl, log) \subseteq known[cl]
  /\ Range(offlineQueue[cl]) \subseteq known[cl]
  /\ \A c \in Conn : owner[c] = <<cl, lives[cl]>> =>
       \A m \in Range(inbox[c]) : m.type = "operation" => m.op \in known[cl]

HeldInv == \A cl \in Client : session[cl] \in LastingRooms => Holds(cl, Log(session[cl]))

\* No id names two operations in a log, or in what a session of a lasting room
\* has seen.
IdsInv ==
  /\ \A room : UniqueIds(Log(room))
  /\ \A cl \in Client : session[cl] \in LastingRooms => UniqueIds(known[cl])

LogInv == PlaceInv /\ IdsInv /\ HeldInv

LEMMA LogInit == Init => LogInv
<1> SUFFICES ASSUME Init PROVE LogInv
  OBVIOUS
<1>1. /\ rooms = [room \in {} |-> NewRoom] /\ session = [cl \in Client |-> NoRoom]
      /\ known = [cl \in Client |-> {}]
  BY DEF Init, ServerInit
<1>2. \A room : Log(room) = {}
  BY <1>1, EmptyList DEF Log, RoomOf, NewRoom
<1>3. IdsInv
  BY <1>1, <1>2 DEF IdsInv, UniqueIds
<1>4. HeldInv
  BY <1>1 DEF HeldInv, LastingRooms
<1> QED
  BY <1>3, <1>4, PlaceInit DEF LogInv

LEMMA IdsWithin ==
  ASSUME IdsInv, NoneWaits, NEW cl \in Client, NEW heard, NEW new, SessionStep(cl, heard, new)
  PROVE  IdsInv'
<1>1. rooms' = rooms /\ session' = session /\ LastingRooms' = LastingRooms
  BY DEF SessionStep, LastingRooms
<1>2. \A room : UniqueIds(Log(room)')
  BY <1>1 DEF IdsInv, Log, RoomOf
<1>3. \A dl \in Client : session[dl] \in LastingRooms => UniqueIds(known'[dl])
  BY DEF IdsInv, NoneWaits, SessionStep, Hears, Receives
<1> QED
  BY <1>1, <1>2, <1>3 DEF IdsInv, UniqueIds

LEMMA HeldWithin ==
  ASSUME IndInv, RoomsInv, ElementsInv, LogInv, NEW cl \in Client, NEW heard, NEW new, SessionStep(cl, heard, new)
  PROVE  HeldInv'
<1>1. UNCHANGED <<rooms, session, transport, owner, lives>>
  BY DEF SessionStep
<1>2. LastingRooms' = LastingRooms
  BY <1>1 DEF LastingRooms
<1>3. \A room : Log(room)' = Log(room)
  BY <1>1 DEF Log, RoomOf
<1> SUFFICES ASSUME NEW dl \in Client, session[dl] \in LastingRooms, NEW log, log = Log(session[dl])
             PROVE  Holds(dl, log)'
  BY <1>1, <1>2, <1>3 DEF HeldInv
<1>4. Holds(dl, log)
  BY DEF LogInv, HeldInv
<1>5. InSession(dl)
  BY DEF LastingRooms, InSession
<1>6. transport[dl] \in Conn /\ owner[transport[dl]] = <<dl, lives[dl]>>
  BY <1>5, OwnConnection
<1>7. \A c \in Conn : Range(stream'[c]) \subseteq Range(stream[c])
  BY StreamsShrink
<1>8. CASE dl # cl
  <2>1. /\ known'[dl] = known[dl] /\ offlineQueue'[dl] = offlineQueue[dl]
        /\ dl \in hydrated' <=> dl \in hydrated
    BY <1>8 DEF SessionStep, Hears, Receives, Writes
  <2>2. \A c \in Conn : owner[c] = <<dl, lives[dl]>> =>
          \A m \in Range(inbox'[c]) : m.type = "operation" => m \in Range(inbox[c])
    <3> SUFFICES ASSUME NEW c \in Conn, owner[c] = <<dl, lives[dl]>>, NEW m \in Range(inbox'[c]),
                        m \notin Range(inbox[c])
                 PROVE  FALSE
      OBVIOUS
    <3>1. IsOpen(cl) /\ c = transport[cl]
      BY DEF SessionStep, Writes, Grows
    <3>2. owner[c] = <<cl, lives[cl]>>
      BY <3>1 DEF IsOpen, IndInv, TypeOK
    <3> QED
      BY <1>8, <3>2
  <2> QED
    BY <1>1, <1>4, <1>6, <1>7, <2>1, <2>2 DEF Holds
<1>9. CASE dl = cl
  <2>1. /\ heard \subseteq Range(stream[transport[dl]])
        /\ known[dl] \cup new \subseteq known'[dl]
        /\ known'[dl] \subseteq known[dl] \cup new \cup UNION {Told(m) : m \in heard}
        /\ \A m \in heard : OpIds(Told(m)) \subseteq OpIds(known'[dl] \ new)
        /\ hydrated \subseteq hydrated'
        /\ dl \in hydrated' => dl \in hydrated \/ \E m \in heard : m.type = "joined"
        /\ new # {} => dl \in hydrated'
    BY <1>9 DEF SessionStep, Hears, Receives
  <2>2. /\ \A o \in new : o.id[1] = dl
        /\ Range(offlineQueue'[dl]) \subseteq new \cup Range(offlineQueue[dl])
        /\ \A c \in Conn : \A m \in Range(inbox'[c]) :
             m.type = "operation" => m \in Range(inbox[c]) \/ m.op \in new \cup Range(offlineQueue[dl])
    BY <1>9, NewOpIsNew DEF SessionStep, Writes, Grows
  <2>3. UNION {Told(m) : m \in heard} \subseteq log
    BY <1>4, <2>1 DEF Holds
  <2>4. \A o \in known'[dl] : o \in log \/ (dl \in hydrated' /\ o.id[1] = dl)
    BY <1>4, <2>1, <2>2, <2>3 DEF Holds
  <2>5. ASSUME dl \in hydrated', NEW o \in ByOf(dl, log) PROVE o \in known'[dl]
    <3>1. CASE dl \in hydrated
      BY <1>4, <2>1, <2>5, <3>1 DEF Holds
    <3>2. CASE dl \notin hydrated
      <4>1. PICK m \in heard : m.type = "joined"
        BY <2>1, <2>5, <3>2
      <4>2. o \in Told(m)
        BY <1>4, <2>1, <2>5, <3>2, <4>1 DEF Holds
      <4>3. PICK p \in known'[dl] \ new : p.id = o.id
        BY <2>1, <4>1, <4>2 DEF OpIds
      <4>4. p \in log
        BY <1>4, <2>1, <2>3, <3>2, <4>3 DEF Holds
      <4>5. UniqueIds(log) /\ o \in log
        BY DEF LogInv, IdsInv, ByOf
      <4> QED
        BY <4>3, <4>4, <4>5 DEF UniqueIds
    <3> QED
      BY <3>1, <3>2
  <2>6. Range(offlineQueue'[dl]) \subseteq known'[dl]
    BY <1>4, <2>1, <2>2 DEF Holds
  <2>7. \A c \in Conn : owner[c] = <<dl, lives[dl]>> =>
          \A m \in Range(inbox'[c]) : m.type = "operation" => m.op \in known'[dl]
    BY <1>4, <2>1, <2>2 DEF Holds
  <2>8. \A m \in Range(stream'[transport[dl]]) :
          /\ Told(m) \subseteq log
          /\ m.type = "joined" /\ dl \notin hydrated' => ByOf(dl, log) \subseteq Told(m)
    BY <1>4, <1>6, <1>7, <2>1 DEF Holds
  <2> QED
    BY <1>1, <2>4, <2>5, <2>6, <2>7, <2>8 DEF Holds
<1> QED
  BY <1>8, <1>9

\* What the server tells, and an operation it takes, keep what the clients hold
\* in the log; for its author that operation is one of the session that is.
LEMMA HoldsOn ==
  ASSUME NEW cl \in Client, NEW log, NEW more, Holds(cl, log), log \subseteq more,
         transport[cl] \in Conn, UNCHANGED <<transport, owner, lives, known, offlineQueue, hydrated>>,
         \A c \in Conn : Range(inbox'[c]) \subseteq Range(inbox[c]),
         \A m \in Range(stream'[transport[cl]]) :
           \/ m \in Range(stream[transport[cl]])
           \/ Told(m) \subseteq more /\ (m.type = "joined" => ByOf(cl, more) \subseteq Told(m)),
         cl \in hydrated => ByOf(cl, more) \subseteq known[cl],
         cl \notin hydrated /\ (\E m \in Range(stream[transport[cl]]) : m.type = "joined") =>
           ByOf(cl, more) \subseteq log
  PROVE  Holds(cl, more)'
<1>1. \A o \in known'[cl] : o \in more \/ (cl \in hydrated' /\ o.id[1] = cl)
  BY DEF Holds
<1>2. ASSUME NEW m \in Range(stream'[transport'[cl]])
      PROVE  /\ Told(m) \subseteq more
             /\ m.type = "joined" /\ cl \notin hydrated' => ByOf(cl, more) \subseteq Told(m)
  <2>1. CASE m \in Range(stream[transport[cl]])
    <3>1. /\ Told(m) \subseteq log
          /\ m.type = "joined" /\ cl \notin hydrated => ByOf(cl, log) \subseteq Told(m)
      BY <2>1 DEF Holds
    <3>2. ByOf(cl, more) \subseteq log => ByOf(cl, more) \subseteq ByOf(cl, log)
      BY DEF ByOf
    <3> QED
      BY <2>1, <3>1, <3>2
  <2>2. CASE m \notin Range(stream[transport[cl]])
    BY <1>2, <2>2
  <2> QED
    BY <2>1, <2>2
<1>3. \A c \in Conn : owner'[c] = <<cl, lives'[cl]>> =>
        \A m \in Range(inbox'[c]) : m.type = "operation" => m.op \in known'[cl]
  BY DEF Holds
<1>4. cl \in hydrated' => ByOf(cl, more) \subseteq known'[cl]
  OBVIOUS
<1>5. Range(offlineQueue'[cl]) \subseteq known'[cl]
  BY DEF Holds
<1> QED
  BY <1>1, <1>2, <1>3, <1>4, <1>5 DEF Holds

\* A handler that changes no log and tells no operations but a log to who joins.
LEMMA HeldTold ==
  ASSUME IndInv, LogInv, NEW c \in Conn, NEW type, Reads(c, type), UNCHANGED clientVars,
         \A room \in LastingRooms : Log(room)' = Log(room),
         \A cl \in Client : session[cl] \in LastingRooms =>
           \A m \in Range(stream'[transport[cl]]) :
             \/ m \in Range(stream[transport[cl]]) \/ (Told(m) = {} /\ m.type # "joined")
             \/ m.type = "joined" /\ Told(m) = Log(session[cl])
  PROVE  HeldInv'
<1>1. UNCHANGED <<session, transport, owner, lives, known, offlineQueue, hydrated>>
  BY DEF clientVars, crdtVars, managerVars
<1>2. LastingRooms' = LastingRooms
  BY <1>1 DEF LastingRooms
<1>3. \A d \in Conn : Range(inbox'[d]) \subseteq Range(inbox[d])
  BY HandlerTakes
<1> SUFFICES ASSUME NEW cl \in Client, session[cl] \in LastingRooms, NEW log, log = Log(session[cl])
             PROVE  Holds(cl, log)'
  BY <1>1, <1>2 DEF HeldInv
<1>4. Holds(cl, log)
  BY DEF LogInv, HeldInv
<1>5. transport[cl] \in Conn
  BY OwnConnection DEF LastingRooms, InSession
<1>6. \A ops : ByOf(cl, ops) \subseteq ops
  BY DEF ByOf
<1>7. \A m \in Range(stream'[transport[cl]]) :
        \/ m \in Range(stream[transport[cl]])
        \/ Told(m) \subseteq log /\ (m.type = "joined" => ByOf(cl, log) \subseteq Told(m))
  BY <1>6
<1>8. cl \in hydrated => ByOf(cl, log) \subseteq known[cl]
  BY <1>4 DEF Holds
<1> QED
  BY <1>1, <1>3, <1>4, <1>5, <1>6, <1>7, <1>8, HoldsOn

LEMMA IdsKept ==
  ASSUME LogInv, UNCHANGED <<known, session>>, \A room : Log(room)' = Log(room) \/ Log(room)' = {}
  PROVE  IdsInv'
<1>1. \A room : UniqueIds(Log(room)')
  BY DEF LogInv, IdsInv, UniqueIds
<1> QED
  BY <1>1 DEF LogInv, IdsInv, UniqueIds, LastingRooms

LEMMA LogJoins ==
  ASSUME IndInv, NewestInv, LogInv, NEW c \in Conn, HandleJoin(c), UNCHANGED clientVars
  PROVE  IdsInv' /\ HeldInv'
<1> DEFINE m == Head(inbox[c])
<1>1. /\ Reads(c, "join")
      /\ \A r : Log(r)' = Log(r)
      /\ \A d \in Conn : \A x \in Range(stream'[d]) :
           \/ x \in Range(stream[d]) \/ x.type = "presence"
           \/ d = c /\ x.type = "joined" /\ x.opLog = RoomOf(m.room).log
  BY JoinFacts
<1>2. m \in JoinsIn(inbox, c)
  BY <1>1, HandlerTakes DEF JoinsIn
<1>3. InSession(TheOwner(c)) => m.room = session[TheOwner(c)]
  BY <1>2 DEF NewestInv, JoinsAreMeant
<1> HIDE DEF m
<1>4. ASSUME NEW cl \in Client, session[cl] \in LastingRooms, NEW x \in Range(stream'[transport[cl]])
      PROVE  \/ x \in Range(stream[transport[cl]]) \/ (Told(x) = {} /\ x.type # "joined")
             \/ x.type = "joined" /\ Told(x) = Log(session[cl])
  <2>1. InSession(cl)
    BY <1>4 DEF LastingRooms, InSession
  <2>2. transport[cl] \in Conn /\ TheOwner(transport[cl]) = cl
    BY <2>1, OwnConnection
  <2>3. CASE x.type = "presence"
    BY <2>3 DEF Told
  <2>4. CASE transport[cl] = c /\ x.type = "joined" /\ x.opLog = RoomOf(m.room).log
    <3>1. m.room = session[cl]
      BY <1>3, <2>1, <2>2, <2>4
    <3> QED
      BY <2>4, <3>1 DEF Told, Log
  <2> QED
    BY <1>1, <1>4, <2>2, <2>3, <2>4
<1>5. HeldInv'
  BY <1>1, <1>4, HeldTold
<1>6. UNCHANGED <<known, session>>
  BY DEF clientVars, crdtVars, managerVars
<1>7. IdsInv'
  BY <1>1, <1>6, IdsKept
<1> QED
  BY <1>5, <1>7

LEMMA LogCloses ==
  ASSUME ~SlowServer, BaseInv, CastInv, LogInv, NEW c \in Conn, HandleClose(c), UNCHANGED clientVars
  PROVE  IdsInv' /\ HeldInv'
<1>1. IndInv
  BY DEF BaseInv
<1>2. /\ Reads(c, "close")
      /\ \A r : Log(r)' = Log(r) \/ Log(r)' = {}
      /\ \A d \in Conn : \A x \in Range(stream'[d]) : x \in Range(stream[d]) \/ x.type = "presence"
  BY <1>1, CloseFacts
<1>3. \A room \in LastingRooms : Log(room)' = Log(room)
  BY LastingLogStays
<1>4. \A cl \in Client : session[cl] \in LastingRooms => transport[cl] \in Conn
  BY <1>1, OwnConnection DEF LastingRooms, InSession
<1>5. \A x : x.type = "presence" => Told(x) = {} /\ x.type # "joined"
  BY DEF Told
<1>6. HeldInv'
  BY <1>1, <1>2, <1>3, <1>4, <1>5, HeldTold
<1>7. UNCHANGED <<known, session>>
  BY DEF clientVars, crdtVars, managerVars
<1>8. IdsInv'
  BY <1>2, <1>7, IdsKept
<1> QED
  BY <1>6, <1>8

LEMMA LogOperates ==
  ASSUME BaseInv, CastInv, LogInv, NEW c \in Conn,
         RejectOperation(c) \/ IgnoreOperation(c) \/ AcceptOperation(c), UNCHANGED clientVars
  PROVE  IdsInv' /\ HeldInv'
<1>1. IndInv /\ RoomsInv
  BY DEF BaseInv
<1> DEFINE msg == Head(inbox[c])
<1>2. PICK m : m = msg
  OBVIOUS
<1>3. /\ Reads(c, "operation")
      /\ \A r : \/ Log(r)' = Log(r)
                \/ /\ r = m.room /\ At(rooms, r, m.client, c)
                   /\ Log(r)' = Log(r) \cup {m.op} /\ \A o \in Log(r) : o.id # m.op.id
      /\ \A d \in Conn : \A x \in Range(stream'[d]) :
           \/ x \in Range(stream[d]) \/ x.type = "error"
           \/ /\ x.type = "operation" /\ x.op = m.op /\ m.op \in Log(m.room)'
              /\ m.room \in DOMAIN rooms /\ d \in PeerConns(rooms[m.room].peers)
  BY <1>1, <1>2, OperationFacts
<1>4. /\ m \in Range(inbox[c]) /\ m.type = "operation"
      /\ \A d \in Conn : Range(inbox'[d]) \subseteq Range(inbox[d])
  BY <1>1, <1>2, <1>3, HandlerTakes
<1>5. owner[c] # NoOwner /\ m.client = TheOwner(c) /\ m.op.id[1] = TheOwner(c)
  BY <1>4 DEF CastInv, AuthorsInv
<1>6. UNCHANGED <<session, transport, owner, lives, known, offlineQueue, hydrated>>
  BY DEF clientVars, crdtVars, managerVars
<1>7. LastingRooms' = LastingRooms
  BY <1>6 DEF LastingRooms
<1> HIDE DEF msg
<1>8. IdsInv'
  <2>1. ASSUME NEW r PROVE UniqueIds(Log(r)')
    <3>1. UniqueIds(Log(r))
      BY DEF LogInv, IdsInv
    <3>2. CASE Log(r)' = Log(r)
      BY <3>1, <3>2
    <3>3. CASE Log(r)' = Log(r) \cup {m.op} /\ \A o \in Log(r) : o.id # m.op.id
      BY <3>1, <3>3 DEF UniqueIds
    <3> QED
      BY <1>3, <3>2, <3>3
  <2> QED
    BY <1>6, <1>7, <2>1 DEF LogInv, IdsInv, UniqueIds
<1>9. HeldInv'
  <2> SUFFICES ASSUME NEW cl \in Client, session[cl] \in LastingRooms, NEW room, room = session[cl],
                      NEW log, log = Log(room), NEW more, more = Log(room)'
               PROVE  Holds(cl, more)'
    BY <1>6, <1>7 DEF HeldInv
  <2>1. Holds(cl, log)
    BY DEF LogInv, HeldInv
  <2>2. InSession(cl) /\ transport[cl] \in Conn
    BY <1>1, OwnConnection DEF LastingRooms, InSession
  <2>3. \/ more = log
        \/ /\ room = m.room /\ At(rooms, room, m.client, c)
           /\ more = log \cup {m.op} /\ \A o \in log : o.id # m.op.id
    BY <1>3
  <2>4. \A x \in Range(stream'[transport[cl]]) :
          \/ x \in Range(stream[transport[cl]])
          \/ Told(x) \subseteq more /\ (x.type = "joined" => ByOf(cl, more) \subseteq Told(x))
    <3> SUFFICES ASSUME NEW x \in Range(stream'[transport[cl]]), x \notin Range(stream[transport[cl]])
                 PROVE  Told(x) \subseteq more /\ x.type # "joined"
      OBVIOUS
    <3>1. CASE x.type = "error"
      BY <3>1 DEF Told
    <3>2. CASE /\ x.type = "operation" /\ x.op = m.op /\ m.op \in Log(m.room)'
               /\ m.room \in DOMAIN rooms /\ transport[cl] \in PeerConns(rooms[m.room].peers)
      <4>1. m.room = room
        BY <1>1, <2>2, <3>2 DEF RoomsInv
      <4> QED
        BY <3>2, <4>1 DEF Told
    <3> QED
      BY <1>3, <2>2, <3>1, <3>2
  \* The operation of an author whose session has come to the room is its own.
  <2>5. ASSUME more # log, m.client = cl, Arrived(cl) PROVE m.op \in known[cl] /\ m.op \notin log
    <3>1. At(rooms, session[cl], cl, c)
      BY <2>3, <2>5
    <3>2. OwnerLife(c) = lives[cl]
      BY <2>2, <2>5, <3>1 DEF LogInv, PlaceInv
    <3>3. owner[c] = <<cl, lives[cl]>>
      <4>1. owner[c] = <<TheOwner(c), OwnerLife(c)>>
        BY <1>5 DEF CastInv, SteadyInv
      <4> QED
        BY <1>5, <2>5, <3>2, <4>1
    <3> QED
      BY <1>4, <2>1, <2>3, <2>5, <3>3 DEF Holds
  <2>6. cl \in hydrated => ByOf(cl, more) \subseteq known[cl]
    <3> SUFFICES ASSUME cl \in hydrated, NEW o \in ByOf(cl, more) PROVE o \in known[cl]
      OBVIOUS
    <3>1. Arrived(cl)
      BY DEF LogInv, PlaceInv
    <3>2. CASE o \in log
      BY <2>1, <3>2 DEF Holds, ByOf
    <3>3. CASE o \notin log
      <4>1. o = m.op /\ more # log /\ m.client = cl
        BY <1>5, <2>3, <3>3 DEF ByOf
      <4> QED
        BY <2>5, <3>1, <4>1
    <3> QED
      BY <3>2, <3>3
  <2>7. ASSUME cl \notin hydrated, NEW x \in Range(stream[transport[cl]]), x.type = "joined"
        PROVE  ByOf(cl, more) \subseteq log
    <3> SUFFICES ASSUME NEW o \in ByOf(cl, more), o \notin log PROVE FALSE
      OBVIOUS
    <3>1. Arrived(cl)
      BY <1>1, <2>2, <2>7, OwnConnection DEF LogInv, PlaceInv, Arrived
    <3>2. o = m.op /\ more # log /\ m.client = cl
      BY <1>5, <2>3 DEF ByOf
    <3>3. m.op \in known[cl] /\ m.op \notin log
      BY <2>5, <3>1, <3>2
    <3> QED
      BY <2>1, <2>7, <3>3 DEF Holds
  <2> QED
    BY <1>4, <1>6, <2>1, <2>2, <2>3, <2>4, <2>6, <2>7, HoldsOn
<1> QED
  BY <1>8, <1>9

LEMMA LogServer ==
  ASSUME ~SlowServer, BaseInv, CastInv, LogInv, NEW c \in Conn, Server(c)
  PROVE  IdsInv' /\ HeldInv'
<1>1. IndInv /\ NewestInv
  BY DEF BaseInv
<1>2. UNCHANGED clientVars
  BY DEF Server
<1>3. CASE HandleJoin(c)
  BY <1>1, <1>2, <1>3, LogJoins
<1>4. CASE RejectOperation(c) \/ IgnoreOperation(c) \/ AcceptOperation(c)
  BY <1>2, <1>4, LogOperates
<1>5. CASE HandleClose(c)
  BY <1>2, <1>5, LogCloses
<1> QED
  BY <1>3, <1>4, <1>5 DEF Server, Handle

\* A step that leaves what a session holds alone, and puts no operation in the
\* inbox of a connection; and one that begins a session.
Quiet(cl) ==
  /\ known'[cl] = known[cl] /\ offlineQueue'[cl] = offlineQueue[cl] /\ lives'[cl] = lives[cl]
  /\ (cl \in hydrated') = (cl \in hydrated)
  /\ Range(stream'[transport'[cl]]) \subseteq Range(stream[transport[cl]])
  /\ \A c \in Conn : owner'[c] = <<cl, lives[cl]>> =>
       \A m \in Range(inbox'[c]) : m.type = "operation" => owner[c] = <<cl, lives[cl]>> /\ m \in Range(inbox[c])

Begun(cl) ==
  /\ known'[cl] = {} /\ Range(offlineQueue'[cl]) = {} /\ cl \notin hydrated'
  /\ Range(stream'[transport'[cl]]) = {}
  /\ \A c \in Conn : owner'[c] = <<cl, lives'[cl]>> => \A m \in Range(inbox'[c]) : m.type # "operation"

LEMMA HoldsStill ==
  ASSUME NEW cl \in Client, NEW log, (Holds(cl, log) /\ Quiet(cl)) \/ Begun(cl)
  PROVE  Holds(cl, log)'
<1>1. CASE Begun(cl)
  BY <1>1 DEF Begun, Holds
<1>2. CASE Holds(cl, log) /\ Quiet(cl)
  <2>1. \A o \in known'[cl] : o \in log \/ (cl \in hydrated' /\ o.id[1] = cl)
    BY <1>2 DEF Holds, Quiet
  <2>2. \A m \in Range(stream'[transport'[cl]]) :
          /\ Told(m) \subseteq log
          /\ m.type = "joined" /\ cl \notin hydrated' => ByOf(cl, log) \subseteq Told(m)
    BY <1>2 DEF Holds, Quiet
  <2>3. \A c \in Conn : owner'[c] = <<cl, lives'[cl]>> =>
          \A m \in Range(inbox'[c]) : m.type = "operation" => m.op \in known'[cl]
    BY <1>2 DEF Holds, Quiet
  <2>4. /\ cl \in hydrated' => ByOf(cl, log) \subseteq known'[cl]
        /\ Range(offlineQueue'[cl]) \subseteq known'[cl]
    BY <1>2 DEF Holds, Quiet
  <2> QED
    BY <2>1, <2>2, <2>3, <2>4 DEF Holds
<1> QED
  BY <1>1, <1>2

LEMMA LogStays ==
  ASSUME LogInv, rooms' = rooms,
         \A cl \in Client : session'[cl] \in LastingRooms' =>
           \/ session'[cl] = session[cl] /\ session[cl] \in LastingRooms /\ Quiet(cl)
           \/ Begun(cl)
  PROVE  IdsInv' /\ HeldInv'
<1>1. \A room : Log(room)' = Log(room)
  BY DEF Log, RoomOf
<1>2. \A room : UniqueIds(Log(room)')
  BY <1>1 DEF LogInv, IdsInv
<1>3. \A cl \in Client : session'[cl] \in LastingRooms' => UniqueIds(known'[cl])
  BY DEF LogInv, IdsInv, UniqueIds, Quiet, Begun
<1>4. IdsInv'
  BY <1>2, <1>3 DEF IdsInv, UniqueIds
<1>5. ASSUME NEW cl \in Client, session'[cl] \in LastingRooms', NEW log, log = Log(session'[cl])
      PROVE  Holds(cl, log)'
  <2>1. CASE session'[cl] = session[cl] /\ session[cl] \in LastingRooms /\ Quiet(cl)
    <3>1. Holds(cl, log)
      BY <1>5, <2>1 DEF LogInv, HeldInv
    <3> QED
      BY <2>1, <3>1, HoldsStill
  <2>2. CASE Begun(cl)
    BY <2>2, HoldsStill
  <2> QED
    BY <1>5, <2>1, <2>2
<1>6. HeldInv'
  BY <1>1, <1>5 DEF HeldInv
<1> QED
  BY <1>4, <1>6

LEMMA LogOpens ==
  ASSUME IndInv, NewestInv, LogInv, NEW cl \in Client, SocketOpens(cl)
  PROVE  IdsInv' /\ HeldInv'
<1> DEFINE t == transport[cl]
           join == JoinMsg(session[cl], cl)
<1>1. /\ inbox' = [inbox EXCEPT ![t] = <<join>>]
      /\ UNCHANGED <<rooms, joined, stream, session, transport, owner, lives, known, offlineQueue, hydrated>>
  BY DEF SocketOpens, Open, clientVars, managerVars, crdtVars
<1>2. join.type = "join" /\ Range(<<join>>) = {join}
  BY Ranges DEF JoinMsg
<1> HIDE DEF join, t
<1>3. \A c \in Conn : inbox'[c] = IF c = t THEN <<join>> ELSE inbox[c]
  BY <1>1 DEF IndInv, FunctionsOK, IsFunction
<1>4. \A dl \in Client : Quiet(dl)
  BY <1>1, <1>2, <1>3 DEF Quiet
<1>5. LastingRooms' = LastingRooms
  BY <1>1 DEF LastingRooms
<1> QED
  BY <1>1, <1>4, <1>5, LogStays

LEMMA LogBreaks ==
  ASSUME IndInv, LogInv, NEW cl \in Client, SocketCloses(cl)
  PROVE  IdsInv' /\ HeldInv'
<1>1. /\ UNCHANGED <<rooms, session, transport, owner, lives, known, offlineQueue, hydrated>>
      /\ \A c \in Conn :
           /\ Range(inbox'[c]) \subseteq Range(inbox[c]) \cup {CloseMsg}
           /\ Range(stream'[c]) \subseteq Range(stream[c])
  BY BreakFacts
<1>2. CloseMsg.type = "close"
  BY DEF CloseMsg
<1>3. LastingRooms' = LastingRooms
  BY <1>1 DEF LastingRooms
<1>4. ASSUME NEW dl \in Client, session[dl] \in LastingRooms PROVE Quiet(dl)
  <2>1. transport[dl] \in Conn
    BY <1>4, OwnConnection DEF LastingRooms, InSession
  <2> QED
    BY <1>1, <1>2, <2>1 DEF Quiet
<1> QED
  BY <1>1, <1>3, <1>4, LogStays

LEMMA LogReconnects ==
  ASSUME IndInv, LinkInv, RoomsInv, NewestInv, CastInv, LogInv, NEW cl \in Client, Reconnect(cl)
  PROVE  IdsInv' /\ HeldInv'
<1>1. PICK new \in Conn :
        /\ InSession(cl) /\ Waits(new) /\ transport'[cl] = new
        /\ \A dl \in Client : dl # cl => transport'[dl] = transport[dl]
        /\ \A c \in Conn : c # new => owner'[c] = owner[c]
        /\ UNCHANGED <<rooms, inbox, stream, session, lives, known, offlineQueue, hydrated>>
  BY ReconnectFacts
<1>2. Range(inbox[new]) = {} /\ Range(stream[new]) = {}
  BY <1>1, UnusedIsEmpty
<1>3. LastingRooms' = LastingRooms
  BY <1>1 DEF LastingRooms
<1>4. ASSUME NEW dl \in Client PROVE Quiet(dl)
  <2>1. Range(stream'[transport'[dl]]) \subseteq Range(stream[transport[dl]])
    BY <1>1, <1>2
  <2>2. \A c \in Conn : owner'[c] = <<dl, lives[dl]>> =>
          \A m \in Range(inbox'[c]) : m.type = "operation" => owner[c] = <<dl, lives[dl]>> /\ m \in Range(inbox[c])
    BY <1>1, <1>2
  <2> QED
    BY <1>1, <2>1, <2>2 DEF Quiet
<1> QED
  BY <1>1, <1>3, <1>4, LogStays

\* Who stays when another client changes its session.
LEMMA QuietWhenMoved ==
  ASSUME IndInv, RoomsInv, NewestInv, NEW cl \in Client, NEW room, NEW new, Moves(cl, room, new),
         new \in Conn => Waits(new),
         \A c \in Conn : c # new => owner'[c] = owner[c],
         NEW dl \in Client, dl # cl, lives'[dl] = lives[dl]
  PROVE  session'[dl] = session[dl] /\ known'[dl] = known[dl] /\ Quiet(dl)
<1>1. CloseMsg.type = "close"
  BY DEF CloseMsg
<1>2. new \in Conn => Range(inbox[new]) = {}
  BY UnusedIsEmpty
<1>3. /\ session'[dl] = session[dl] /\ transport'[dl] = transport[dl] /\ known'[dl] = known[dl]
      /\ offlineQueue'[dl] = offlineQueue[dl] /\ hydrated' = hydrated \ {cl} /\ stream' = stream
      /\ \A c \in Conn : Range(inbox'[c]) \subseteq Range(inbox[c]) \cup {CloseMsg}
  BY DEF Moves
<1>4. ASSUME NEW c \in Conn, owner'[c] = <<dl, lives[dl]>>, NEW m \in Range(inbox'[c]), m.type = "operation"
      PROVE  owner[c] = <<dl, lives[dl]>> /\ m \in Range(inbox[c])
  <2>1. m \in Range(inbox[c])
    BY <1>1, <1>3, <1>4
  <2>2. c # new
    BY <1>2, <2>1
  <2> QED
    BY <1>4, <2>1, <2>2
<1> QED
  BY <1>3, <1>4 DEF Quiet

LEMMA LogLeaves ==
  ASSUME IndInv, RoomsInv, NewestInv, LogInv, NEW cl \in Client, LeaveSession(cl)
  PROVE  IdsInv' /\ HeldInv'
<1>1. Moves(cl, NoRoom, NoConn) /\ InSession(cl) /\ cl \notin Steady /\ UNCHANGED <<lives, owner>>
  BY LeaveFacts
<1>2. \A dl \in Client : dl # cl => session'[dl] = session[dl] /\ known'[dl] = known[dl] /\ Quiet(dl)
  BY <1>1, QuietWhenMoved, NamesAssumption
<1>3. rooms' = rooms /\ known'[cl] = {} /\ session'[cl] = NoRoom
  BY <1>1 DEF Moves
<1>4. LastingRooms' = LastingRooms
  <2>1. \A st \in Steady : session'[st] = session[st]
    BY <1>1, <1>2, EnvironmentAssumption
  <2> QED
    BY <2>1 DEF LastingRooms
<1>5. \A dl \in Client : session'[dl] \in LastingRooms' =>
        session'[dl] = session[dl] /\ session[dl] \in LastingRooms /\ Quiet(dl)
  BY <1>2, <1>3, <1>4 DEF LastingRooms
<1> QED
  BY <1>2, <1>3, <1>5, LogStays

\* A room that a Steady client begins has nobody else in it: the others come
\* when the Steady clients are there.
LEMMA StartsAlone ==
  ASSUME IndInv, CastInv, NEW cl \in Client, NEW room, StartSession(cl, room),
         NEW dl \in Client, dl # cl, session'[dl] \in LastingRooms'
  PROVE  session[dl] \in LastingRooms
<1>1. \A el \in Client : el # cl => session'[el] = session[el]
  BY StartFacts DEF Moves
<1>2. cl \in Steady => lives[cl] < 1
  BY StartFacts
<1>3. PICK st \in Steady : session'[st] = session[dl] /\ session[dl] # NoRoom
  BY <1>1 DEF LastingRooms
<1>4. CASE st # cl
  <2>1. session'[st] = session[st]
    BY <1>1, <1>4, EnvironmentAssumption
  <2> QED
    BY <1>3, <2>1 DEF LastingRooms
<1>5. CASE st = cl
  <2>1. lives[cl] = 0 /\ ~InSession(cl)
    BY <1>2, <1>5 DEF CastInv, SteadyInv
  <2>2. ~IsOpen(cl)
    BY <2>1 DEF IsOpen, IndInv, TypeOK
  <2>3. InSession(dl) /\ lives[dl] > 0
    BY <1>3 DEF CastInv, SteadyInv, InSession
  <2>4. dl \in Steady
    BY <1>5, <2>2, <2>3 DEF CastInv, SteadyInv
  <2> QED
    BY <1>3, <2>4 DEF LastingRooms
<1> QED
  BY <1>4, <1>5

LEMMA LogStarts ==
  ASSUME IndInv, RoomsInv, NewestInv, CastInv, LogInv, NEW cl \in Client, NEW room, StartSession(cl, room)
  PROVE  IdsInv' /\ HeldInv'
<1>1. PICK new \in Conn :
        /\ Moves(cl, room, new) /\ Waits(new)
        /\ owner'[new] = <<cl, lives[cl] + 1>> /\ \A c \in Conn : c # new => owner'[c] = owner[c]
        /\ \A dl \in Client : lives'[dl] = IF dl = cl THEN lives[cl] + 1 ELSE lives[dl]
        /\ cl \in Steady => lives[cl] < 1
  BY StartFacts
<1>2. /\ rooms' = rooms /\ known'[cl] = {} /\ offlineQueue'[cl] = <<>> /\ hydrated' = hydrated \ {cl}
      /\ stream' = stream /\ transport'[cl] = new
      /\ \A c \in Conn : Range(inbox'[c]) \subseteq Range(inbox[c]) \cup {CloseMsg}
  BY <1>1 DEF Moves
<1>3. Range(inbox[new]) = {} /\ Range(stream[new]) = {} /\ Range(<<>>) = {} /\ CloseMsg.type = "close"
  BY <1>1, UnusedIsEmpty, EmptyList DEF CloseMsg
<1>4. \A dl \in Client : dl # cl => session'[dl] = session[dl] /\ known'[dl] = known[dl] /\ Quiet(dl)
  BY <1>1, QuietWhenMoved
<1>5. Begun(cl)
  <2>1. ASSUME NEW c \in Conn, owner'[c] = <<cl, lives'[cl]>>, c # new PROVE FALSE
    <3>1. owner[c] = <<cl, lives[cl] + 1>> /\ owner[c] # NoOwner
      BY <1>1, <2>1 DEF NoOwner
    <3>2. TheOwner(c) = cl /\ OwnerLife(c) = lives[cl] + 1
      BY <3>1 DEF OwnerLife, TheOwner
    <3>3. lives[cl] + 1 \in 1..lives[cl] /\ lives[cl] \in Nat
      BY <3>1, <3>2 DEF CastInv, SteadyInv
    <3> QED
      BY <3>3
  <2>2. \A m \in Range(inbox'[new]) : m.type # "operation"
    BY <1>2, <1>3
  <2> QED
    BY <1>2, <1>3, <2>1, <2>2 DEF Begun
<1>6. \A dl \in Client : dl # cl /\ session'[dl] \in LastingRooms' => session[dl] \in LastingRooms
  BY StartsAlone
<1> QED
  BY <1>2, <1>4, <1>5, <1>6, LogStays

LEMMA LogStep ==
  ASSUME ~EarlyEdits, ~LateDelivery, ~SlowServer, ~Restarts, BaseInv, CastInv, LogInv, NoneWaits, QueueSent, [Next]_vars
  PROVE  LogInv'
<1>1. IndInv /\ LinkInv /\ LogCameFirst /\ RoomsInv /\ ElementsInv /\ NewestInv /\ PlaceInv /\ IdsInv
  BY DEF BaseInv, LogInv
<1>2. PlaceInv'
  BY <1>1, PlaceStep
<1> DEFINE Result == IdsInv' /\ HeldInv'
<1>3. ASSUME NEW c \in Conn, Server(c) PROVE Result
  BY <1>3, LogServer
<1>4. ASSUME NEW c \in Conn, Message(c) PROVE Result
  BY <1>1, <1>4, MessageIsStep, IdsWithin, HeldWithin
<1>5. ASSUME NEW cl \in Client, NEW room \in Room, StartSession(cl, room) PROVE Result
  BY <1>1, <1>5, LogStarts
<1>6. ASSUME NEW cl \in Client, LeaveSession(cl) PROVE Result
  BY <1>1, <1>6, LogLeaves
<1>7. ASSUME NEW cl \in Client, NEW dep \in {Root} \cup OpIds(elements[cl]), Edit(cl, dep) PROVE Result
  BY <1>1, <1>7, EditIsStep, IdsWithin, HeldWithin
<1>8. ASSUME NEW cl \in Client, SocketOpens(cl) PROVE Result
  BY <1>1, <1>8, LogOpens
<1>9. ASSUME NEW cl \in Client, SocketCloses(cl) PROVE Result
  BY <1>1, <1>9, LogBreaks
<1>10. ASSUME NEW cl \in Client, Reconnect(cl) PROVE Result
  BY <1>1, <1>10, LogReconnects
<1>11. ASSUME NEW cl \in Client, NEW i \in DOMAIN rendering[cl], RenderDone(cl, i) PROVE Result
  BY <1>1, <1>11, RenderIsStep, IdsWithin, HeldWithin
<1>12. ~ServerRestarts
  BY DEF ServerRestarts
<1>13. CASE UNCHANGED vars
  <2>1. UNCHANGED <<rooms, joined, inbox, stream, session, transport, owner, lives, known, offlineQueue, hydrated>>
    BY <1>13 DEF vars, serverVars, connVars, clientVars, managerVars, crdtVars
  <2>2. \A dl \in Client : Quiet(dl)
    BY <2>1 DEF Quiet
  <2>3. LastingRooms' = LastingRooms
    BY <2>1 DEF LastingRooms
  <2>4. Result
    BY <2>1, <2>2, <2>3, LogStays
  <2> QED
    BY <1>2, <2>4 DEF LogInv
<1> QED
  BY <1>2, <1>3, <1>4, <1>5, <1>6, <1>7, <1>8, <1>9, <1>10, <1>11, <1>12, <1>13 DEF Next, LogInv

\* In a lasting room the log and the sessions hold one operation under an id:
\* what only a session holds is of its own client, and it holds all of those
\* that the log has.
LEMMA LogGivesUnique == BaseInv /\ CastInv /\ LogInv => LiveIdsAreUnique
<1> SUFFICES ASSUME BaseInv, CastInv, LogInv, NEW room \in LastingRooms,
                    NEW live, live = Log(room) \cup UNION {known[cl] : cl \in InRoom(room)},
                    NEW o \in live, NEW p \in live, o.id = p.id
             PROVE  o = p
  BY DEF LiveIdsAreUnique
<1> DEFINE log == Log(room)
<1>1. UniqueIds(log) /\ \A cl \in Client : session[cl] = room => UniqueIds(known[cl])
  BY DEF LogInv, IdsInv
<1>2. ASSUME NEW q \in live, q \notin log
      PROVE  \E cl \in Client : /\ session[cl] = room /\ q \in known[cl] /\ q.id[1] = cl
                               /\ ByOf(cl, log) \subseteq known[cl]
  <2>1. PICK cl \in Client : session[cl] = room /\ q \in known[cl]
    BY <1>2 DEF InRoom
  <2>2. Holds(cl, log)
    BY <2>1 DEF LogInv, HeldInv
  <2> QED
    BY <1>2, <2>1, <2>2 DEF Holds
<1> HIDE DEF log
<1>3. ASSUME NEW q \in live, NEW r \in live, q.id = r.id, q \notin log PROVE q = r
  <2>1. PICK cl \in Client : session[cl] = room /\ q \in known[cl] /\ q.id[1] = cl /\ ByOf(cl, log) \subseteq known[cl]
    BY <1>2, <1>3
  <2>2. r \in known[cl]
    <3>1. CASE r \in log
      BY <1>3, <2>1, <3>1 DEF ByOf
    <3>2. CASE r \notin log
      BY <1>2, <1>3, <2>1, <3>2
    <3> QED
      BY <3>1, <3>2
  <2> QED
    BY <1>1, <1>3, <2>1, <2>2 DEF UniqueIds
<1> QED
  BY <1>1, <1>3 DEF UniqueIds

-----------------------------------------------------------------------------
(* Nothing is lost but by a connection that breaks.                        *)

\* The first thing under way on an open connection that has not joined is its
\* join; when the connection of a session is not open, none of its operations
\* is under way.
FlowInv ==
  /\ \A c \in Conn : status[c] = "open" /\ joined[c] = NotJoined =>
       inbox[c] # <<>> /\ Head(inbox[c]).type = "join"
  /\ \A cl \in Client : InSession(cl) /\ ~IsOpen(cl) => \A m \in Under(cl) : m.type # "operation"

KeptInv == FlowInv /\ NothingIsLost

\* Operation o, which a session of cl shows, is in the log, queued or under way.
Safe(cl, o) ==
  \/ o \in Log(session[cl])
  \/ o \in Range(offlineQueue[cl])
  \/ \E m \in Under(cl) : m.type = "operation" /\ m.op = o

LEMMA SafeOnes == NothingIsLost <=> \A cl \in Client : session[cl] \in LastingRooms => \A o \in known[cl] : Safe(cl, o)
BY DEF NothingIsLost, Safe

LEMMA KeptInit == Init => KeptInv
<1> SUFFICES ASSUME Init PROVE KeptInv
  OBVIOUS
<1>1. /\ status = [c \in Conn |-> "unused"] /\ session = [cl \in Client |-> NoRoom]
      /\ known = [cl \in Client |-> {}]
  BY DEF Init, ServerInit, ConnInit
<1> QED
  BY <1>1 DEF KeptInv, FlowInv, NothingIsLost, InSession

LEMMA KeptWithin ==
  ASSUME IndInv, LogInv, KeptInv, NEW cl \in Client, NEW heard, NEW new, SessionStep(cl, heard, new)
  PROVE  KeptInv'
<1>1. /\ UNCHANGED <<rooms, joined, status, session, transport, owner, lives>>
      /\ \A c \in Conn :
           /\ Range(inbox[c]) \subseteq Range(inbox'[c])
           /\ inbox[c] # <<>> => inbox'[c] # <<>> /\ Head(inbox'[c]) = Head(inbox[c])
           /\ \A m \in Range(inbox'[c]) : m \in Range(inbox[c]) \/ (IsOpen(cl) /\ c = transport[cl])
  BY DEF SessionStep, Writes, Grows
<1>2. ASSUME NEW dl \in Client, InSession(dl), ~IsOpen(dl), NEW m \in Range(inbox'[transport[dl]])
      PROVE  m.type # "operation"
  <2>1. transport[dl] \in Conn
    BY <1>2, OwnConnection
  <2>2. m \in Range(inbox[transport[dl]])
    BY <1>1, <1>2, <2>1 DEF IsOpen
  <2> QED
    BY <1>2, <2>2 DEF KeptInv, FlowInv, Under
<1>3. FlowInv'
  <2>1. \A c \in Conn : status'[c] = "open" /\ joined'[c] = NotJoined =>
          inbox'[c] # <<>> /\ Head(inbox'[c]).type = "join"
    BY <1>1 DEF KeptInv, FlowInv
  <2>2. \A dl \in Client : InSession(dl)' /\ ~IsOpen(dl)' => InSession(dl) /\ ~IsOpen(dl)
    BY <1>1 DEF InSession, IsOpen
  <2>3. \A dl \in Client : Under(dl)' = Range(inbox'[transport[dl]])
    BY <1>1 DEF Under
  <2> QED
    BY <1>2, <2>1, <2>2, <2>3 DEF FlowInv
<1>4. ASSUME NEW dl \in Client, session[dl] \in LastingRooms, NEW o \in known'[dl] PROVE Safe(dl, o)'
  <2>1. transport[dl] \in Conn
    BY <1>4, OwnConnection DEF LastingRooms, InSession
  <2>2. /\ Log(session[dl])' = Log(session[dl]) /\ Under(dl) \subseteq Under(dl)'
    BY <1>1, <2>1 DEF Log, RoomOf, Under
  <2>3. CASE dl # cl
    <3>1. known'[dl] = known[dl] /\ offlineQueue'[dl] = offlineQueue[dl]
      BY <2>3 DEF SessionStep, Hears, Receives, Writes
    <3>2. Safe(dl, o)
      BY <1>4, <3>1, SafeOnes DEF KeptInv
    <3> QED
      BY <2>2, <3>1, <3>2 DEF Safe
  <2>4. CASE dl = cl
    <3>1. /\ heard \subseteq Range(stream[transport[dl]])
          /\ known'[dl] \subseteq known[dl] \cup new \cup UNION {Told(m) : m \in heard}
      BY <2>4 DEF SessionStep, Hears, Receives
    <3>2. \A p \in new \cup Range(offlineQueue[dl]) : Kept(dl, inbox', offlineQueue'[dl], p)
      BY <2>4 DEF SessionStep, Writes
    <3>3. CASE o \in new \cup Range(offlineQueue[dl])
      <4>1. Kept(dl, inbox', offlineQueue'[dl], o)
        BY <3>2, <3>3
      <4>2. Under(dl)' = Range(inbox'[transport[dl]])
        BY <1>1 DEF Under
      <4> QED
        BY <4>1, <4>2 DEF Safe, Kept
    <3>4. CASE \E m \in heard : o \in Told(m)
      <4>1. o \in Log(session[dl])
        BY <1>4, <3>1, <3>4 DEF LogInv, HeldInv, Holds
      <4> QED
        BY <2>2, <4>1 DEF Safe
    <3>5. CASE o \in known[dl] /\ o \notin Range(offlineQueue[dl])
      <4>1. Safe(dl, o)
        BY <1>4, <3>5, SafeOnes DEF KeptInv
      <4> QED
        BY <2>2, <3>5, <4>1 DEF Safe
    <3> QED
      BY <3>1, <3>3, <3>4, <3>5
  <2> QED
    BY <2>3, <2>4
<1>5. LastingRooms' = LastingRooms
  BY <1>1 DEF LastingRooms
<1>6. NothingIsLost'
  BY <1>1, <1>4, <1>5 DEF NothingIsLost, Safe
<1> QED
  BY <1>3, <1>6 DEF KeptInv

\* What a handler of c does to what is under way; the rest depends on what became
\* of the message it read.
LEMMA KeptHandled ==
  ASSUME IndInv, KeptInv, NEW c \in Conn, NEW type, Reads(c, type), UNCHANGED clientVars, status' = status,
         \A d \in Conn : d # c => joined'[d] = joined[d],
         status[c] = "open" => joined'[c] # NotJoined,
         \A room \in LastingRooms : Log(room) \subseteq Log(room)',
         NEW m, m = Head(inbox[c]),
         \A cl \in Client : session[cl] \in LastingRooms /\ transport[cl] = c /\ m.type = "operation"
                              /\ m.op \in known[cl] => m.op \in Log(session[cl])'
  PROVE  KeptInv'
<1>1. /\ \A d \in Conn : d # c => inbox'[d] = inbox[d]
      /\ \A d \in Conn : Range(inbox'[d]) \subseteq Range(inbox[d])
      /\ \A x \in Range(inbox[c]) : x = m \/ x \in Range(inbox'[c])
  BY HandlerTakes
<1>2. UNCHANGED <<session, transport, known, offlineQueue>>
  BY DEF clientVars, crdtVars, managerVars
<1>3. FlowInv'
  <2>1. \A d \in Conn : status'[d] = "open" /\ joined'[d] = NotJoined =>
          inbox'[d] # <<>> /\ Head(inbox'[d]).type = "join"
    BY <1>1 DEF KeptInv, FlowInv
  <2>2. \A dl \in Client : InSession(dl)' /\ ~IsOpen(dl)' => InSession(dl) /\ ~IsOpen(dl) /\ Under(dl)' \subseteq Under(dl)
    BY <1>1, <1>2, OwnConnection DEF InSession, IsOpen, Under
  <2> QED
    BY <2>1, <2>2 DEF KeptInv, FlowInv
<1>4. LastingRooms' = LastingRooms
  BY <1>2 DEF LastingRooms
<1>5. ASSUME NEW cl \in Client, session[cl] \in LastingRooms, NEW o \in known[cl] PROVE Safe(cl, o)'
  <2>1. transport[cl] \in Conn
    BY <1>5, OwnConnection DEF LastingRooms, InSession
  <2>2. Safe(cl, o)
    BY <1>5, SafeOnes DEF KeptInv
  <2>3. Under(cl)' = Range(inbox'[transport[cl]])
    BY <1>2 DEF Under
  <2>7. Log(session[cl]) \subseteq Log(session[cl])'
    BY <1>2, <1>5 DEF Log, RoomOf
  <2>4. \A x \in Under(cl) : x \in Under(cl)' \/ (x = m /\ transport[cl] = c)
    BY <1>1, <2>1, <2>3 DEF Under
  <2>5. CASE transport[cl] = c /\ m.type = "operation" /\ m.op = o
    BY <1>5, <2>5 DEF Safe
  <2>6. CASE ~(transport[cl] = c /\ m.type = "operation" /\ m.op = o)
    BY <1>2, <2>2, <2>4, <2>6, <2>7 DEF Safe
  <2> QED
    BY <2>5, <2>6
<1>6. NothingIsLost'
  BY <1>2, <1>4, <1>5 DEF NothingIsLost, Safe
<1> QED
  BY <1>3, <1>6 DEF KeptInv

LEMMA KeptServer ==
  ASSUME ~SlowServer, BaseInv, CastInv, LogInv, KeptInv, LiveIdsAreUnique', NEW c \in Conn, Server(c)
  PROVE  KeptInv'
<1>1. IndInv /\ RoomsInv /\ NewestInv
  BY DEF BaseInv
<1>2. UNCHANGED clientVars
  BY DEF Server
<1> DEFINE msg == Head(inbox[c])
<1>3. PICK m : m = msg
  OBVIOUS
<1>4. m = Head(inbox[c])
  BY <1>3
<1> HIDE DEF msg
<1>5. CASE HandleJoin(c)
  <2>1. /\ Reads(c, "join") /\ status' = status /\ joined' = [joined EXCEPT ![c] = <<m.room, m.client>>]
        /\ \A r : Log(r)' = Log(r)
    BY <1>1, <1>4, <1>5, JoinFacts
  <2>2. joined'[c] # NotJoined /\ \A d \in Conn : d # c => joined'[d] = joined[d]
    BY <1>1, <2>1 DEF NewestInv, IsFunction, NotJoined
  <2>3. m.type = "join"
    BY <1>1, <1>4, <2>1, HandlerTakes
  <2> QED
    BY <1>1, <1>2, <1>4, <2>1, <2>2, <2>3, KeptHandled
<1>6. CASE HandleClose(c)
  <2>1. Reads(c, "close") /\ UNCHANGED <<status, joined>>
    BY <1>1, <1>6, CloseFacts
  <2>2. m.type = "close" /\ m \in Range(inbox[c])
    BY <1>1, <1>4, <2>1, HandlerTakes
  <2>3. status[c] # "open"
    BY <1>1, <2>2 DEF NewestInv, NoCloseYet
  <2>4. \A room \in LastingRooms : Log(room)' = Log(room)
    BY <1>6, LastingLogStays
  <2> QED
    BY <1>1, <1>2, <1>4, <2>1, <2>2, <2>3, <2>4, KeptHandled
\* The operation of a session that is there and shows it is taken, or the log
\* has it.
<1>7. CASE RejectOperation(c) \/ IgnoreOperation(c) \/ AcceptOperation(c)
  <2>1. /\ Reads(c, "operation") /\ UNCHANGED <<status, joined>>
        /\ \A r : Log(r)' = Log(r) \/ Log(r)' = Log(r) \cup {m.op}
        /\ \/ \E o \in Log(m.room)' : o.id = m.op.id
           \/ joined[c] # <<m.room, m.client>>
           \/ ~At(rooms, m.room, m.client, c)
    BY <1>1, <1>4, <1>7, OperationFacts
  <2>2. m.type = "operation" /\ m \in Range(inbox[c]) /\ inbox[c] # <<>>
    BY <1>1, <1>4, <2>1, HandlerTakes DEF Reads
  <2>3. status[c] = "open" => joined[c] # NotJoined
    BY <1>4, <2>2 DEF KeptInv, FlowInv
  <2>4. ASSUME NEW cl \in Client, session[cl] \in LastingRooms, transport[cl] = c, m.op \in known[cl]
        PROVE  m.op \in Log(session[cl])'
    <3>1. InSession(cl) /\ TheOwner(c) = cl
      BY <1>1, <2>4, OwnConnection DEF LastingRooms, InSession
    <3>2. IsOpen(cl)
      BY <2>2, <2>4, <3>1 DEF KeptInv, FlowInv, Under
    <3>3. At(rooms, session[cl], cl, c)
      BY <1>1, <2>3, <2>4, <3>2, NewestIsAt DEF IsOpen
    <3>4. joined[c] = <<session[cl], cl>>
      BY <3>3 DEF CastInv, MembersInv
    <3>5. m.client = cl /\ m.room = session[cl]
      BY <1>1, <1>4, <2>1, <2>2, <2>4, <3>1, HeadOfRoom DEF CastInv, AuthorsInv
    <3>6. PICK o \in Log(m.room)' : o.id = m.op.id
      BY <2>1, <3>3, <3>4, <3>5
    <3>7. UNCHANGED <<session, known>>
      BY <1>2 DEF clientVars, crdtVars, managerVars
    <3>8. session'[cl] \in LastingRooms' /\ cl \in InRoom(session[cl])' /\ m.op \in known'[cl]
      BY <2>4, <3>7 DEF LastingRooms, InRoom
    <3>9. o \in Log(session[cl])'
      BY <3>5, <3>6, <3>7 DEF Log, RoomOf
    <3> QED
      BY <3>6, <3>8, <3>9 DEF LiveIdsAreUnique
  <2> QED
    BY <1>1, <1>2, <1>4, <2>1, <2>3, <2>4, KeptHandled
<1> QED
  BY <1>5, <1>6, <1>7 DEF Server, Handle

\* A step of client cl after which the others are as they were; what it has under
\* way is no operation if its connection is not open.
LEMMA KeptAlone ==
  ASSUME IndInv, KeptInv, NEW cl \in Client, rooms' = rooms, joined' = joined,
         \A c \in Conn : status'[c] = "open" /\ joined[c] = NotJoined =>
           \/ status[c] = "open" /\ inbox'[c] = inbox[c]
           \/ inbox'[c] # <<>> /\ Head(inbox'[c]).type = "join",
         \A dl \in Client : dl # cl =>
           /\ session'[dl] = session[dl] /\ transport'[dl] = transport[dl] /\ known'[dl] = known[dl]
           /\ offlineQueue'[dl] = offlineQueue[dl]
           /\ session'[dl] \in LastingRooms' => session[dl] \in LastingRooms
           /\ InSession(dl) => inbox'[transport[dl]] = inbox[transport[dl]] /\ status'[transport[dl]] = status[transport[dl]],
         InSession(cl)' /\ ~IsOpen(cl)' => \A m \in Under(cl)' : m.type # "operation",
         session'[cl] \in LastingRooms' =>
           \/ known'[cl] = {}
           \/ /\ session[cl] \in LastingRooms /\ session'[cl] = session[cl] /\ known'[cl] = known[cl]
              /\ offlineQueue'[cl] = offlineQueue[cl]
              /\ \A m \in Under(cl) : m.type # "operation"
  PROVE  KeptInv'
<1>1. \A r : Log(r)' = Log(r)
  BY DEF Log, RoomOf
<1>2. FlowInv'
  <2>1. \A c \in Conn : status'[c] = "open" /\ joined'[c] = NotJoined =>
          inbox'[c] # <<>> /\ Head(inbox'[c]).type = "join"
    BY DEF KeptInv, FlowInv
  <2>2. ASSUME NEW dl \in Client, InSession(dl)', ~IsOpen(dl)', NEW m \in Under(dl)' PROVE m.type # "operation"
    <3>1. CASE dl = cl
      BY <2>2, <3>1
    <3>2. CASE dl # cl
      <4>1. InSession(dl)
        BY <2>2, <3>2 DEF InSession
      <4>2. ~IsOpen(dl) /\ m \in Under(dl)
        BY <2>2, <3>2, <4>1 DEF IsOpen, Under
      <4> QED
        BY <4>1, <4>2 DEF KeptInv, FlowInv
    <3> QED
      BY <3>1, <3>2
  <2> QED
    BY <2>1, <2>2 DEF FlowInv
<1>3. ASSUME NEW dl \in Client, session'[dl] \in LastingRooms', NEW o \in known'[dl] PROVE Safe(dl, o)'
  <2>1. CASE dl # cl
    <3>1. session[dl] \in LastingRooms /\ o \in known[dl]
      BY <1>3, <2>1
    <3>2. InSession(dl)
      BY <3>1 DEF LastingRooms, InSession
    <3>3. Safe(dl, o)
      BY <3>1, SafeOnes DEF KeptInv
    <3>4. Log(session[dl])' = Log(session[dl]) /\ Under(dl)' = Under(dl)
      BY <2>1, <3>2 DEF Log, RoomOf, Under
    <3> QED
      BY <2>1, <3>3, <3>4 DEF Safe
  <2>2. CASE dl = cl
    <3>1. /\ session[cl] \in LastingRooms /\ session'[cl] = session[cl] /\ o \in known[cl]
          /\ offlineQueue'[cl] = offlineQueue[cl]
          /\ \A m \in Under(cl) : m.type # "operation"
      BY <1>3, <2>2
    <3>2. Safe(cl, o)
      BY <3>1, SafeOnes DEF KeptInv
    <3>3. Log(session[cl])' = Log(session[cl])
      BY <3>1 DEF Log, RoomOf
    <3> QED
      BY <2>2, <3>1, <3>2, <3>3 DEF Safe
  <2> QED
    BY <2>1, <2>2
<1>4. NothingIsLost'
  BY <1>3 DEF NothingIsLost, Safe
<1> QED
  BY <1>2, <1>4 DEF KeptInv

\* The connection of another session is not that of cl, nor one that waits for
\* its first session.
LEMMA OthersConnection ==
  ASSUME IndInv, NEW cl \in Client, InSession(cl), NEW dl \in Client, dl # cl, InSession(dl)
  PROVE  transport[dl] \in Conn /\ transport[dl] # transport[cl]
BY OwnConnection

LEMMA KeptOpens ==
  ASSUME IndInv, RoomsInv, NewestInv, KeptInv, NEW cl \in Client, SocketOpens(cl)
  PROVE  KeptInv'
<1> DEFINE t == transport[cl]
           join == JoinMsg(session[cl], cl)
<1>1. /\ t # NoConn /\ status[t] = "connecting"
      /\ status' = [status EXCEPT ![t] = "open"] /\ inbox' = [inbox EXCEPT ![t] = <<join>>]
      /\ UNCHANGED <<rooms, joined, session, transport, known, offlineQueue>>
  BY DEF SocketOpens, Open, clientVars, managerVars, crdtVars
<1>2. t \in Conn /\ t = transport[cl] /\ InSession(cl) /\ Waits(t)
  BY <1>1 DEF IndInv, TypeOK, Waits
<1>3. Range(inbox[t]) = {}
  BY <1>2, UnusedIsEmpty
<1>4. <<join>> # <<>> /\ Head(<<join>>).type = "join"
  BY DEF JoinMsg
<1> HIDE DEF join, t
<1>5. \A c \in Conn : /\ status'[c] = IF c = t THEN "open" ELSE status[c]
                      /\ inbox'[c] = IF c = t THEN <<join>> ELSE inbox[c]
  BY <1>1 DEF IndInv, FunctionsOK, IsFunction
<1>6. \A c \in Conn : status'[c] = "open" /\ joined[c] = NotJoined =>
        \/ status[c] = "open" /\ inbox'[c] = inbox[c]
        \/ inbox'[c] # <<>> /\ Head(inbox'[c]).type = "join"
  BY <1>4, <1>5
<1>7. \A dl \in Client : dl # cl /\ InSession(dl) =>
        inbox'[transport[dl]] = inbox[transport[dl]] /\ status'[transport[dl]] = status[transport[dl]]
  BY <1>2, <1>5, OthersConnection
<1>8. LastingRooms' = LastingRooms
  BY <1>1 DEF LastingRooms
<1>9. IsOpen(cl)'
  BY <1>1, <1>2, <1>5 DEF IsOpen
<1>10. Under(cl) = {}
  BY <1>2, <1>3 DEF Under
<1> QED
  BY <1>1, <1>6, <1>7, <1>8, <1>9, <1>10, KeptAlone

LEMMA KeptBreaks ==
  ASSUME ~LosesMessages, IndInv, KeptInv, NEW cl \in Client, SocketCloses(cl)
  PROVE  KeptInv'
<1>1. /\ InSession(cl) /\ transport[cl] \in Conn
      /\ UNCHANGED <<rooms, joined, session, transport, known, offlineQueue>>
      /\ \A c \in Conn :
           /\ status'[c] = IF c = transport[cl] THEN "gone" ELSE status[c]
           /\ c # transport[cl] => inbox'[c] = inbox[c]
      /\ Range(inbox[transport[cl]]) = {} /\ Range(inbox'[transport[cl]]) \subseteq {CloseMsg}
  BY BreakFacts
<1>2. CloseMsg.type = "close"
  BY DEF CloseMsg
<1>3. \A c \in Conn : status'[c] = "open" /\ joined[c] = NotJoined =>
        status[c] = "open" /\ inbox'[c] = inbox[c]
  BY <1>1
<1>4. \A dl \in Client : dl # cl /\ InSession(dl) =>
        inbox'[transport[dl]] = inbox[transport[dl]] /\ status'[transport[dl]] = status[transport[dl]]
  BY <1>1, OthersConnection
<1>5. LastingRooms' = LastingRooms
  BY <1>1 DEF LastingRooms
<1>6. Under(cl) = {} /\ \A m \in Under(cl)' : m.type # "operation"
  BY <1>1, <1>2 DEF Under
<1> QED
  BY <1>1, <1>3, <1>4, <1>5, <1>6, KeptAlone

LEMMA KeptReconnects ==
  ASSUME IndInv, LinkInv, RoomsInv, NewestInv, CastInv, KeptInv, NEW cl \in Client, Reconnect(cl)
  PROVE  KeptInv'
<1>1. PICK new \in Conn :
        /\ InSession(cl) /\ ~IsOpen(cl) /\ Waits(new) /\ Waits(new)' /\ transport'[cl] = new
        /\ \A dl \in Client : InSession(dl) => transport[dl] # new
        /\ \A dl \in Client : dl # cl => transport'[dl] = transport[dl]
        /\ \A c \in Conn : c # new => status'[c] = status[c]
        /\ UNCHANGED <<rooms, joined, inbox, session, known, offlineQueue>>
  BY ReconnectFacts
<1>2. Range(inbox[new]) = {}
  BY <1>1, UnusedIsEmpty
<1>3. \A c \in Conn : status'[c] = "open" => status[c] = "open"
  BY <1>1 DEF Waits
<1>4. \A dl \in Client : dl # cl /\ InSession(dl) => status'[transport[dl]] = status[transport[dl]]
  BY <1>1, OthersConnection
<1>5. LastingRooms' = LastingRooms
  BY <1>1 DEF LastingRooms
<1>6. \A m \in Under(cl) : m.type # "operation"
  BY <1>1 DEF KeptInv, FlowInv
<1>7. Under(cl)' = {}
  BY <1>1, <1>2 DEF Under
<1> QED
  BY <1>1, <1>3, <1>4, <1>5, <1>6, <1>7, KeptAlone

LEMMA KeptMoves ==
  ASSUME IndInv, RoomsInv, NewestInv, KeptInv, NEW cl \in Client, NEW room, NEW new, Moves(cl, room, new),
         new \in Conn => Waits(new), new \in Conn \/ room = NoRoom,
         \A dl \in Client : dl # cl /\ session'[dl] \in LastingRooms' => session[dl] \in LastingRooms
  PROVE  KeptInv'
<1>1. /\ rooms' = rooms /\ joined' = joined /\ known'[cl] = {} /\ session'[cl] = room /\ transport'[cl] = new
      /\ \A dl \in Client : dl # cl =>
           /\ session'[dl] = session[dl] /\ transport'[dl] = transport[dl]
           /\ known'[dl] = known[dl] /\ offlineQueue'[dl] = offlineQueue[dl]
      /\ \A c \in Conn :
           /\ Range(inbox'[c]) \subseteq Range(inbox[c]) \cup {CloseMsg}
           /\ c # transport[cl] => inbox'[c] = inbox[c]
           /\ c # new /\ c # transport[cl] => status'[c] = status[c]
           /\ status'[c] = "open" => status[c] = "open" /\ c # transport[cl]
      /\ \A dl \in Client : InSession(dl) => transport[dl] # new /\ transport[dl] \in Conn
  BY DEF Moves
<1>2. CloseMsg.type = "close"
  BY DEF CloseMsg
<1>3. ASSUME NEW dl \in Client, dl # cl, InSession(dl)
      PROVE  inbox'[transport[dl]] = inbox[transport[dl]] /\ status'[transport[dl]] = status[transport[dl]]
  <2>1. transport[dl] # transport[cl]
    BY <1>3, OwnConnection
  <2> QED
    BY <1>1, <1>3, <2>1
<1>4. ASSUME InSession(cl)', NEW m \in Under(cl)' PROVE m.type # "operation"
  <2>1. new \in Conn
    BY <1>1, <1>4 DEF InSession
  <2>2. Range(inbox[new]) = {}
    BY <2>1, UnusedIsEmpty
  <2>3. m \in Range(inbox'[new])
    BY <1>1, <1>4 DEF Under
  <2> QED
    BY <1>1, <1>2, <2>1, <2>2, <2>3
<1> QED
  BY <1>1, <1>3, <1>4, KeptAlone

LEMMA KeptStep ==
  ASSUME ~EarlyEdits, QueueSent, ~LosesMessages, ~LateDelivery, ~SlowServer, ~Restarts,
         BaseInv, CastInv, LogInv, KeptInv, LiveIdsAreUnique', [Next]_vars
  PROVE  KeptInv'
<1>1. IndInv /\ LinkInv /\ LogCameFirst /\ RoomsInv /\ ElementsInv /\ NewestInv
  BY DEF BaseInv
<1>2. ASSUME NEW c \in Conn, Server(c) PROVE KeptInv'
  BY <1>2, KeptServer
<1>3. ASSUME NEW c \in Conn, Message(c) PROVE KeptInv'
  BY <1>1, <1>3, MessageIsStep, KeptWithin
<1>4. ASSUME NEW cl \in Client, NEW room \in Room, StartSession(cl, room) PROVE KeptInv'
  <2>1. PICK new \in Conn : Moves(cl, room, new) /\ Waits(new)
    BY <1>1, <1>4, StartFacts
  <2>2. \A dl \in Client : dl # cl /\ session'[dl] \in LastingRooms' => session[dl] \in LastingRooms
    BY <1>1, <1>4, StartsAlone
  <2> QED
    BY <1>1, <2>1, <2>2, KeptMoves
<1>5. ASSUME NEW cl \in Client, LeaveSession(cl) PROVE KeptInv'
  <2>1. Moves(cl, NoRoom, NoConn) /\ cl \notin Steady
    BY <1>1, <1>5, LeaveFacts
  <2>2. LastingRooms' = LastingRooms
    BY <2>1, EnvironmentAssumption DEF Moves, LastingRooms
  <2>3. \A dl \in Client : dl # cl /\ session'[dl] \in LastingRooms' => session[dl] \in LastingRooms
    BY <2>1, <2>2 DEF Moves
  <2> QED
    BY <1>1, <2>1, <2>3, KeptMoves, NamesAssumption
<1>6. ASSUME NEW cl \in Client, NEW dep \in {Root} \cup OpIds(elements[cl]), Edit(cl, dep) PROVE KeptInv'
  BY <1>1, <1>6, EditIsStep, KeptWithin
<1>7. ASSUME NEW cl \in Client, SocketOpens(cl) PROVE KeptInv'
  BY <1>1, <1>7, KeptOpens
<1>8. ASSUME NEW cl \in Client, SocketCloses(cl) PROVE KeptInv'
  BY <1>1, <1>8, KeptBreaks
<1>9. ASSUME NEW cl \in Client, Reconnect(cl) PROVE KeptInv'
  BY <1>1, <1>9, KeptReconnects
<1>10. ASSUME NEW cl \in Client, NEW i \in DOMAIN rendering[cl], RenderDone(cl, i) PROVE KeptInv'
  BY <1>1, <1>10, RenderIsStep, KeptWithin
<1>11. ~ServerRestarts
  BY DEF ServerRestarts
<1>12. CASE UNCHANGED vars
  <2>1. UNCHANGED <<rooms, joined, inbox, status, session, transport, known, offlineQueue>>
    BY <1>12 DEF vars, serverVars, connVars, clientVars, managerVars, crdtVars
  <2>2. FlowInv'
    BY <2>1 DEF KeptInv, FlowInv, InSession, IsOpen, Under
  <2>3. NothingIsLost'
    BY <2>1 DEF KeptInv, NothingIsLost, LastingRooms, Log, RoomOf, Under
  <2> QED
    BY <2>2, <2>3 DEF KeptInv
<1> QED
  BY <1>2, <1>3, <1>4, <1>5, <1>6, <1>7, <1>8, <1>9, <1>10, <1>11, <1>12 DEF Next

-----------------------------------------------------------------------------
(* Nothing waits.                                                          *)

\* Causal, of operations.
OpsCausal(B, ops) ==
  \A i \in DOMAIN ops : \/ ops[i].dep = Root
                        \/ ops[i].dep \in B
                        \/ \E j \in DOMAIN ops : j < i /\ ops[j].id = ops[i].dep

LEMMA OpsAreCausal ==
  ASSUME NEW cl, NEW B, NEW ops
  PROVE  Causal(B, Operations(cl, ops)) <=> OpsCausal(B, ops)
<1> DEFINE s == Operations(cl, ops)
<1>1. DOMAIN s = DOMAIN ops /\ \A i \in DOMAIN ops : s[i] = OperationMsg(session[cl], cl, ops[i])
  BY DEF Operations
<1>2. \A i \in DOMAIN ops : /\ Needs(s[i]) = {ops[i].dep} \ {Root}
                            /\ IdsOf(s[i]) = {ops[i].id}
  BY <1>1 DEF Needs, IdsOf, OperationMsg
<1> HIDE DEF s
<1> QED
  BY <1>1, <1>2 DEF Causal, OpsCausal, s

LEMMA OpsCausalMore == \A B, C, ops : OpsCausal(B, ops) /\ B \subseteq C => OpsCausal(C, ops)
BY DEF OpsCausal

LEMMA CausalAppend ==
  ASSUME NEW B, NEW s, NEW m, IsList(s), Causal(B, s), Needs(m) = {}
  PROVE  Causal(B, Append(s, m))
<1>1. IsList(Append(s, m)) /\ Begins(s, Append(s, m)) /\ Range(Append(s, m)) \subseteq Range(s) \cup {m}
  BY ListAppend, AppendBegins, Ranges
<1>2. \A x \in Range(s) : Needs(x) \subseteq B \cup Given(s)
  BY CausalNeeds
<1> QED
  BY <1>1, <1>2, CausalLonger

LEMMA NoJoinIsFirst == \A s : (\A m \in Range(s) : m.type # "join") => JoinFirst(s)
BY DEF JoinFirst, Range

LEMMA JoinFirstAppend ==
  ASSUME NEW s, NEW m, IsList(s), JoinFirst(s), m.type # "join"
  PROVE  JoinFirst(Append(s, m))
<1> DEFINE t == Append(s, m)
           len == Len(s)
<1>1. /\ len \in Nat /\ DOMAIN s = 1..len /\ DOMAIN t = 1..(len + 1)
      /\ t[len + 1] = m /\ \A i \in 1..len : t[i] = s[i]
  BY ListAppend
<1> HIDE DEF t, len
<1>2. \A i \in DOMAIN t : (i \in DOMAIN s /\ t[i] = s[i]) \/ t[i] = m
  BY <1>1
<1> QED
  BY <1>2 DEF JoinFirst, t

\* Connection c is in a room, or on its way to it.
MeantFor(c, room) ==
  \/ \E cl : At(rooms, room, cl, c)
  \/ \E m \in JoinsIn(inbox, c) : m.room = room

\* Until the others come, the rooms are those of the Steady clients.
EarlyInv == (\A cl \in Client \ Steady : lives[cl] = 0) => DOMAIN rooms \subseteq LastingRooms

\* In a lasting room, an operation comes after what it names: in the log,
LogsClosed == \A room \in LastingRooms : LogClosed(RoomOf(room).log)

\* in what was sent to the room, by whatever connection,
BoxInv ==
  /\ \A c \in Conn : JoinFirst(inbox[c])
  /\ \A c \in Conn : \A m \in Range(inbox[c]) : m.type # "joined"
  /\ \A c \in Conn : \A room \in LastingRooms : MeantFor(c, room) =>
       /\ Causal(OpIds(Log(room)), inbox[c])
       /\ \A m \in Range(inbox[c]) : m.type = "operation" => m.room = room

\* in what a session sends and queues,
Flowing(cl) ==
  LET B == OpIds(Log(session[cl]))
      s == inbox[transport[cl]]
  IN  Causal(B, s) /\ OpsCausal(B \cup Given(s), offlineQueue[cl])

\* and in what it is told.
Heard(cl) ==
  LET s == stream[transport[cl]]
  IN  /\ Causal(OpIds(known[cl]), s)
      /\ \A m \in Range(s) : m.type = "joined" => LogClosed(m.opLog)

SessionsInv ==
  \A cl \in Client : session[cl] \in LastingRooms => Flowing(cl) /\ (IsOpen(cl) => Heard(cl))

WaitInv == EarlyInv /\ LogsClosed /\ BoxInv /\ SessionsInv /\ NoneWaits

LEMMA WaitInit == Init => WaitInv
<1> SUFFICES ASSUME Init PROVE WaitInv
  OBVIOUS
<1>1. /\ session = [cl \in Client |-> NoRoom] /\ inbox = [c \in Conn |-> <<>>]
      /\ DOMAIN rooms = {}
  BY DEF Init, ServerInit, ConnInit
<1>2. LastingRooms = {}
  BY <1>1, EnvironmentAssumption DEF LastingRooms
<1>3. JoinFirst(<<>>)
  BY EmptyList, NoJoinIsFirst
<1> QED
  BY <1>1, <1>2, <1>3, EmptyList DEF WaitInv, EarlyInv, LogsClosed, BoxInv, SessionsInv, NoneWaits

\* A connection of a session is meant for its room alone.
LEMMA MeantForItsOwn ==
  ASSUME IndInv, NewestInv, CastInv, NEW cl \in Client, InSession(cl), NEW room, MeantFor(transport[cl], room)
  PROVE  room = session[cl]
<1> DEFINE c == transport[cl]
<1>1. c \in Conn /\ owner[c] # NoOwner /\ TheOwner(c) = cl
  BY OwnConnection
<1>2. ASSUME NEW dl, At(rooms, room, dl, c) PROVE room = session[cl]
  <2>1. joined[c] = <<room, dl>>
    BY <1>2 DEF CastInv, MembersInv
  <2>2. joined[c] # NotJoined
    BY <2>1 DEF NotJoined
  <2>3. joined[c][1] = session[cl]
    BY <1>1, <2>2 DEF CastInv, MembersInv
  <2> QED
    BY <2>1, <2>3
<1>3. ASSUME NEW m \in JoinsIn(inbox, c), m.room = room PROVE room = session[cl]
  BY <1>1, <1>3 DEF NewestInv, JoinsAreMeant
<1> QED
  BY <1>2, <1>3 DEF MeantFor

\* What a local edit names is on its way before it.
LEMMA EditFollows ==
  ASSUME KeptInv, NoneWaits, NEW cl \in Client, session[cl] \in LastingRooms, NEW op, Knows(cl, op.dep)
  PROVE  Follows(cl, OpIds(Log(session[cl])), inbox, offlineQueue[cl], op)
<1>1. CASE op.dep = Root
  BY <1>1 DEF Follows
<1>2. CASE op.dep # Root
  <2>1. op.dep \in OpIds(elements[cl]) /\ (IsOpen(cl) => offlineQueue[cl] = <<>>)
    BY <1>2 DEF Knows
  <2>2. elements[cl] = known[cl]
    BY DEF NoneWaits
  <2>3. PICK o \in known[cl] : o.id = op.dep
    BY <2>1, <2>2 DEF OpIds
  <2>4. Safe(cl, o)
    BY SafeOnes DEF KeptInv
  <2>5. CASE o \in Log(session[cl])
    BY <2>3, <2>5 DEF Follows, OpIds
  <2>6. CASE o \in Range(offlineQueue[cl])
    <3>1. ~IsOpen(cl)
      BY <2>1, <2>6, EmptyList
    <3> QED
      BY <2>3, <2>6, <3>1 DEF Follows, OpIds
  <2>7. CASE \E m \in Under(cl) : m.type = "operation" /\ m.op = o
    <3>1. PICK m \in Range(inbox[transport[cl]]) : m.type = "operation" /\ m.op = o
      BY <2>7 DEF Under
    <3>2. op.dep \in IdsOf(m)
      BY <2>3, <3>1 DEF IdsOf
    <3>3. op.dep \in Given(inbox[transport[cl]])
      BY <3>1, <3>2 DEF Given
    <3> QED
      BY <3>3 DEF Follows
  <2> QED
    BY <2>4, <2>5, <2>6, <2>7 DEF Safe
<1> QED
  BY <1>1, <1>2

\* The session of cl makes operations and hears of others.
LEMMA FlowsOn ==
  ASSUME IndInv, KeptInv, WaitInv, NEW cl \in Client, NEW heard, NEW new, SessionStep(cl, heard, new),
         session[cl] \in LastingRooms
  PROVE  Flowing(cl)'
<1> DEFINE B == OpIds(Log(session[cl]))
           t == transport[cl]
<1>1. /\ UNCHANGED <<rooms, session, transport>>
      /\ new = {} \/ (InSession(cl) /\ \E dep : new = {NewOp(cl, dep)} /\ Knows(cl, dep))
      /\ FlowOK(cl, B, inbox, offlineQueue[cl]) /\ (\A o \in new : Follows(cl, B, inbox, offlineQueue[cl], o))
         => FlowOK(cl, B, inbox', offlineQueue'[cl])
  BY DEF SessionStep, Writes
<1>2. FlowOK(cl, B, inbox, offlineQueue[cl])
  BY OpsAreCausal DEF WaitInv, SessionsInv, Flowing, FlowOK
<1>3. \A o \in new : Follows(cl, B, inbox, offlineQueue[cl], o)
  <2> SUFFICES ASSUME NEW o \in new PROVE Follows(cl, B, inbox, offlineQueue[cl], o)
    OBVIOUS
  <2>1. PICK dep : o = NewOp(cl, dep) /\ Knows(cl, dep)
    BY <1>1
  <2>2. o.dep = dep
    BY <2>1 DEF NewOp
  <2> QED
    BY <2>1, <2>2, EditFollows DEF WaitInv
<1>4. FlowOK(cl, B, inbox', offlineQueue'[cl])
  BY <1>1, <1>2, <1>3
<1>5. Causal(B, inbox'[t]) /\ OpsCausal(B \cup Given(inbox'[t]), offlineQueue'[cl])
  BY <1>4, OpsAreCausal DEF FlowOK
<1>6. OpIds(Log(session[cl]))' = B /\ transport'[cl] = t
  BY <1>1 DEF Log, RoomOf
<1> QED
  BY <1>5, <1>6 DEF Flowing

LEMMA HearsOn ==
  ASSUME IndInv, WaitInv, NEW cl \in Client, NEW heard, NEW new, SessionStep(cl, heard, new),
         session[cl] \in LastingRooms
  PROVE  /\ elements'[cl] = known'[cl]
         /\ IsOpen(cl) => Heard(cl)'
<1> DEFINE t == transport[cl]
           s == stream[t]
           u == stream'[t]
           K == OpIds(known[cl])
<1>1. transport' = transport /\ elements[cl] = known[cl]
  BY DEF SessionStep, WaitInv, NoneWaits
<1>2. /\ heard = {} => stream' = stream
      /\ heard # {} => ReadsHead(cl, heard)
      /\ elements[cl] = known[cl] /\ (\A m \in heard : Applicable(cl, m)) => elements'[cl] = known'[cl]
      /\ known[cl] \subseteq known'[cl]
      /\ \A m \in heard : OpIds(Told(m)) \subseteq OpIds(known'[cl])
  BY DEF SessionStep, Hears, Receives, OpIds
<1>3. K \subseteq OpIds(known'[cl])
  BY <1>2 DEF OpIds
<1>4. CASE heard = {}
  <2>1. elements'[cl] = known'[cl] /\ u = s
    BY <1>1, <1>2, <1>4
  <2>2. ASSUME IsOpen(cl) PROVE Heard(cl)'
    <3>1. Causal(K, s) /\ \A m \in Range(s) : m.type = "joined" => LogClosed(m.opLog)
      BY <2>2 DEF WaitInv, SessionsInv, Heard
    <3>2. Causal(OpIds(known'[cl]), s)
      BY <1>3, <3>1, CausalMore
    <3> QED
      BY <1>1, <2>1, <3>1, <3>2 DEF Heard
  <2> QED
    BY <2>1, <2>2
<1>5. CASE heard # {}
  <2>1. PICK m : m = Head(s)
    OBVIOUS
  <2>2. IsOpen(cl) /\ s # <<>> /\ heard = {m} /\ u = Tail(s)
    BY <1>2, <1>5, <2>1 DEF ReadsHead
  <2>3. Causal(K, s) /\ \A x \in Range(s) : x.type = "joined" => LogClosed(x.opLog)
    BY <2>2 DEF WaitInv, SessionsInv, Heard
  <2>4. IsList(s)
    BY <2>2 DEF IndInv, ListsOK, TypeOK, IsOpen
  <2> HIDE DEF s, u, K
  <2>5. Needs(m) \subseteq K /\ Causal(K \cup IdsOf(m), Tail(s))
    BY <2>1, <2>2, <2>3, <2>4, CausalTail
  <2>6. m \in Range(s) /\ Range(Tail(s)) \subseteq Range(s)
    BY <2>1, <2>2, <2>4, Ranges
  <2>7. Applicable(cl, m)
    BY <2>3, <2>5, <2>6 DEF Applicable, K
  <2>8. IdsOf(m) \subseteq OpIds(Told(m))
    BY DEF IdsOf, Told, OpIds
  <2>9. Causal(OpIds(known'[cl]), u)
    <3>1. K \cup IdsOf(m) \subseteq OpIds(known'[cl])
      BY <1>2, <1>3, <2>2, <2>8
    <3> QED
      BY <2>2, <2>5, <3>1, CausalMore
  <2>10. elements'[cl] = known'[cl]
    BY <1>1, <1>2, <2>2, <2>7
  <2>11. \A x \in Range(u) : x.type = "joined" => LogClosed(x.opLog)
    BY <2>2, <2>3, <2>6
  <2>12. Heard(cl)'
    BY <1>1, <2>9, <2>11 DEF Heard, u
  <2> QED
    BY <2>10, <2>12
<1> QED
  BY <1>4, <1>5

LEMMA BoxOn ==
  ASSUME IndInv, NewestInv, CastInv, WaitInv, RoomsInv', NEW cl \in Client, NEW heard, NEW new,
         SessionStep(cl, heard, new), session[cl] \in LastingRooms => Flowing(cl)'
  PROVE  BoxInv'
<1> DEFINE t == transport[cl]
<1>1. /\ UNCHANGED <<rooms, joined, status, session, transport, owner, lives>>
      /\ \A c \in Conn :
           /\ JoinFirst(inbox[c]) => JoinFirst(inbox'[c])
           /\ ~(IsOpen(cl) /\ c = t) => inbox'[c] = inbox[c]
           /\ \A m \in Range(inbox'[c]) : m \in Range(inbox[c]) \/ m.type = "operation"
  BY DEF SessionStep, Writes, Grows
<1>2. /\ \A c \in Conn : JoinFirst(inbox'[c])
      /\ \A c \in Conn : \A m \in Range(inbox'[c]) : m.type # "joined"
  BY <1>1 DEF WaitInv, BoxInv
<1>3. LastingRooms' = LastingRooms /\ \A room : Log(room)' = Log(room)
  BY <1>1 DEF LastingRooms, Log, RoomOf
<1>4. \A c \in Conn : \A room : MeantFor(c, room)' => MeantFor(c, room)
  BY <1>1 DEF MeantFor, JoinsIn, At
<1>5. ASSUME NEW c \in Conn, NEW room \in LastingRooms, MeantFor(c, room)
      PROVE  /\ Causal(OpIds(Log(room)), inbox'[c])
             /\ \A m \in Range(inbox'[c]) : m.type = "operation" => m.room = room
  <2>1. CASE ~(IsOpen(cl) /\ c = t)
    BY <1>1, <1>5, <2>1 DEF WaitInv, BoxInv
  <2>2. CASE IsOpen(cl) /\ c = t
    <3>1. InSession(cl)
      BY <2>2, NamesAssumption DEF IsOpen, IndInv, TypeOK
    <3>2. room = session[cl]
      BY <1>5, <2>2, <3>1, MeantForItsOwn
    <3>3. Causal(OpIds(Log(room)), inbox'[c])
      <4>1. Flowing(cl)'
        BY <3>2
      <4>2. OpIds(Log(session[cl]))' = OpIds(Log(room)) /\ transport'[cl] = c
        BY <1>1, <2>2, <3>2 DEF Log, RoomOf
      <4> QED
        BY <4>1, <4>2 DEF Flowing
    <3>4. OfRoom(Range(inbox'[c]), room)
      <4>1. InSession(cl)' /\ transport'[cl] = c /\ session'[cl] = room
        BY <1>1, <2>2, <3>1, <3>2 DEF InSession
      <4> QED
        BY <4>1 DEF RoomsInv, SentOfRooms
    <3> QED
      BY <3>3, <3>4 DEF OfRoom
  <2> QED
    BY <2>1, <2>2
<1> QED
  BY <1>1, <1>2, <1>3, <1>4, <1>5 DEF BoxInv

LEMMA WaitWithin ==
  ASSUME IndInv, NewestInv, CastInv, KeptInv, WaitInv, RoomsInv', NEW cl \in Client, NEW heard, NEW new,
         SessionStep(cl, heard, new)
  PROVE  WaitInv'
<1>1. UNCHANGED <<rooms, status, session, transport, lives>>
  BY DEF SessionStep
<1>2. LastingRooms' = LastingRooms /\ \A room : Log(room)' = Log(room) /\ RoomOf(room)' = RoomOf(room)
  BY <1>1 DEF LastingRooms, Log, RoomOf
<1>3. EarlyInv' /\ LogsClosed'
  BY <1>1, <1>2 DEF WaitInv, EarlyInv, LogsClosed
<1>4. session[cl] \in LastingRooms =>
        Flowing(cl)' /\ elements'[cl] = known'[cl] /\ (IsOpen(cl) => Heard(cl)')
  BY FlowsOn, HearsOn
<1>5. BoxInv'
  BY <1>4, BoxOn
<1>6. ASSUME NEW dl \in Client, dl # cl, session[dl] \in LastingRooms
      PROVE  Flowing(dl)' /\ (IsOpen(dl) => Heard(dl)') /\ elements'[dl] = known'[dl]
  <2>1. InSession(dl) /\ transport[dl] \in Conn
    BY <1>6, OwnConnection DEF LastingRooms, InSession
  <2>2. transport[dl] # transport[cl]
    BY <1>6, <2>1, OwnConnection
  <2>3. /\ inbox'[transport[dl]] = inbox[transport[dl]] /\ offlineQueue'[dl] = offlineQueue[dl]
        /\ stream'[transport[dl]] = stream[transport[dl]]
        /\ known'[dl] = known[dl] /\ elements'[dl] = elements[dl]
    BY <1>6, <2>1, <2>2 DEF SessionStep, Writes, Grows, Hears, Receives
  <2>4. Log(session[dl])' = Log(session[dl]) /\ transport'[dl] = transport[dl]
    BY <1>1 DEF Log, RoomOf
  <2>5. Flowing(dl) /\ (IsOpen(dl) => Heard(dl)) /\ elements[dl] = known[dl]
    BY <1>6 DEF WaitInv, SessionsInv, NoneWaits
  <2> QED
    BY <2>3, <2>4, <2>5 DEF Flowing, Heard
<1>7. SessionsInv' /\ NoneWaits'
  <2>1. \A dl \in Client : session'[dl] = session[dl] /\ (IsOpen(dl)' <=> IsOpen(dl))
    BY <1>1 DEF IsOpen
  <2> QED
    BY <1>2, <1>4, <1>6, <2>1 DEF SessionsInv, NoneWaits
<1> QED
  BY <1>3, <1>5, <1>7 DEF WaitInv

\* A handler sends after what was sent.
LEMMA SendBegins ==
  ASSUME IndInv, NEW conns, NEW m, stream' = SendTo(conns, m), NEW d \in Conn
  PROVE  Begins(stream[d], stream'[d])
<1>1. stream'[d] = IF d \in conns THEN Append(stream[d], m) ELSE stream[d]
  BY DEF SendTo
<1>2. IsList(stream[d])
  BY DEF IndInv, ListsOK
<1> QED
  BY <1>1, <1>2, AppendBegins DEF Begins

LEMMA ServerBegins ==
  ASSUME IndInv, NEW c \in Conn, Handle(c), NEW d \in Conn
  PROVE  Begins(stream[d], stream'[d])
<1>1. IsList(stream[d])
  BY DEF IndInv, ListsOK
<1>2. CASE HandleJoin(c)
  <2>1. PICK peers, answer, notice : stream' = [x \in Conn |-> stream[x] \o JoinReplies(x, c, peers, answer, notice)]
    BY <1>2 DEF HandleJoin
  <2> DEFINE first == IF d = c THEN <<answer>> ELSE <<>>
             second == IF d \in PeerConns(peers) THEN <<notice>> ELSE <<>>
  <2>2. stream'[d] = stream[d] \o (first \o second)
    BY <2>1 DEF JoinReplies
  <2>3. IsList(first) /\ IsList(second)
    BY EmptyList, Ranges
  <2> HIDE DEF first, second
  <2>4. IsList(first \o second)
    BY <2>3, InConcat
  <2> QED
    BY <1>1, <2>2, <2>4, ConcatBegins
<1>3. ASSUME NEW conns, NEW m, stream' = SendTo(conns, m) PROVE Begins(stream[d], stream'[d])
  BY <1>3, SendBegins
<1>4. CASE stream' = stream
  BY <1>4 DEF Begins
<1>5. CASE RejectOperation(c) \/ AcceptOperation(c)
  BY <1>3, <1>5 DEF RejectOperation, AcceptOperation
<1>6. CASE IgnoreOperation(c)
  BY <1>4, <1>6 DEF IgnoreOperation
<1>7. CASE HandleClose(c)
  BY <1>3, <1>4, <1>7 DEF HandleClose
<1> QED
  BY <1>2, <1>5, <1>6, <1>7 DEF Handle

\* What becomes of a log: it stays, goes with its room, or gets the operation
\* that was read from a connection in the room.
LEMMA LogFacts ==
  ASSUME IndInv, NEW c \in Conn, Handle(c), NEW m, m = Head(inbox[c])
  PROVE  /\ \A r : \/ RoomOf(r).log' = RoomOf(r).log
                   \/ RoomOf(r).log' = <<>>
                   \/ /\ m.type = "operation" /\ At(rooms, r, m.client, c) /\ r = m.room
                      /\ RoomOf(r).log' = Append(RoomOf(r).log, m.op)
         /\ DOMAIN rooms' \subseteq DOMAIN rooms \cup (IF m.type = "join" THEN {m.room} ELSE {})
<1>1. \A r : IsRoom(RoomOf(r))
  BY RoomOfIsRoom
<1>2. CASE HandleJoin(c)
  <2>1. PICK peers : rooms' = SetRoom(m.room, [RoomOf(m.room) EXCEPT !.peers = peers]) /\ Reads(c, "join")
    BY <1>2 DEF HandleJoin
  <2>2. m.type = "join"
    BY <2>1, HandlerTakes
  <2>3. [RoomOf(m.room) EXCEPT !.peers = peers].log = RoomOf(m.room).log
    BY <1>1 DEF IsRoom
  <2>4. DOMAIN rooms' = DOMAIN rooms \cup {m.room}
    BY <2>1 DEF SetRoom
  <2>5. \A r : RoomOf(r).log' = RoomOf(r).log
    BY <2>1, <2>3, <2>4 DEF RoomOf, SetRoom
  <2> QED
    BY <2>2, <2>4, <2>5
<1>3. CASE RejectOperation(c) \/ IgnoreOperation(c)
  <2>1. rooms' = rooms
    BY <1>3 DEF RejectOperation, IgnoreOperation
  <2> QED
    BY <2>1 DEF RoomOf
<1>4. CASE AcceptOperation(c)
  <2> DEFINE log == AppendOperation(rooms[m.room].log, m.op)
  <2>1. /\ rooms' = SetRoom(m.room, [rooms[m.room] EXCEPT !.log = log]) /\ Reads(c, "operation")
        /\ m.room \in DOMAIN rooms /\ IsActiveSender(rooms[m.room].peers, m.client, c)
    BY <1>4 DEF AcceptOperation
  <2>2. m.type = "operation" /\ At(rooms, m.room, m.client, c)
    BY <2>1, HandlerTakes DEF At, IsActiveSender
  <2>3. RoomOf(m.room) = rooms[m.room] /\ IsRoom(rooms[m.room])
    BY <1>1, <2>1 DEF RoomOf
  <2>4. log = RoomOf(m.room).log \/ log = Append(RoomOf(m.room).log, m.op)
    BY <2>3 DEF AppendOperation
  <2> HIDE DEF log
  <2>5. [rooms[m.room] EXCEPT !.log = log].log = log
    BY <2>3 DEF IsRoom
  <2>6. DOMAIN rooms' = DOMAIN rooms
    BY <2>1 DEF SetRoom
  <2>7. \A r : RoomOf(r).log' = IF r = m.room THEN log ELSE RoomOf(r).log
    BY <2>1, <2>5, <2>6 DEF RoomOf, SetRoom
  <2> QED
    BY <2>2, <2>4, <2>6, <2>7
<1>5. CASE HandleClose(c)
  <2>1. CASE rooms' = rooms
    BY <2>1 DEF RoomOf
  <2>2. CASE rooms' # rooms
    <3> DEFINE room == joined[c][1]
    <3>1. PICK peers : room \in DOMAIN rooms /\ rooms' = RoomsAfterClose(room, peers)
      BY <1>5, <2>2 DEF HandleClose
    <3> HIDE DEF room
    <3>2. CASE rooms' = Restrict(rooms, DOMAIN rooms \ {room})
      <4>1. DOMAIN rooms' = DOMAIN rooms \ {room} /\ \A r \in DOMAIN rooms' : rooms'[r] = rooms[r]
        BY <3>2 DEF Restrict
      <4> QED
        BY <4>1 DEF RoomOf, NewRoom
    <3>3. CASE rooms' = SetRoom(room, [rooms[room] EXCEPT !.peers = peers])
      <4>1. IsRoom(rooms[room])
        BY <3>1 DEF IndInv, ListsOK
      <4>2. [rooms[room] EXCEPT !.peers = peers].log = rooms[room].log
        BY <4>1 DEF IsRoom
      <4>3. DOMAIN rooms' = DOMAIN rooms /\ \A r \in DOMAIN rooms : rooms'[r].log = rooms[r].log
        BY <3>1, <3>3, <4>2 DEF SetRoom
      <4> QED
        BY <4>3 DEF RoomOf
    <3> QED
      BY <3>1, <3>2, <3>3 DEF RoomsAfterClose
  <2> QED
    BY <2>1, <2>2
<1> QED
  BY <1>2, <1>3, <1>4, <1>5 DEF Handle

LEMMA LastingLogGrows ==
  ASSUME ~SlowServer, BaseInv, CastInv, NEW c \in Conn, Handle(c), NEW room \in LastingRooms
  PROVE  OpIds(Log(room)) \subseteq OpIds(Log(room)')
<1>1. IndInv
  BY DEF BaseInv
<1>2. CASE HandleJoin(c)
  <2>1. Log(room)' = Log(room)
    BY <1>1, <1>2, JoinFacts
  <2> QED
    BY <2>1
<1>3. CASE RejectOperation(c) \/ IgnoreOperation(c) \/ AcceptOperation(c)
  <2>1. PICK m : m = Head(inbox[c])
    OBVIOUS
  <2>2. Log(room) \subseteq Log(room)'
    BY <1>1, <1>3, <2>1, OperationFacts
  <2> QED
    BY <2>2 DEF OpIds
<1>4. CASE HandleClose(c)
  <2>1. Log(room)' = Log(room)
    BY <1>4, LastingLogStays
  <2> QED
    BY <2>1
<1> QED
  BY <1>2, <1>3, <1>4 DEF Handle

LEMMA LogIsRange == \A room : Log(room) = Range(RoomOf(room).log)
BY DEF Log

\* What an operation at the head of an inbox names is in the log of its room,
LEMMA HeadNeedsLogged ==
  ASSUME IndInv, WaitInv, NEW c \in Conn, NEW type, Reads(c, type), NEW room \in LastingRooms, MeantFor(c, room)
  PROVE  Needs(Head(inbox[c])) \subseteq OpIds(Log(room))
<1>1. inbox[c] # <<>>
  BY DEF Reads
<1>2. IsList(inbox[c]) /\ Causal(OpIds(Log(room)), inbox[c])
  BY DEF IndInv, ListsOK, WaitInv, BoxInv
<1> QED
  BY <1>1, <1>2, CausalTail

\* and itself when it was read.
LEMMA HeadIsLogged ==
  ASSUME BaseInv, CastInv, WaitInv, NEW c \in Conn, Handle(c), NEW m, m = Head(inbox[c]),
         NEW room \in LastingRooms, MeantFor(c, room)
  PROVE  IdsOf(m) \subseteq OpIds(Log(room)')
<1>1. IndInv /\ IsList(inbox[c]) /\ JoinFirst(inbox[c])
  BY DEF BaseInv, IndInv, ListsOK, WaitInv, BoxInv
<1>2. CASE HandleJoin(c) \/ HandleClose(c)
  <2>1. Reads(c, "join") \/ Reads(c, "close")
    BY <1>2 DEF HandleJoin, HandleClose
  <2>2. m.type \in {"join", "close"}
    BY <1>1, <2>1, HandlerTakes
  <2> QED
    BY <2>2 DEF IdsOf
<1>3. CASE RejectOperation(c) \/ IgnoreOperation(c) \/ AcceptOperation(c)
  <2>1. /\ Reads(c, "operation")
        /\ \/ \E o \in Log(m.room)' : o.id = m.op.id
           \/ joined[c] # <<m.room, m.client>>
           \/ ~At(rooms, m.room, m.client, c)
    BY <1>1, <1>3, OperationFacts
  <2>2. m.type = "operation" /\ m \in Range(inbox[c]) /\ inbox[c] # <<>>
    BY <1>1, <2>1, HandlerTakes DEF Reads
  <2>3. m.room = room
    BY <2>2 DEF WaitInv, BoxInv
  <2>4. JoinsIn(inbox, c) = {}
    <3> SUFFICES ASSUME NEW i \in DOMAIN inbox[c], inbox[c][i].type = "join" PROVE FALSE
      BY DEF JoinsIn, Range
    <3>1. i = 1
      BY <1>1 DEF JoinFirst
    <3>2. m = inbox[c][1]
      BY <1>1, <2>2, ListTail
    <3> QED
      BY <2>2, <3>1, <3>2
  <2>5. PICK cl : At(rooms, room, cl, c)
    BY <2>4 DEF MeantFor
  <2>6. joined[c] = <<room, cl>>
    BY <2>5 DEF CastInv, MembersInv
  <2>7. joined[c] # NotJoined
    BY <2>6 DEF NotJoined
  <2>8. cl = TheOwner(c)
    <3>1. joined[c] = <<joined[c][1], TheOwner(c)>>
      BY <2>7 DEF CastInv, MembersInv
    <3> QED
      BY <2>6, <3>1
  <2>9. m.client = cl
    BY <2>2, <2>8 DEF CastInv, AuthorsInv
  <2>10. \E o \in Log(room)' : o.id = m.op.id
    BY <2>1, <2>3, <2>5, <2>6, <2>9
  <2> QED
    BY <2>2, <2>10 DEF IdsOf, OpIds
<1> QED
  BY <1>2, <1>3 DEF Handle

\* A handler does not bring a connection to another room.
LEMMA MeantBefore ==
  ASSUME IndInv, NEW c \in Conn, Handle(c), NEW d \in Conn, NEW room, MeantFor(d, room)'
  PROVE  MeantFor(d, room)
<1>1. PICK m : m = Head(inbox[c])
  OBVIOUS
<1>2. PICK type : Reads(c, type)
  BY DEF Handle, HandleJoin, RejectOperation, IgnoreOperation, AcceptOperation, HandleClose
<1>3. Range(inbox'[d]) \subseteq Range(inbox[d]) /\ m \in Range(inbox[c])
  BY <1>1, <1>2, HandlerTakes
<1>4. CASE \E x \in JoinsIn(inbox, d)' : x.room = room
  BY <1>3, <1>4 DEF MeantFor, JoinsIn
<1>5. ASSUME NEW cl, At(rooms', room, cl, d) PROVE MeantFor(d, room)
  <2>1. CASE HandleJoin(c)
    <3>1. Reads(c, "join") /\ (IF room = m.room /\ cl = m.client THEN d = c ELSE At(rooms, room, cl, d))
      BY <1>1, <1>5, <2>1, JoinFacts
    <3>2. m.type = "join"
      BY <1>1, <3>1, HandlerTakes
    <3> QED
      BY <1>3, <3>1, <3>2 DEF MeantFor, JoinsIn
  <2>2. CASE RejectOperation(c) \/ IgnoreOperation(c) \/ AcceptOperation(c)
    <3>1. At(rooms, room, cl, d)
      BY <1>1, <1>5, <2>2, OperationFacts
    <3> QED
      BY <3>1 DEF MeantFor
  <2>3. CASE HandleClose(c)
    <3>1. At(rooms, room, cl, d)
      BY <1>5, <2>3, CloseFacts
    <3> QED
      BY <3>1 DEF MeantFor
  <2> QED
    BY <2>1, <2>2, <2>3 DEF Handle
<1> QED
  BY <1>4, <1>5 DEF MeantFor, At

LEMMA BoxServer ==
  ASSUME ~SlowServer, BaseInv, CastInv, WaitInv, NEW c \in Conn, Server(c)
  PROVE  BoxInv'
<1>1. IndInv /\ Handle(c) /\ session' = session
  BY DEF BaseInv, Server, clientVars, managerVars
<1>2. PICK m : m = Head(inbox[c])
  OBVIOUS
<1>3. PICK type : Reads(c, type)
  BY <1>1 DEF Handle, HandleJoin, RejectOperation, IgnoreOperation, AcceptOperation, HandleClose
<1>4. /\ inbox[c] # <<>> /\ inbox'[c] = Tail(inbox[c]) /\ IsList(inbox[c])
      /\ \A d \in Conn : d # c => inbox'[d] = inbox[d]
  BY <1>1, <1>3 DEF Reads, IndInv, FunctionsOK, IsFunction, ListsOK
<1>5. LastingRooms' = LastingRooms
  BY <1>1 DEF LastingRooms
<1>6. ASSUME NEW d \in Conn PROVE JoinFirst(inbox'[d])
  <2>1. JoinFirst(inbox[d]) /\ JoinFirst(inbox[c])
    BY DEF WaitInv, BoxInv
  <2>2. \A x \in Range(Tail(inbox[c])) : x.type # "join"
    BY <1>4, <2>1, JoinFirstTail
  <2> QED
    BY <1>4, <2>1, <2>2, NoJoinIsFirst
<1>8. \A d \in Conn : \A x \in Range(inbox'[d]) : x.type # "joined"
  BY <1>1, <1>3, HandlerTakes DEF WaitInv, BoxInv
<1>7. ASSUME NEW d \in Conn, NEW room \in LastingRooms, MeantFor(d, room)'
      PROVE  /\ Causal(OpIds(Log(room)'), inbox'[d])
             /\ \A x \in Range(inbox'[d]) : x.type = "operation" => x.room = room
  <2>1. MeantFor(d, room)
    BY <1>1, <1>7, MeantBefore
  <2>2. /\ Causal(OpIds(Log(room)), inbox[d])
        /\ \A x \in Range(inbox[d]) : x.type = "operation" => x.room = room
    BY <2>1 DEF WaitInv, BoxInv
  <2>3. OpIds(Log(room)) \subseteq OpIds(Log(room)')
    BY <1>1, LastingLogGrows
  <2>4. CASE d # c
    BY <1>4, <2>2, <2>3, <2>4, CausalMore
  <2>5. CASE d = c
    <3>1. IdsOf(m) \subseteq OpIds(Log(room)')
      BY <1>1, <1>2, <2>1, <2>5, HeadIsLogged
    <3>2. Causal(OpIds(Log(room)) \cup IdsOf(m), Tail(inbox[c]))
      BY <1>2, <1>4, <2>2, <2>5, CausalTail
    <3>3. Causal(OpIds(Log(room)'), Tail(inbox[c]))
      BY <2>3, <3>1, <3>2, CausalMore
    <3>4. Range(Tail(inbox[c])) \subseteq Range(inbox[c])
      BY <1>4, Ranges
    <3> QED
      BY <1>4, <2>2, <2>5, <3>3, <3>4
  <2> QED
    BY <2>4, <2>5
<1> QED
  BY <1>5, <1>6, <1>7, <1>8 DEF BoxInv

LEMMA LogsStayClosed ==
  ASSUME IndInv, CastInv, WaitInv, NEW c \in Conn, Server(c)
  PROVE  LogsClosed'
<1>1. Handle(c) /\ session' = session
  BY DEF Server, clientVars, managerVars
<1>2. LastingRooms' = LastingRooms
  BY <1>1 DEF LastingRooms
<1>3. PICK m : m = Head(inbox[c])
  OBVIOUS
<1>4. PICK type : Reads(c, type)
  BY <1>1 DEF Handle, HandleJoin, RejectOperation, IgnoreOperation, AcceptOperation, HandleClose
<1> SUFFICES ASSUME NEW room \in LastingRooms PROVE LogClosed(RoomOf(room).log')
  BY <1>2 DEF LogsClosed
<1>5. IsList(RoomOf(room).log) /\ LogClosed(RoomOf(room).log)
  BY RoomOfIsRoom DEF IsRoom, WaitInv, LogsClosed
<1>6. CASE RoomOf(room).log' = <<>>
  BY <1>6, EmptyList DEF LogClosed
<1>7. ASSUME m.type = "operation", At(rooms, room, m.client, c)
      PROVE  LogClosed(Append(RoomOf(room).log, m.op))
  <2>1. MeantFor(c, room)
    BY <1>7 DEF MeantFor
  <2>2. Needs(m) \subseteq OpIds(Log(room))
    BY <1>3, <1>4, <2>1, HeadNeedsLogged
  <2>3. HasParent(Range(RoomOf(room).log), m.op)
    BY <1>7, <2>2, LogIsRange DEF Needs, HasParent
  <2> QED
    BY <1>5, <2>3, ClosedAppend
<1> QED
  BY <1>1, <1>3, <1>5, <1>6, <1>7, LogFacts

\* Until the others come, who joins a room is a Steady client.
LEMMA EarlyJoins ==
  ASSUME IndInv, NewestInv, CastInv, \A cl \in Client \ Steady : lives[cl] = 0,
         NEW c \in Conn, NEW m \in JoinsIn(inbox, c)
  PROVE  m.room \in LastingRooms
<1>1. owner[c] # NoOwner /\ (InSession(TheOwner(c)) => m.room = session[TheOwner(c)])
  BY DEF NewestInv, JoinsAreMeant
<1>2. TheOwner(c) \in Client /\ OwnerLife(c) \in 1..lives[TheOwner(c)] /\ lives[TheOwner(c)] \in Nat
      /\ (TheOwner(c) \in Steady => c = transport[TheOwner(c)])
  BY <1>1 DEF IndInv, FunctionsOK, TheOwner, CastInv, SteadyInv
<1>3. lives[TheOwner(c)] # 0
  BY <1>2
<1>4. TheOwner(c) \in Steady
  BY <1>2, <1>3
<1>5. InSession(TheOwner(c))
  BY <1>2, <1>4, NamesAssumption DEF IndInv, TypeOK
<1> QED
  BY <1>1, <1>4, <1>5 DEF LastingRooms, InSession

LEMMA EarlyServer ==
  ASSUME IndInv, NewestInv, CastInv, WaitInv, NEW c \in Conn, Server(c)
  PROVE  EarlyInv'
<1>1. Handle(c) /\ session' = session /\ lives' = lives
  BY DEF Server, clientVars, managerVars
<1>2. LastingRooms' = LastingRooms
  BY <1>1 DEF LastingRooms
<1>3. PICK m : m = Head(inbox[c])
  OBVIOUS
<1>4. PICK type : Reads(c, type)
  BY <1>1 DEF Handle, HandleJoin, RejectOperation, IgnoreOperation, AcceptOperation, HandleClose
<1>5. m.type = "join" => m \in JoinsIn(inbox, c)
  BY <1>3, <1>4, HandlerTakes DEF JoinsIn
<1>6. DOMAIN rooms' \subseteq DOMAIN rooms \cup (IF m.type = "join" THEN {m.room} ELSE {})
  BY <1>1, <1>3, LogFacts
<1> QED
  BY <1>1, <1>2, <1>5, <1>6, EarlyJoins DEF WaitInv, EarlyInv

LEMMA FlowsServer ==
  ASSUME ~SlowServer, BaseInv, CastInv, KeptInv, WaitInv, NEW c \in Conn, Server(c),
         NEW cl \in Client, session[cl] \in LastingRooms
  PROVE  Flowing(cl)'
<1>1. IndInv /\ NewestInv /\ Handle(c) /\ UNCHANGED <<session, transport, offlineQueue>>
  BY DEF BaseInv, Server, clientVars, managerVars
<1>2. PICK m : m = Head(inbox[c])
  OBVIOUS
<1>3. PICK type \in {"join", "operation", "close"} : Reads(c, type)
  BY <1>1 DEF Handle, HandleJoin, RejectOperation, IgnoreOperation, AcceptOperation, HandleClose
<1>4. /\ inbox[c] # <<>> /\ inbox'[c] = Tail(inbox[c]) /\ IsList(inbox[c])
      /\ \A d \in Conn : d # c => inbox'[d] = inbox[d]
  BY <1>1, <1>3 DEF Reads, IndInv, FunctionsOK, IsFunction, ListsOK
<1>5. PICK room \in LastingRooms : room = session[cl]
  OBVIOUS
<1>6. PICK B, C : B = OpIds(Log(room)) /\ C = OpIds(Log(room)')
  OBVIOUS
<1>7. B \subseteq C
  BY <1>1, <1>6, LastingLogGrows
<1>8. PICK t \in Conn : t = transport[cl]
  BY <1>1, OwnConnection DEF LastingRooms, InSession
<1>9. InSession(cl)
  BY DEF LastingRooms, InSession
<1>10. Causal(B, inbox[t]) /\ OpsCausal(B \cup Given(inbox[t]), offlineQueue[cl])
  BY <1>5, <1>6, <1>8 DEF WaitInv, SessionsInv, Flowing
<1>11. Causal(C, inbox'[t]) /\ OpsCausal(C \cup Given(inbox'[t]), offlineQueue[cl])
  <2>1. CASE t # c
    <3>1. inbox'[t] = inbox[t] /\ B \cup Given(inbox[t]) \subseteq C \cup Given(inbox[t])
      BY <1>4, <1>7, <2>1
    <3> QED
      BY <1>7, <1>10, <3>1, CausalMore, OpsCausalMore
  <2>2. CASE t = c
    <3>1. m.type = type /\ m \in Range(inbox[c])
      BY <1>1, <1>2, <1>3, HandlerTakes
    <3>2. IdsOf(m) \subseteq C
      <4>1. CASE type # "operation"
        BY <1>3, <3>1, <4>1 DEF IdsOf
      <4>2. CASE type = "operation"
        <5>1. IsOpen(cl) /\ joined[c] # NotJoined
          BY <1>2, <1>8, <1>9, <2>2, <3>1, <4>2 DEF KeptInv, FlowInv, Under, IsOpen
        <5>2. At(rooms, session[cl], cl, transport[cl])
          BY <1>1, <1>8, <2>2, <5>1, NewestIsAt
        <5>3. MeantFor(c, room)
          BY <1>5, <1>8, <2>2, <5>2 DEF MeantFor
        <5> QED
          BY <1>1, <1>2, <1>6, <5>3, HeadIsLogged
      <4> QED
        BY <4>1, <4>2
    <3>3. Causal(B \cup IdsOf(m), Tail(inbox[c]))
      BY <1>2, <1>4, <1>10, <2>2, CausalTail
    <3>4. Given(inbox[c]) \subseteq IdsOf(m) \cup Given(inbox'[c])
      BY <1>1, <1>2, <1>3, HandlerTakes DEF Given
    <3>5. B \cup IdsOf(m) \subseteq C /\ B \cup Given(inbox[c]) \subseteq C \cup Given(inbox'[c])
      BY <1>7, <3>2, <3>4
    <3> QED
      BY <1>4, <1>10, <2>2, <3>3, <3>5, CausalMore, OpsCausalMore
  <2> QED
    BY <2>1, <2>2
<1>12. OpIds(Log(session[cl]))' = C /\ transport'[cl] = t /\ offlineQueue' = offlineQueue
  BY <1>1, <1>5, <1>6, <1>8 DEF Log, RoomOf
<1> QED
  BY <1>11, <1>12 DEF Flowing

LEMMA UnreadIsGiven == \A s : Unread(s) = Given(s)
BY DEF Unread, Given, Range

\* What the server tells a session of comes after what it names.
LEMMA ToldFollows ==
  ASSUME BaseInv, CastInv, WaitInv, NEW c \in Conn, Handle(c),
         NEW cl \in Client, session[cl] \in LastingRooms, IsOpen(cl), NEW t \in Conn, t = transport[cl],
         NEW x \in Range(stream'[t]), x \notin Range(stream[t])
  PROVE  /\ Needs(x) \subseteq OpIds(known[cl]) \cup Given(stream[t])
         /\ x.type = "joined" => LogClosed(x.opLog)
<1>1. IndInv /\ RoomsInv /\ NewestInv /\ InSession(cl)
  BY DEF BaseInv, LastingRooms, InSession
<1>2. PICK m : m = Head(inbox[c])
  OBVIOUS
<1>3. ASSUME x.type # "operation", x.type # "joined"
      PROVE  Needs(x) = {} /\ (x.type = "joined" => LogClosed(x.opLog))
  BY <1>3 DEF Needs
<1>4. CASE HandleJoin(c)
  <2>1. /\ Reads(c, "join")
        /\ x.type = "presence" \/ (t = c /\ x.type = "joined" /\ x.opLog = RoomOf(m.room).log)
    BY <1>1, <1>2, <1>4, JoinFacts
  <2>2. CASE x.type = "presence"
    BY <1>3, <2>2
  <2>3. CASE t = c /\ x.type = "joined" /\ x.opLog = RoomOf(m.room).log
    <3>1. m.room = session[cl]
      BY <1>1, <1>2, <2>1, <2>3, HeadOfRoom
    <3>2. LogClosed(x.opLog)
      BY <2>3, <3>1 DEF WaitInv, LogsClosed
    <3> QED
      BY <2>3, <3>2 DEF Needs
  <2> QED
    BY <2>1, <2>2, <2>3
<1>5. CASE RejectOperation(c) \/ IgnoreOperation(c) \/ AcceptOperation(c)
  <2>1. /\ Reads(c, "operation")
        /\ \A r : \/ Log(r)' = Log(r)
                  \/ /\ r = m.room /\ At(rooms, r, m.client, c)
        /\ \/ x.type = "error"
           \/ /\ x.type = "operation" /\ x.op = m.op /\ m.op \in Log(m.room)'
              /\ m.room \in DOMAIN rooms /\ t \in PeerConns(rooms[m.room].peers)
    BY <1>1, <1>2, <1>5, OperationFacts
  <2>2. CASE x.type = "error"
    BY <1>3, <2>2
  <2>3. CASE /\ x.type = "operation" /\ x.op = m.op /\ m.op \in Log(m.room)'
             /\ m.room \in DOMAIN rooms /\ t \in PeerConns(rooms[m.room].peers)
    <3>1. m.room = session[cl]
      BY <1>1, <2>3 DEF RoomsInv
    <3>2. PICK room \in LastingRooms : room = session[cl]
      OBVIOUS
    <3>3. PICK dl : At(rooms, room, dl, t)
      BY <2>3, <3>1, <3>2 DEF PeerConns, At, Range
    <3>4. joined[t] = <<room, dl>>
      BY <3>3 DEF CastInv, MembersInv
    <3>5. joined[transport[cl]] # NotJoined
      BY <3>4 DEF NotJoined
    <3>6. At(rooms, session[cl], cl, transport[cl])
      BY <1>1, <3>5, NewestIsAt
    <3>7. LogIds(rooms, session[cl]) \subseteq OpIds(known[cl]) \cup Unread(stream[transport[cl]])
      BY <1>1, <3>6 DEF IndInv, LogIsSeenOrUnread
    <3>8. OpIds(Log(room)) \subseteq OpIds(known[cl]) \cup Given(stream[t])
      BY <2>3, <3>1, <3>2, <3>7, UnreadIsGiven DEF LogIds, Log, RoomOf
    <3>9. ASSUME m.op.dep # Root PROVE m.op.dep \in OpIds(Log(room))
      <4>1. CASE Log(room)' = Log(room)
        <5>1. m.op \in Range(RoomOf(room).log)
          BY <2>3, <3>1, <3>2, <4>1, LogIsRange
        <5>2. LogClosed(RoomOf(room).log)
          BY DEF WaitInv, LogsClosed
        <5> DEFINE log == RoomOf(room).log
        <5>3. PICK i \in DOMAIN log : log[i] = m.op
          BY <5>1 DEF Range
        <5>4. PICK j \in DOMAIN log : log[j].id = m.op.dep
          BY <3>9, <5>2, <5>3 DEF LogClosed
        <5>5. log[j] \in Range(log)
          BY DEF Range
        <5> QED
          BY <5>4, <5>5, LogIsRange DEF OpIds
      <4>2. CASE At(rooms, room, m.client, c)
        <5>1. MeantFor(c, room)
          BY <4>2 DEF MeantFor
        <5>2. Needs(m) \subseteq OpIds(Log(room)) /\ m.type = "operation"
          BY <1>1, <1>2, <2>1, <5>1, HeadNeedsLogged, HandlerTakes
        <5> QED
          BY <3>9, <5>2 DEF Needs
      <4> QED
        BY <2>1, <4>1, <4>2
    <3> QED
      BY <2>3, <3>8, <3>9 DEF Needs
  <2> QED
    BY <2>1, <2>2, <2>3
<1>6. CASE HandleClose(c)
  <2>1. x.type = "presence"
    BY <1>1, <1>6, CloseFacts
  <2> QED
    BY <1>3, <2>1
<1> QED
  BY <1>4, <1>5, <1>6 DEF Handle

LEMMA HeardServer ==
  ASSUME BaseInv, CastInv, WaitInv, NEW c \in Conn, Server(c),
         NEW cl \in Client, session[cl] \in LastingRooms, IsOpen(cl)
  PROVE  Heard(cl)'
<1>1. IndInv /\ Handle(c) /\ UNCHANGED <<known, session, transport>>
  BY DEF BaseInv, Server, clientVars, managerVars, crdtVars
<1>2. InSession(cl)
  BY DEF LastingRooms, InSession
<1>3. PICK t \in Conn : t = transport[cl]
  BY <1>1, <1>2, OwnConnection
<1>4. PICK K : K = OpIds(known[cl])
  OBVIOUS
<1>5. Causal(K, stream[t]) /\ \A x \in Range(stream[t]) : x.type = "joined" => LogClosed(x.opLog)
  BY <1>3, <1>4 DEF WaitInv, SessionsInv, Heard
<1>6. IsList(stream[t]) /\ IsList(stream'[t])
  <2>1. IndInv'
    BY <1>1, ServerStep
  <2> QED
    BY <1>1, <2>1 DEF IndInv, ListsOK
<1>7. Begins(stream[t], stream'[t])
  BY <1>1, ServerBegins
<1>8. ASSUME NEW x \in Range(stream'[t])
      PROVE  Needs(x) \subseteq K \cup Given(stream[t]) /\ (x.type = "joined" => LogClosed(x.opLog))
  <2>1. CASE x \in Range(stream[t])
    BY <1>5, <2>1, CausalNeeds
  <2>2. CASE x \notin Range(stream[t])
    BY <1>1, <1>3, <1>4, <2>2, ToldFollows
  <2> QED
    BY <2>1, <2>2
<1>9. Causal(K, stream'[t])
  BY <1>5, <1>6, <1>7, <1>8, CausalLonger
<1> QED
  BY <1>1, <1>3, <1>4, <1>8, <1>9 DEF Heard

LEMMA WaitServer ==
  ASSUME ~SlowServer, BaseInv, CastInv, KeptInv, WaitInv, NEW c \in Conn, Server(c)
  PROVE  WaitInv'
<1>1. IndInv /\ NewestInv
  BY DEF BaseInv
<1>2. UNCHANGED <<known, elements, session, transport>> /\ status' = status
  BY DEF Server, clientVars, managerVars, crdtVars, Handle, HandleJoin, RejectOperation, IgnoreOperation,
         AcceptOperation, HandleClose
<1>3. LastingRooms' = LastingRooms /\ \A cl \in Client : IsOpen(cl)' <=> IsOpen(cl)
  BY <1>2 DEF LastingRooms, IsOpen
<1>4. EarlyInv' /\ LogsClosed' /\ BoxInv'
  BY <1>1, EarlyServer, LogsStayClosed, BoxServer
<1>5. SessionsInv'
  BY <1>2, <1>3, FlowsServer, HeardServer DEF SessionsInv
<1>6. NoneWaits'
  BY <1>2, <1>3 DEF WaitInv, NoneWaits
<1> QED
  BY <1>4, <1>5, <1>6 DEF WaitInv

\* A step of client cl after which the others are as they were.
LEMMA WaitAlone ==
  ASSUME IndInv, WaitInv, NEW cl \in Client, rooms' = rooms, EarlyInv',
         \A room \in LastingRooms' :
           room \in LastingRooms \/ (room \notin DOMAIN rooms /\ \A c \in Conn : ~MeantFor(c, room)'),
         \A c \in Conn : \/ inbox'[c] = inbox[c] \/ inbox'[c] = Append(inbox[c], CloseMsg)
                         \/ JoinFirst(inbox'[c]) /\ \A m \in Range(inbox'[c]) : m.type \in {"join", "close"},
         \A dl \in Client : dl # cl =>
           /\ session'[dl] = session[dl] /\ transport'[dl] = transport[dl] /\ known'[dl] = known[dl]
           /\ elements'[dl] = elements[dl] /\ offlineQueue'[dl] = offlineQueue[dl]
           /\ session'[dl] \in LastingRooms' => session[dl] \in LastingRooms
           /\ InSession(dl) => /\ inbox'[transport[dl]] = inbox[transport[dl]]
                               /\ status'[transport[dl]] = status[transport[dl]]
                               /\ stream'[transport[dl]] = stream[transport[dl]],
         session'[cl] \in LastingRooms' =>
           Flowing(cl)' /\ (IsOpen(cl)' => Heard(cl)') /\ elements'[cl] = known'[cl]
  PROVE  WaitInv'
<1>1. \A room : Log(room)' = Log(room) /\ RoomOf(room)' = RoomOf(room)
  BY DEF Log, RoomOf
<1>2. LogsClosed'
  <2>1. \A room : room \notin DOMAIN rooms => LogClosed(RoomOf(room).log)
    BY EmptyList DEF RoomOf, NewRoom, LogClosed
  <2> QED
    BY <1>1, <2>1 DEF WaitInv, LogsClosed
<1>3. CloseMsg.type = "close" /\ Needs(CloseMsg) = {}
  BY DEF CloseMsg, Needs
<1>4. \A c \in Conn : IsList(inbox[c]) /\ Range(Append(inbox[c], CloseMsg)) \subseteq Range(inbox[c]) \cup {CloseMsg}
  BY Ranges DEF IndInv, ListsOK
<1>5. ASSUME NEW c \in Conn PROVE JoinFirst(inbox'[c]) /\ \A m \in Range(inbox'[c]) : m.type # "joined"
  <2>1. JoinFirst(inbox[c]) /\ \A m \in Range(inbox[c]) : m.type # "joined"
    BY DEF WaitInv, BoxInv
  <2>2. JoinFirst(Append(inbox[c], CloseMsg))
    BY <1>3, <1>4, <2>1, JoinFirstAppend
  <2> QED
    BY <1>3, <1>4, <2>1, <2>2
<1>6. ASSUME NEW c \in Conn, NEW room \in LastingRooms', MeantFor(c, room)'
      PROVE  /\ Causal(OpIds(Log(room)), inbox'[c])
             /\ \A m \in Range(inbox'[c]) : m.type = "operation" => m.room = room
  <2>1. room \in LastingRooms
    BY <1>6
  <2>2. CASE inbox'[c] = inbox[c] \/ inbox'[c] = Append(inbox[c], CloseMsg)
    <3>1. JoinsIn(inbox', c) \subseteq JoinsIn(inbox, c)
      BY <1>3, <1>4, <2>2 DEF JoinsIn
    <3>2. MeantFor(c, room)
      BY <1>6, <3>1 DEF MeantFor, At, JoinsIn
    <3>3. /\ Causal(OpIds(Log(room)), inbox[c])
          /\ \A m \in Range(inbox[c]) : m.type = "operation" => m.room = room
      BY <2>1, <3>2 DEF WaitInv, BoxInv
    <3>4. Causal(OpIds(Log(room)), Append(inbox[c], CloseMsg))
      BY <1>3, <1>4, <3>3, CausalAppend
    <3> QED
      BY <1>3, <1>4, <2>2, <3>3, <3>4
  <2>3. CASE \A m \in Range(inbox'[c]) : m.type \in {"join", "close"}
    <3>1. \A m \in Range(inbox'[c]) : Needs(m) = {} /\ m.type # "operation"
      BY <2>3 DEF Needs
    <3> QED
      BY <3>1, CausalFree
  <2> QED
    BY <2>2, <2>3
<1>7. BoxInv'
  BY <1>1, <1>5, <1>6 DEF BoxInv
<1>8. ASSUME NEW dl \in Client, dl # cl, session'[dl] \in LastingRooms'
      PROVE  Flowing(dl)' /\ (IsOpen(dl)' => Heard(dl)') /\ elements'[dl] = known'[dl]
  <2>1. session[dl] \in LastingRooms /\ InSession(dl)
    BY <1>8 DEF LastingRooms, InSession
  <2>2. Flowing(dl) /\ (IsOpen(dl) => Heard(dl)) /\ elements[dl] = known[dl]
    BY <2>1 DEF WaitInv, SessionsInv, NoneWaits
  <2>3. OpIds(Log(session[dl]))' = OpIds(Log(session[dl])) /\ OpIds(known[dl])' = OpIds(known[dl])
    BY <1>1, <1>8 DEF Log, RoomOf
  <2>4. IsOpen(dl)' <=> IsOpen(dl)
    BY <1>8, <2>1 DEF IsOpen
  <2> QED
    BY <1>8, <2>1, <2>2, <2>3, <2>4 DEF Flowing, Heard
<1>9. SessionsInv' /\ NoneWaits'
  BY <1>8 DEF SessionsInv, NoneWaits
<1> QED
  BY <1>2, <1>7, <1>9 DEF WaitInv

LEMMA WaitOpens ==
  ASSUME IndInv, RoomsInv, NewestInv, WaitInv, NEW cl \in Client, SocketOpens(cl)
  PROVE  WaitInv'
<1> DEFINE t == transport[cl]
           join == JoinMsg(session[cl], cl)
<1>1. /\ t # NoConn /\ status[t] = "connecting"
      /\ status' = [status EXCEPT ![t] = "open"] /\ inbox' = [inbox EXCEPT ![t] = <<join>>]
      /\ UNCHANGED <<rooms, joined, stream, session, transport, lives, known, elements, offlineQueue>>
  BY DEF SocketOpens, Open, clientVars, managerVars, crdtVars
<1>2. t \in Conn /\ t = transport[cl] /\ InSession(cl) /\ Waits(t)
  BY <1>1 DEF IndInv, TypeOK, Waits
<1>3. Range(inbox[t]) = {} /\ Range(stream[t]) = {} /\ stream[t] = <<>>
  BY <1>2, UnusedIsEmpty
<1>4. join.type = "join"
  BY DEF JoinMsg
<1>5. JoinFirst(<<join>>) /\ \A m \in Range(<<join>>) : m.type = "join"
  BY <1>4 DEF JoinFirst, Range
<1> HIDE DEF join, t
<1>6. \A c \in Conn : /\ status'[c] = IF c = t THEN "open" ELSE status[c]
                      /\ inbox'[c] = IF c = t THEN <<join>> ELSE inbox[c]
  BY <1>1 DEF IndInv, FunctionsOK, IsFunction
<1>7. \A dl \in Client : dl # cl /\ InSession(dl) =>
        inbox'[transport[dl]] = inbox[transport[dl]] /\ status'[transport[dl]] = status[transport[dl]]
  BY <1>2, <1>6, OthersConnection
<1>8. LastingRooms' = LastingRooms
  BY <1>1 DEF LastingRooms
<1>9. EarlyInv'
  BY <1>1, <1>8 DEF WaitInv, EarlyInv
<1>10. ASSUME session[cl] \in LastingRooms PROVE Flowing(cl)' /\ Heard(cl)' /\ elements[cl] = known[cl]
  <2>1. PICK B : B = OpIds(Log(session[cl]))
    OBVIOUS
  <2>2. OpsCausal(B \cup Given(inbox[t]), offlineQueue[cl]) /\ elements[cl] = known[cl]
    BY <1>2, <1>10, <2>1 DEF WaitInv, SessionsInv, Flowing, NoneWaits
  <2>3. B \cup Given(inbox[t]) \subseteq B \cup Given(inbox'[t])
    BY <1>3 DEF Given
  <2>4. OpsCausal(B \cup Given(inbox'[t]), offlineQueue[cl])
    BY <2>2, <2>3, OpsCausalMore
  <2>5. Causal(B, inbox'[t])
    <3>1. \A m \in Range(inbox'[t]) : Needs(m) = {}
      BY <1>2, <1>5, <1>6 DEF Needs
    <3> QED
      BY <3>1, CausalFree
  <2>6. OpIds(Log(session[cl]))' = B /\ transport'[cl] = t /\ offlineQueue' = offlineQueue /\ stream' = stream
    BY <1>1, <1>2, <2>1 DEF Log, RoomOf
  <2>7. Causal(OpIds(known[cl])', stream[t])
    BY <1>3, CausalFree
  <2> QED
    BY <1>3, <2>2, <2>4, <2>5, <2>6, <2>7 DEF Flowing, Heard
<1>11. \A c \in Conn : \/ inbox'[c] = inbox[c]
                       \/ JoinFirst(inbox'[c]) /\ \A m \in Range(inbox'[c]) : m.type \in {"join", "close"}
  BY <1>5, <1>6
<1> QED
  BY <1>1, <1>7, <1>8, <1>9, <1>10, <1>11, WaitAlone

\* What cl has queued, and a connection that gives nothing before it.
LEMMA QueueFollows ==
  ASSUME WaitInv, NEW cl \in Client, session[cl] \in LastingRooms,
         \A m \in Range(inbox[transport[cl]]) : m.type \notin {"operation", "joined"},
         UNCHANGED <<rooms, session, offlineQueue>>,
         \A m \in Range(inbox'[transport'[cl]]) : m.type \notin {"operation", "joined"}
  PROVE  Flowing(cl)'
<1>1. PICK B : B = OpIds(Log(session[cl]))
  OBVIOUS
<1>2. OpIds(Log(session[cl]))' = B
  BY <1>1 DEF Log, RoomOf
<1>3. Given(inbox[transport[cl]]) = {}
  BY DEF Given, IdsOf
<1>4. OpsCausal(B \cup Given(inbox[transport[cl]]), offlineQueue[cl])
  BY <1>1 DEF WaitInv, SessionsInv, Flowing
<1>5. OpsCausal(B \cup Given(inbox'[transport'[cl]]), offlineQueue[cl])
  <2>1. B \cup Given(inbox[transport[cl]]) \subseteq B \cup Given(inbox'[transport'[cl]])
    BY <1>3
  <2> QED
    BY <1>4, <2>1, OpsCausalMore
<1>6. Causal(B, inbox'[transport'[cl]])
  <2>1. \A m \in Range(inbox'[transport'[cl]]) : Needs(m) = {}
    BY DEF Needs
  <2> QED
    BY <2>1, CausalFree
<1> QED
  BY <1>2, <1>5, <1>6 DEF Flowing

LEMMA WaitBreaks ==
  ASSUME ~LosesMessages, IndInv, WaitInv, NEW cl \in Client, SocketCloses(cl)
  PROVE  WaitInv'
<1>1. /\ InSession(cl) /\ transport[cl] \in Conn
      /\ UNCHANGED <<rooms, joined, session, transport, lives, known, offlineQueue>>
      /\ \A c \in Conn :
           /\ status'[c] = IF c = transport[cl] THEN "gone" ELSE status[c]
           /\ c # transport[cl] => inbox'[c] = inbox[c]
      /\ Range(inbox[transport[cl]]) = {} /\ Range(inbox'[transport[cl]]) \subseteq {CloseMsg}
  BY BreakFacts
<1>2. elements' = elements /\ \A c \in Conn : c # transport[cl] => stream'[c] = stream[c]
  <2>1. elements' = elements /\ (stream' = stream \/ stream' = [stream EXCEPT ![transport[cl]] = <<>>])
    BY DEF SocketCloses, crdtVars
  <2> QED
    BY <2>1 DEF IndInv, FunctionsOK, IsFunction
<1>3. CloseMsg.type = "close"
  BY DEF CloseMsg
<1>4. LastingRooms' = LastingRooms
  BY <1>1 DEF LastingRooms
<1>5. EarlyInv'
  BY <1>1, <1>4 DEF WaitInv, EarlyInv
<1>6. \A dl \in Client : dl # cl /\ InSession(dl) =>
        /\ inbox'[transport[dl]] = inbox[transport[dl]] /\ status'[transport[dl]] = status[transport[dl]]
        /\ stream'[transport[dl]] = stream[transport[dl]]
  BY <1>1, <1>2, OthersConnection
<1>7. ~IsOpen(cl)'
  BY <1>1 DEF IsOpen
<1>8. session[cl] \in LastingRooms => Flowing(cl)' /\ elements[cl] = known[cl]
  BY <1>1, <1>3, QueueFollows DEF WaitInv, NoneWaits
<1>9. \A c \in Conn : \/ inbox'[c] = inbox[c]
                      \/ JoinFirst(inbox'[c]) /\ \A m \in Range(inbox'[c]) : m.type \in {"join", "close"}
  <2>1. \A m \in Range(inbox'[transport[cl]]) : m.type = "close"
    BY <1>1, <1>3
  <2>2. JoinFirst(inbox'[transport[cl]])
    BY <2>1, NoJoinIsFirst
  <2> QED
    BY <1>1, <2>1, <2>2
<1> QED
  BY <1>1, <1>2, <1>4, <1>5, <1>6, <1>7, <1>8, <1>9, WaitAlone

LEMMA WaitReconnects ==
  ASSUME IndInv, LinkInv, RoomsInv, NewestInv, CastInv, KeptInv, WaitInv, NEW cl \in Client, Reconnect(cl)
  PROVE  WaitInv'
<1>1. PICK new \in Conn :
        /\ InSession(cl) /\ ~IsOpen(cl) /\ Waits(new) /\ Waits(new)' /\ transport'[cl] = new
        /\ \A dl \in Client : InSession(dl) => transport[dl] # new
        /\ \A dl \in Client : dl # cl => transport'[dl] = transport[dl]
        /\ \A c \in Conn : c # new => status'[c] = status[c]
        /\ UNCHANGED <<rooms, joined, inbox, stream, session, lives, known, offlineQueue>>
  BY ReconnectFacts
<1>2. Range(inbox[new]) = {} /\ elements' = elements
  BY <1>1, UnusedIsEmpty DEF Reconnect, crdtVars
<1>3. \A dl \in Client : dl # cl /\ InSession(dl) => status'[transport[dl]] = status[transport[dl]]
  BY <1>1, OthersConnection
<1>4. LastingRooms' = LastingRooms
  BY <1>1 DEF LastingRooms
<1>5. EarlyInv'
  BY <1>1, <1>4 DEF WaitInv, EarlyInv
<1>6. \A m \in Range(inbox[transport[cl]]) : m.type \notin {"operation", "joined"}
  <2>1. transport[cl] \in Conn
    BY <1>1, OwnConnection
  <2>2. \A m \in Range(inbox[transport[cl]]) : m.type # "operation"
    BY <1>1 DEF KeptInv, FlowInv, Under
  <2> QED
    BY <2>1, <2>2 DEF WaitInv, BoxInv
<1>7. ~IsOpen(cl)'
  BY <1>1 DEF IsOpen, Waits
<1>8. session[cl] \in LastingRooms => Flowing(cl)' /\ elements[cl] = known[cl]
  BY <1>1, <1>2, <1>6, QueueFollows DEF WaitInv, NoneWaits
<1> QED
  BY <1>1, <1>2, <1>3, <1>4, <1>5, <1>7, <1>8, WaitAlone

\* Of what a session loses and says when it ends.
LEMMA ChangeAlso ==
  ASSUME IndInv, ElementsInv, NEW cl \in Client, NEW room, NEW new, ChangeSession(cl, room, new)
  PROVE  /\ \A dl \in Client : elements'[dl] = IF dl = cl THEN {} ELSE elements[dl]
         /\ \A c \in Conn : inbox'[c] = inbox[c] \/ inbox'[c] = Append(inbox[c], CloseMsg)
<1>1. elements' = [elements EXCEPT ![cl] = {}]
  BY DEF ChangeSession
<1>2. \/ inbox' = inbox
      \/ inbox' = [inbox EXCEPT ![transport[cl]] = Append(inbox[transport[cl]], CloseMsg)]
  BY DEF ChangeSession
<1>3. \A dl \in Client : elements'[dl] = IF dl = cl THEN {} ELSE elements[dl]
  BY <1>1 DEF ElementsInv, IsFunction
<1>4. \A c \in Conn : inbox'[c] = inbox[c] \/ inbox'[c] = Append(inbox[c], CloseMsg)
  BY <1>2 DEF IndInv, FunctionsOK, IsFunction
<1> QED
  BY <1>3, <1>4

LEMMA WaitMoves ==
  ASSUME IndInv, RoomsInv, NewestInv, WaitInv, NEW cl \in Client, NEW room, NEW new, Moves(cl, room, new),
         new \in Conn => Waits(new) /\ Waits(new)', new \in Conn \/ room = NoRoom,
         \A dl \in Client : elements'[dl] = IF dl = cl THEN {} ELSE elements[dl],
         \A c \in Conn : inbox'[c] = inbox[c] \/ inbox'[c] = Append(inbox[c], CloseMsg),
         \A dl \in Client : dl # cl /\ session'[dl] \in LastingRooms' => session[dl] \in LastingRooms,
         EarlyInv',
         \A r \in LastingRooms' :
           r \in LastingRooms \/ (r \notin DOMAIN rooms /\ \A c \in Conn : ~MeantFor(c, r)')
  PROVE  WaitInv'
<1>1. /\ rooms' = rooms /\ stream' = stream /\ known'[cl] = {} /\ offlineQueue'[cl] = <<>>
      /\ session'[cl] = room /\ transport'[cl] = new /\ elements'[cl] = {}
      /\ \A dl \in Client : dl # cl =>
           /\ session'[dl] = session[dl] /\ transport'[dl] = transport[dl]
           /\ known'[dl] = known[dl] /\ offlineQueue'[dl] = offlineQueue[dl] /\ elements'[dl] = elements[dl]
      /\ \A c \in Conn :
           /\ Range(inbox'[c]) \subseteq Range(inbox[c]) \cup {CloseMsg}
           /\ c # transport[cl] => inbox'[c] = inbox[c]
           /\ c # new /\ c # transport[cl] => status'[c] = status[c]
      /\ \A dl \in Client : InSession(dl) => transport[dl] # new /\ transport[dl] \in Conn
  BY DEF Moves
<1>2. ASSUME NEW dl \in Client, dl # cl, InSession(dl)
      PROVE  /\ inbox'[transport[dl]] = inbox[transport[dl]] /\ status'[transport[dl]] = status[transport[dl]]
             /\ stream'[transport[dl]] = stream[transport[dl]]
  <2>1. transport[dl] # transport[cl]
    BY <1>2, OwnConnection
  <2> QED
    BY <1>1, <1>2, <2>1
<1>3. ASSUME session'[cl] \in LastingRooms'
      PROVE  Flowing(cl)' /\ ~IsOpen(cl)'
  <2>1. new \in Conn
    BY <1>1, <1>3 DEF LastingRooms
  <2>2. Range(inbox[new]) = {} /\ Waits(new)'
    BY <2>1, UnusedIsEmpty
  <2>3. \A m \in Range(inbox'[new]) : Needs(m) = {}
    BY <1>1, <2>1, <2>2 DEF CloseMsg, Needs
  <2>4. \A B : Causal(B, inbox'[new])
    BY <2>3, CausalFree
  <2>5. \A B : OpsCausal(B, <<>>)
    BY EmptyList DEF OpsCausal
  <2>6. ~IsOpen(cl)'
    BY <1>1, <2>2 DEF IsOpen, Waits
  <2> QED
    BY <1>1, <2>4, <2>5, <2>6 DEF Flowing
<1>4. session'[cl] \in LastingRooms' =>
        Flowing(cl)' /\ (IsOpen(cl)' => Heard(cl)') /\ elements'[cl] = known'[cl]
  BY <1>1, <1>3
<1>5. \A dl \in Client : dl # cl =>
        /\ session'[dl] = session[dl] /\ transport'[dl] = transport[dl] /\ known'[dl] = known[dl]
        /\ elements'[dl] = elements[dl] /\ offlineQueue'[dl] = offlineQueue[dl]
        /\ session'[dl] \in LastingRooms' => session[dl] \in LastingRooms
        /\ InSession(dl) => /\ inbox'[transport[dl]] = inbox[transport[dl]]
                            /\ status'[transport[dl]] = status[transport[dl]]
                            /\ stream'[transport[dl]] = stream[transport[dl]]
  BY <1>1, <1>2
<1> QED
  BY <1>1, <1>4, <1>5, WaitAlone

LEMMA WaitLeaves ==
  ASSUME IndInv, RoomsInv, ElementsInv, NewestInv, WaitInv, NEW cl \in Client, LeaveSession(cl)
  PROVE  WaitInv'
<1>1. Moves(cl, NoRoom, NoConn) /\ cl \notin Steady /\ lives' = lives
  BY LeaveFacts
<1>2. /\ \A dl \in Client : elements'[dl] = IF dl = cl THEN {} ELSE elements[dl]
      /\ \A c \in Conn : inbox'[c] = inbox[c] \/ inbox'[c] = Append(inbox[c], CloseMsg)
  BY ChangeAlso DEF LeaveSession
<1>3. LastingRooms' = LastingRooms
  BY <1>1, EnvironmentAssumption DEF Moves, LastingRooms
<1>4. EarlyInv'
  BY <1>1, <1>3 DEF WaitInv, EarlyInv, Moves
<1>5. \A dl \in Client : dl # cl /\ session'[dl] \in LastingRooms' => session[dl] \in LastingRooms
  BY <1>1, <1>3 DEF Moves
<1> QED
  BY <1>1, <1>2, <1>3, <1>4, <1>5, NamesAssumption, WaitMoves

LEMMA WaitStarts ==
  ASSUME IndInv, RoomsInv, ElementsInv, NewestInv, CastInv, WaitInv, NEW cl \in Client, NEW room,
         StartSession(cl, room)
  PROVE  WaitInv'
<1>1. PICK new \in Conn :
        /\ Moves(cl, room, new) /\ Waits(new) /\ Waits(new)'
        /\ \A dl \in Client : lives'[dl] = IF dl = cl THEN lives[cl] + 1 ELSE lives[dl]
        /\ cl \in Steady => lives[cl] < 1
  BY StartFacts
<1>2. /\ \A dl \in Client : elements'[dl] = IF dl = cl THEN {} ELSE elements[dl]
      /\ \A c \in Conn : inbox'[c] = inbox[c] \/ inbox'[c] = Append(inbox[c], CloseMsg)
  BY ChangeAlso DEF StartSession
<1>3. \A dl \in Client : dl # cl /\ session'[dl] \in LastingRooms' => session[dl] \in LastingRooms
  BY StartsAlone
<1>4. /\ \A dl \in Client : lives[dl] \in Nat /\ (lives[dl] = 0 => ~InSession(dl))
      /\ (\E dl \in Client \ Steady : lives[dl] > 0) => \A st \in Steady : IsOpen(st)
  BY DEF CastInv, SteadyInv
<1>5. rooms' = rooms /\ \A dl \in Client : session'[dl] = IF dl = cl THEN room ELSE session[dl]
  BY <1>1 DEF Moves
<1>6. cl \in Steady => ~InSession(cl) /\ \A dl \in Client \ Steady : lives[dl] = 0
  <2> SUFFICES ASSUME cl \in Steady PROVE ~InSession(cl) /\ \A dl \in Client \ Steady : lives[dl] = 0
    OBVIOUS
  <2>1. lives[cl] = 0 /\ ~InSession(cl)
    BY <1>1, <1>4
  <2>2. ~IsOpen(cl)
    BY <2>1 DEF IsOpen, IndInv, TypeOK
  <2>3. \A dl \in Client \ Steady : ~(lives[dl] > 0)
    BY <1>4, <2>2
  <2> QED
    BY <1>4, <2>1, <2>3
<1>7. LastingRooms \subseteq LastingRooms'
  BY <1>5, <1>6, EnvironmentAssumption DEF LastingRooms, InSession
<1>8. EarlyInv'
  <2> SUFFICES ASSUME \A dl \in Client \ Steady : lives'[dl] = 0 PROVE DOMAIN rooms \subseteq LastingRooms'
    BY <1>5 DEF EarlyInv
  <2>1. cl \in Steady
    <3>1. lives'[cl] # 0
      BY <1>1, <1>4
    <3> QED
      BY <3>1
  <2> QED
    BY <1>6, <1>7, <2>1 DEF WaitInv, EarlyInv
<1>9. ASSUME NEW r \in LastingRooms', r \notin LastingRooms
      PROVE  r \notin DOMAIN rooms /\ \A c \in Conn : ~MeantFor(c, r)'
  <2>1. cl \in Steady
    BY <1>5, <1>9, EnvironmentAssumption DEF LastingRooms
  <2>2. r \notin DOMAIN rooms
    BY <1>6, <1>9, <2>1 DEF WaitInv, EarlyInv
  <2>3. ASSUME NEW c \in Conn, MeantFor(c, r)' PROVE FALSE
    <3>1. ~(\E dl : At(rooms', r, dl, c))
      BY <1>5, <2>2 DEF At
    <3>2. PICK m \in JoinsIn(inbox', c) : m.room = r
      BY <2>3, <3>1 DEF MeantFor, At, JoinsIn
    <3>3. m \in JoinsIn(inbox, c)
      BY <1>1 DEF Moves, JoinsIn, CloseMsg
    <3>4. m.room \in LastingRooms
      BY <1>6, <2>1, <3>3, EarlyJoins
    <3> QED
      BY <1>9, <3>2, <3>4
  <2> QED
    BY <2>2, <2>3
<1> QED
  BY <1>1, <1>2, <1>3, <1>8, <1>9, WaitMoves

LEMMA WaitStep ==
  ASSUME ~EarlyEdits, QueueSent, ~LosesMessages, ~LateDelivery, ~SlowServer, ~Restarts,
         BaseInv, CastInv, KeptInv, WaitInv, RoomsInv', [Next]_vars
  PROVE  WaitInv'
<1>1. IndInv /\ LinkInv /\ LogCameFirst /\ RoomsInv /\ ElementsInv /\ NewestInv
  BY DEF BaseInv
<1>2. ASSUME NEW c \in Conn, Server(c) PROVE WaitInv'
  BY <1>2, WaitServer
<1>3. ASSUME NEW c \in Conn, Message(c) PROVE WaitInv'
  BY <1>1, <1>3, MessageIsStep, WaitWithin
<1>4. ASSUME NEW cl \in Client, NEW room \in Room, StartSession(cl, room) PROVE WaitInv'
  BY <1>1, <1>4, WaitStarts
<1>5. ASSUME NEW cl \in Client, LeaveSession(cl) PROVE WaitInv'
  BY <1>1, <1>5, WaitLeaves
<1>6. ASSUME NEW cl \in Client, NEW dep \in {Root} \cup OpIds(elements[cl]), Edit(cl, dep) PROVE WaitInv'
  BY <1>1, <1>6, EditIsStep, WaitWithin
<1>7. ASSUME NEW cl \in Client, SocketOpens(cl) PROVE WaitInv'
  BY <1>1, <1>7, WaitOpens
<1>8. ASSUME NEW cl \in Client, SocketCloses(cl) PROVE WaitInv'
  BY <1>1, <1>8, WaitBreaks
<1>9. ASSUME NEW cl \in Client, Reconnect(cl) PROVE WaitInv'
  BY <1>1, <1>9, WaitReconnects
<1>10. ASSUME NEW cl \in Client, NEW i \in DOMAIN rendering[cl], RenderDone(cl, i) PROVE WaitInv'
  BY <1>1, <1>10, RenderIsStep, WaitWithin
<1>11. ~ServerRestarts
  BY DEF ServerRestarts
<1>12. CASE UNCHANGED vars
  <2>1. UNCHANGED <<rooms, joined, inbox, stream, status, session, transport, owner, lives, known, elements, offlineQueue>>
    BY <1>12 DEF vars, serverVars, connVars, clientVars, managerVars, crdtVars
  <2>2. LastingRooms' = LastingRooms
    BY <2>1 DEF LastingRooms
  <2>3. EarlyInv' /\ LogsClosed' /\ NoneWaits'
    BY <2>1, <2>2 DEF WaitInv, EarlyInv, LogsClosed, NoneWaits, RoomOf
  <2>4. BoxInv'
    BY <2>1, <2>2 DEF WaitInv, BoxInv, MeantFor, JoinsIn, Log, RoomOf
  <2>5. SessionsInv'
    BY <2>1, <2>2 DEF WaitInv, SessionsInv, Flowing, Heard, IsOpen, Log, RoomOf
  <2> QED
    BY <2>3, <2>4, <2>5 DEF WaitInv
<1> QED
  BY <1>2, <1>3, <1>4, <1>5, <1>6, <1>7, <1>8, <1>9, <1>10, <1>11, <1>12 DEF Next

-----------------------------------------------------------------------------
(* What is queued is sent when the join is answered.                       *)

Up(cl) == InSession(cl) /\ IsOpen(cl) /\ Answered(cl) /\ lives[cl] \notin Range(rendering[cl])

\* The calls that wait for a render.
RendersOK == IsFunction(rendering, Client) /\ \A cl \in Client : IsList(rendering[cl])

LEMMA QueueInit == Init => QueueSent /\ RendersOK
BY EmptyList DEF Init, QueueSent, InSession, RendersOK, IsFunction

LEMMA RendersStep ==
  ASSUME RendersOK, [Next]_vars
  PROVE  RendersOK'
<1>1. ASSUME NEW cl, NEW s, rendering' = [rendering EXCEPT ![cl] = s], cl \in Client => IsList(s)
      PROVE  RendersOK'
  BY <1>1 DEF RendersOK, IsFunction
<1>2. ASSUME rendering' = rendering PROVE RendersOK'
  BY <1>2 DEF RendersOK
<1>3. ASSUME NEW c \in Conn, ReplayLog(c) PROVE RendersOK'
  <2>1. PICK cl : rendering' = [rendering EXCEPT ![cl] = Append(rendering[cl], lives[cl])]
    BY <1>3 DEF ReplayLog
  <2>2. cl \in Client => IsList(Append(rendering[cl], lives[cl]))
    BY ListAppend DEF RendersOK
  <2> QED
    BY <1>1, <2>1, <2>2
<1>4. ASSUME NEW cl \in Client, NEW i \in DOMAIN rendering[cl], RenderDone(cl, i) PROVE RendersOK'
  <2>1. rendering' = [rendering EXCEPT ![cl] = RemoveAt(rendering[cl], i)]
    BY <1>4 DEF RenderDone
  <2> DEFINE s == rendering[cl]
             len == Len(s)
  <2>2. s \in Seq(Range(s)) /\ len \in Nat /\ DOMAIN s = 1..len
    BY LenProperties DEF RendersOK, IsList
  <2>3. i \in 1..len /\ \A j \in 1..len : s[j] \in Range(s)
    BY <2>2 DEF Range
  <2> HIDE DEF s, len
  <2>4. SubSeq(s, 1, i - 1) \in Seq(Range(s)) /\ SubSeq(s, i + 1, len) \in Seq(Range(s))
    BY <2>2, <2>3, SubSeqProperties
  <2>5. RemoveAt(s, i) \in Seq(Range(s))
    BY <2>4, ConcatProperties DEF RemoveAt, len
  <2> QED
    BY <1>1, <2>1, <2>5, SeqIsList DEF s
<1>5. ASSUME NEW c \in Conn, Message(c) PROVE RendersOK'
  <2>1. HandleNothing(c) \/ HandleTransportOperation(c) \/ EmptyLog(c) => rendering' = rendering
    BY DEF HandleNothing, HandleTransportOperation, EmptyLog, clientVars, managerVars
  <2> QED
    BY <1>2, <1>3, <1>5, <2>1 DEF Message
<1>6. ASSUME NEW c \in Conn, Server(c) PROVE RendersOK'
  BY <1>2, <1>6 DEF Server, clientVars, managerVars
<1>7. ASSUME NEW cl \in Client, NEW room, NEW dep,
             \/ StartSession(cl, room) \/ LeaveSession(cl) \/ Edit(cl, dep)
             \/ SocketOpens(cl) \/ SocketCloses(cl) \/ Reconnect(cl)
      PROVE  RendersOK'
  BY <1>2, <1>7 DEF StartSession, LeaveSession, ChangeSession, Edit, SocketOpens, SocketCloses, Reconnect,
                    clientVars, managerVars
<1>8. ServerRestarts \/ UNCHANGED vars => RendersOK'
  BY <1>2 DEF ServerRestarts, vars, clientVars, managerVars
<1> QED
  BY <1>4, <1>5, <1>6, <1>7, <1>8 DEF Next

LEMMA QueueAlone ==
  ASSUME IndInv, QueueSent, NEW cl \in Client,
         \A dl \in Client : dl # cl => session'[dl] = session[dl],
         \A dl \in Client : dl # cl /\ InSession(dl) =>
           /\ transport'[dl] = transport[dl] /\ lives'[dl] = lives[dl] /\ rendering'[dl] = rendering[dl]
           /\ offlineQueue'[dl] = offlineQueue[dl]
           /\ joined'[transport[dl]] = joined[transport[dl]] /\ stream'[transport[dl]] = stream[transport[dl]]
           /\ status'[transport[dl]] = status[transport[dl]],
         Up(cl)' => offlineQueue'[cl] = <<>>
  PROVE  QueueSent'
<1>1. ASSUME NEW dl \in Client, dl # cl, Up(dl)' PROVE offlineQueue'[dl] = <<>>
  <2>1. InSession(dl)
    BY <1>1 DEF Up, InSession
  <2>2. Up(dl)
    BY <1>1, <2>1 DEF Up, IsOpen, Answered
  <2> QED
    BY <1>1, <2>1, <2>2 DEF QueueSent, Up
<1> QED
  BY <1>1 DEF QueueSent, Up

\* The connection of a session reads on, or somebody else's does.
LEMMA QueueReads ==
  ASSUME ~LateDelivery, IndInv, LinkInv, QueueSent, NEW c \in Conn, NEW type, Reading(c, type),
         NEW cl, cl = TheOwner(c), UNCHANGED <<session, transport, lives>>,
         \A dl \in Client : dl # cl => rendering'[dl] = rendering[dl] /\ offlineQueue'[dl] = offlineQueue[dl],
         \/ type # "joined" /\ UNCHANGED <<rendering, offlineQueue>>
         \/ Up(cl)' => offlineQueue'[cl] = <<>>
  PROVE  QueueSent'
<1>1. /\ Head(stream[c]).type = type
      /\ \A d \in Conn : d # c => stream'[d] = stream[d]
      /\ stream[c] # <<>> /\ stream'[c] = Tail(stream[c])
      /\ TheOwner(c) \in Client /\ transport[TheOwner(c)] = c
      /\ InSession(TheOwner(c)) /\ UNCHANGED <<joined, status>>
  BY ReadIsStep
<1>2. cl \in Client /\ transport[cl] = c /\ InSession(cl)
  BY <1>1
<1>3. \A dl \in Client : dl # cl /\ InSession(dl) => stream'[transport[dl]] = stream[transport[dl]]
  BY <1>1, <1>2, OthersConnection
<1>4. ASSUME type # "joined", UNCHANGED <<rendering, offlineQueue>>, Up(cl)' PROVE offlineQueue'[cl] = <<>>
  <2>1. \A m \in Range(stream[c]) : m.type # "joined"
    <3>1. \A m \in Range(stream'[c]) : m.type # "joined"
      BY <1>1, <1>2, <1>4 DEF Up, Answered
    <3>2. IsList(stream[c])
      BY DEF IndInv, ListsOK
    <3> QED
      BY <1>1, <1>4, <3>1, <3>2, HeadOrTail
  <2>2. Up(cl)
    BY <1>1, <1>2, <1>4, <2>1 DEF Up, IsOpen, Answered, InSession
  <2> QED
    BY <1>2, <1>4, <2>2 DEF QueueSent, Up
<1>5. Up(cl)' => offlineQueue'[cl] = <<>>
  BY <1>2, <1>4
<1> QED
  BY <1>1, <1>2, <1>3, <1>5, QueueAlone

LEMMA ReadyEmpties ==
  ASSUME IndInv, NEW cl \in Client, NEW box, NEW queue, Ready(cl, box, queue), UNCHANGED <<session, transport, status>>
  PROVE  /\ Up(cl)' => offlineQueue'[cl] = <<>>
         /\ \A dl \in Client : dl # cl => offlineQueue'[dl] = offlineQueue[dl]
<1>1. \/ InSession(cl) /\ offlineQueue' = [offlineQueue EXCEPT ![cl] = Queued(cl, <<>>, queue)]
      \/ ~InSession(cl) /\ offlineQueue' = [offlineQueue EXCEPT ![cl] = queue]
  BY DEF Ready
<1>2. \A dl \in Client : dl # cl => offlineQueue'[dl] = offlineQueue[dl]
  BY <1>1 DEF IndInv, FunctionsOK, IsFunction
<1>3. ASSUME Up(cl)' PROVE offlineQueue'[cl] = <<>>
  <2>1. InSession(cl) /\ IsOpen(cl)
    BY <1>3 DEF Up, InSession, IsOpen
  <2>2. Queued(cl, <<>>, queue) = <<>>
    BY <2>1 DEF Queued
  <2>3. offlineQueue' = [offlineQueue EXCEPT ![cl] = <<>>]
    BY <1>1, <2>1, <2>2
  <2> QED
    BY <2>3 DEF IndInv, FunctionsOK, IsFunction
<1> QED
  BY <1>2, <1>3

LEMMA QueueMessage ==
  ASSUME ~LateDelivery, IndInv, LinkInv, QueueSent, RendersOK, NEW c \in Conn, Message(c)
  PROVE  QueueSent'
<1>1. PICK cl : cl = TheOwner(c)
  OBVIOUS
<1>2. CASE HandleNothing(c)
  <2>1. UNCHANGED <<session, transport, lives, rendering, offlineQueue>>
    BY <1>2 DEF HandleNothing, clientVars, managerVars
  <2>2. ASSUME NEW type, Reading(c, type) PROVE InSession(TheOwner(c))
    BY <2>2, ReadIsStep
  <2>3. PICK type \in {"error", "presence"} : Reading(c, type)
    BY <1>2, <2>2 DEF HandleNothing
  <2> QED
    BY <1>1, <2>1, <2>3, QueueReads
<1>3. CASE HandleTransportOperation(c)
  <2>1. UNCHANGED <<session, transport, lives, rendering, offlineQueue>> /\ Reading(c, "operation")
    BY <1>3 DEF HandleTransportOperation, managerVars
  <2> QED
    BY <1>1, <2>1, QueueReads
<1>4. CASE ReplayLog(c)
  <2>1. /\ UNCHANGED <<session, transport, lives, offlineQueue>> /\ Reading(c, "joined")
        /\ rendering' = [rendering EXCEPT ![cl] = Append(rendering[cl], lives[cl])]
    BY <1>1, <1>4 DEF ReplayLog
  <2>2. cl \in Client
    BY <1>1, <2>1, ReadIsStep
  <2>3. \A dl \in Client : rendering'[dl] = IF dl = cl THEN Append(rendering[cl], lives[cl]) ELSE rendering[dl]
    BY <2>1 DEF LinkInv, IsFunction
  <2>4. lives[cl] \in Range(rendering'[cl])
    BY <2>2, <2>3, InAppended DEF RendersOK
  <2>5. ~Up(cl)'
    BY <2>1, <2>4 DEF Up
  <2> QED
    BY <1>1, <2>1, <2>3, <2>5, QueueReads
<1>5. CASE EmptyLog(c)
  <2>1. /\ UNCHANGED <<session, transport, lives, rendering>> /\ Reading(c, "joined")
        /\ \E box, queue : Ready(cl, box, queue)
    BY <1>1, <1>5 DEF EmptyLog
  <2>2. cl \in Client /\ status' = status
    BY <1>1, <2>1, ReadIsStep
  <2>3. /\ Up(cl)' => offlineQueue'[cl] = <<>>
        /\ \A dl \in Client : dl # cl => offlineQueue'[dl] = offlineQueue[dl]
    BY <2>1, <2>2, ReadyEmpties
  <2> QED
    BY <1>1, <2>1, <2>3, QueueReads
<1> QED
  BY <1>2, <1>3, <1>4, <1>5 DEF Message

\* Whoever answers a join says so on the connection.
LEMMA QueueServer ==
  ASSUME IndInv, QueueSent, NEW c \in Conn, Server(c)
  PROVE  QueueSent'
<1>1. Handle(c) /\ UNCHANGED <<session, transport, lives, rendering, offlineQueue>>
  BY DEF Server, clientVars, managerVars
<1>2. status' = status
  BY <1>1 DEF Handle, HandleJoin, RejectOperation, IgnoreOperation, AcceptOperation, HandleClose
<1> SUFFICES ASSUME NEW cl \in Client, Up(cl)' PROVE offlineQueue'[cl] = <<>>
  BY DEF QueueSent, Up
<1>3. InSession(cl)
  BY <1>1 DEF Up, InSession
<1>4. PICK t \in Conn : t = transport[cl]
  BY <1>3, OwnConnection
<1>5. joined'[t] # NotJoined /\ \A m \in Range(stream'[t]) : m.type # "joined"
  BY <1>1, <1>4 DEF Up, Answered
<1>6. \A m \in Range(stream[t]) : m.type # "joined"
  <2>1. Begins(stream[t], stream'[t])
    BY <1>1, ServerBegins
  <2>2. Range(stream[t]) \subseteq Range(stream'[t])
    BY <2>1 DEF Begins, Range
  <2> QED
    BY <1>5, <2>2
<1>7. joined[t] # NotJoined
  <2>1. CASE HandleJoin(c)
    <3>1. PICK peers, answer, notice :
            /\ answer.type = "joined"
            /\ stream' = [x \in Conn |-> stream[x] \o JoinReplies(x, c, peers, answer, notice)]
      BY <2>1 DEF HandleJoin, Joined
    <3>2. t # c
      <4> SUFFICES ASSUME t = c PROVE FALSE
        OBVIOUS
      <4> DEFINE first == <<answer>>
                 second == IF t \in PeerConns(peers) THEN <<notice>> ELSE <<>>
      <4>1. stream'[t] = stream[t] \o (first \o second)
        BY <3>1 DEF JoinReplies
      <4>2. IsList(first) /\ IsList(second) /\ answer \in Range(first)
        BY EmptyList, Ranges
      <4>3. IsList(stream[t])
        BY DEF IndInv, ListsOK
      <4> HIDE DEF first, second
      <4>4. IsList(first \o second) /\ answer \in Range(first \o second)
        BY <4>2, InConcat
      <4>5. answer \in Range(stream'[t])
        BY <4>1, <4>3, <4>4, InConcat
      <4> QED
        BY <1>5, <3>1, <4>5
    <3>3. joined'[t] = joined[t]
      BY <2>1, <3>2 DEF HandleJoin
    <3> QED
      BY <1>5, <3>3
  <2>2. CASE joined' = joined
    BY <1>5, <2>2
  <2>3. ~HandleJoin(c) => joined' = joined
    BY <1>1 DEF Handle, RejectOperation, IgnoreOperation, AcceptOperation, HandleClose
  <2> QED
    BY <2>1, <2>2, <2>3
<1>8. Up(cl)
  BY <1>1, <1>2, <1>3, <1>4, <1>6, <1>7 DEF Up, Answered, IsOpen
<1> QED
  BY <1>1, <1>8 DEF QueueSent, Up

LEMMA QueueEdits ==
  ASSUME IndInv, QueueSent, NEW cl \in Client, NEW dep, Edit(cl, dep)
  PROVE  QueueSent'
<1>1. /\ UNCHANGED <<session, transport, lives, rendering, joined, stream, status>>
      /\ \E ops : offlineQueue' = [offlineQueue EXCEPT ![cl] = Queued(cl, offlineQueue[cl], ops)]
  BY DEF Edit
<1>2. IsFunction(offlineQueue, Client)
  BY DEF IndInv, FunctionsOK
<1>3. \A dl \in Client : Up(dl)' <=> Up(dl)
  BY <1>1 DEF Up, InSession, IsOpen, Answered
<1>4. ASSUME NEW dl \in Client, Up(dl) PROVE offlineQueue'[dl] = offlineQueue[dl]
  <2>1. IsOpen(dl)
    BY <1>4 DEF Up
  <2> QED
    BY <1>1, <1>2, <2>1 DEF Queued, IsFunction
<1> QED
  BY <1>3, <1>4 DEF QueueSent, Up

LEMMA QueueRenders ==
  ASSUME IndInv, LinkInv, QueueSent, NEW cl \in Client, NEW i, RenderDone(cl, i)
  PROVE  QueueSent'
<1>1. /\ UNCHANGED <<session, transport, lives, joined, stream, status>>
      /\ rendering' = [rendering EXCEPT ![cl] = RemoveAt(rendering[cl], i)]
      /\ Ready(cl, inbox, offlineQueue[cl])
  BY DEF RenderDone
<1>2. \A dl \in Client : dl # cl => rendering'[dl] = rendering[dl]
  BY <1>1 DEF LinkInv, IsFunction
<1>3. /\ Up(cl)' => offlineQueue'[cl] = <<>>
      /\ \A dl \in Client : dl # cl => offlineQueue'[dl] = offlineQueue[dl]
  BY <1>1, ReadyEmpties
<1> QED
  BY <1>1, <1>2, <1>3, QueueAlone

LEMMA QueueOpens ==
  ASSUME IndInv, RoomsInv, NewestInv, QueueSent, NEW cl \in Client, SocketOpens(cl)
  PROVE  QueueSent'
<1>1. /\ transport[cl] # NoConn /\ status[transport[cl]] = "connecting"
      /\ status' = [status EXCEPT ![transport[cl]] = "open"]
      /\ UNCHANGED <<joined, stream, session, transport, lives, rendering, offlineQueue>>
  BY DEF SocketOpens, Open, clientVars, managerVars
<1>2. InSession(cl) /\ transport[cl] \in Conn /\ Waits(transport[cl])
  BY <1>1 DEF IndInv, TypeOK, Waits
<1>3. joined[transport[cl]] = NotJoined
  BY <1>2, UnusedIsEmpty
<1>4. ~Up(cl)'
  BY <1>1, <1>3 DEF Up, Answered
<1>5. \A dl \in Client : dl # cl /\ InSession(dl) => status'[transport[dl]] = status[transport[dl]]
  BY <1>1, <1>2, OthersConnection DEF IndInv, FunctionsOK, IsFunction
<1> QED
  BY <1>1, <1>4, <1>5, QueueAlone

LEMMA QueueBreaks ==
  ASSUME IndInv, QueueSent, NEW cl \in Client, SocketCloses(cl)
  PROVE  QueueSent'
<1>1. /\ InSession(cl) /\ transport[cl] \in Conn
      /\ UNCHANGED <<joined, session, transport, lives, offlineQueue>>
      /\ \A c \in Conn : status'[c] = IF c = transport[cl] THEN "gone" ELSE status[c]
  BY BreakFacts
<1>2. rendering' = rendering /\ \A c \in Conn : c # transport[cl] => stream'[c] = stream[c]
  <2>1. rendering' = rendering /\ (stream' = stream \/ stream' = [stream EXCEPT ![transport[cl]] = <<>>])
    BY DEF SocketCloses
  <2> QED
    BY <2>1 DEF IndInv, FunctionsOK, IsFunction
<1>3. ~Up(cl)'
  BY <1>1 DEF Up, IsOpen
<1>4. \A dl \in Client : dl # cl /\ InSession(dl) =>
        status'[transport[dl]] = status[transport[dl]] /\ stream'[transport[dl]] = stream[transport[dl]]
  BY <1>1, <1>2, OthersConnection
<1> QED
  BY <1>1, <1>2, <1>3, <1>4, QueueAlone

LEMMA QueueReconnects ==
  ASSUME IndInv, LinkInv, RoomsInv, NewestInv, CastInv, QueueSent, NEW cl \in Client, Reconnect(cl)
  PROVE  QueueSent'
<1>1. PICK new \in Conn :
        /\ InSession(cl) /\ Waits(new)' /\ transport'[cl] = new
        /\ \A dl \in Client : InSession(dl) => transport[dl] # new
        /\ \A dl \in Client : dl # cl => transport'[dl] = transport[dl]
        /\ \A c \in Conn : c # new => status'[c] = status[c]
        /\ UNCHANGED <<joined, stream, session, lives, offlineQueue>>
  BY ReconnectFacts
<1>2. rendering' = rendering
  BY DEF Reconnect
<1>3. ~Up(cl)'
  BY <1>1 DEF Up, IsOpen, Waits
<1>4. \A dl \in Client : dl # cl /\ InSession(dl) => status'[transport[dl]] = status[transport[dl]]
  BY <1>1, OthersConnection
<1> QED
  BY <1>1, <1>2, <1>3, <1>4, QueueAlone

LEMMA QueueMoves ==
  ASSUME IndInv, QueueSent, NEW cl \in Client, NEW room, NEW new, Moves(cl, room, new), rendering' = rendering,
         \A dl \in Client : dl # cl => lives'[dl] = lives[dl],
         room = NoRoom \/ (new \in Conn /\ Waits(new)')
  PROVE  QueueSent'
<1>1. /\ session'[cl] = room /\ transport'[cl] = new /\ UNCHANGED <<joined, stream>>
      /\ \A dl \in Client : dl # cl =>
           session'[dl] = session[dl] /\ transport'[dl] = transport[dl] /\ offlineQueue'[dl] = offlineQueue[dl]
      /\ \A c \in Conn : c # new /\ c # transport[cl] => status'[c] = status[c]
      /\ \A dl \in Client : InSession(dl) => transport[dl] # new /\ transport[dl] \in Conn
  BY DEF Moves
<1>2. ~Up(cl)'
  BY <1>1 DEF Up, InSession, IsOpen, Waits
<1>3. ASSUME NEW dl \in Client, dl # cl, InSession(dl) PROVE status'[transport[dl]] = status[transport[dl]]
  <2>1. transport[dl] # transport[cl]
    BY <1>3, OwnConnection
  <2> QED
    BY <1>1, <1>3, <2>1
<1> QED
  BY <1>1, <1>2, <1>3, QueueAlone

LEMMA QueueStep ==
  ASSUME ~LateDelivery, ~Restarts, BaseInv, CastInv, QueueSent, RendersOK, [Next]_vars
  PROVE  QueueSent'
<1>1. IndInv /\ LinkInv /\ RoomsInv /\ NewestInv
  BY DEF BaseInv
<1>2. ASSUME NEW c \in Conn, Server(c) PROVE QueueSent'
  BY <1>1, <1>2, QueueServer
<1>3. ASSUME NEW c \in Conn, Message(c) PROVE QueueSent'
  BY <1>1, <1>3, QueueMessage
<1>4. ASSUME NEW cl \in Client, NEW room, StartSession(cl, room) PROVE QueueSent'
  <2>1. rendering' = rendering
    BY <1>4 DEF StartSession, ChangeSession
  <2>2. PICK new \in Conn :
          /\ Moves(cl, room, new) /\ Waits(new)'
          /\ \A dl \in Client : lives'[dl] = IF dl = cl THEN lives[cl] + 1 ELSE lives[dl]
    BY <1>1, <1>4, StartFacts
  <2> QED
    BY <1>1, <2>1, <2>2, QueueMoves
<1>5. ASSUME NEW cl \in Client, LeaveSession(cl) PROVE QueueSent'
  <2>1. rendering' = rendering
    BY <1>5 DEF LeaveSession, ChangeSession
  <2>2. Moves(cl, NoRoom, NoConn) /\ lives' = lives
    BY <1>1, <1>5, LeaveFacts
  <2> QED
    BY <1>1, <2>1, <2>2, QueueMoves
<1>6. ASSUME NEW cl \in Client, NEW dep, Edit(cl, dep) PROVE QueueSent'
  BY <1>1, <1>6, QueueEdits
<1>7. ASSUME NEW cl \in Client, SocketOpens(cl) PROVE QueueSent'
  BY <1>1, <1>7, QueueOpens
<1>8. ASSUME NEW cl \in Client, SocketCloses(cl) PROVE QueueSent'
  BY <1>1, <1>8, QueueBreaks
<1>9. ASSUME NEW cl \in Client, Reconnect(cl) PROVE QueueSent'
  BY <1>1, <1>9, QueueReconnects
<1>10. ASSUME NEW cl \in Client, NEW i \in DOMAIN rendering[cl], RenderDone(cl, i) PROVE QueueSent'
  BY <1>1, <1>10, QueueRenders
<1>11. ~ServerRestarts
  BY DEF ServerRestarts
<1>12. CASE UNCHANGED vars
  <2>1. UNCHANGED <<joined, stream, status, session, transport, lives, rendering, offlineQueue>>
    BY <1>12 DEF vars, serverVars, connVars, clientVars, managerVars
  <2> QED
    BY <2>1 DEF QueueSent, InSession, IsOpen, Answered
<1> QED
  BY <1>2, <1>3, <1>4, <1>5, <1>6, <1>7, <1>8, <1>9, <1>10, <1>11, <1>12 DEF Next

-----------------------------------------------------------------------------
(* The whole of it.  That nothing waits, that nothing is lost and that ids *)
(* are unique each needs the others one step before.                       *)

AllInv == /\ BaseInv /\ CastInv /\ LogInv /\ KeptInv /\ WaitInv
          /\ QueueSent /\ RendersOK

LEMMA AllInit == Init => AllInv
<1>1. Init => LogCameFirst
  BY DEF Init, LogCameFirst
<1>2. Init => BaseInv
  BY <1>1, InitIndInv, LinkInit, RoomsInit, ElementsInit, NewestInit DEF BaseInv
<1> QED
  BY <1>2, CastInit, LogInit, KeptInit, WaitInit, QueueInit DEF AllInv

LEMMA AllStep ==
  ASSUME ~EarlyEdits, ~LosesMessages, ~SlowRender, ~SlowServer, ~LateDelivery, ~Restarts
  PROVE  AllInv /\ [Next]_vars => AllInv'
<1>1. AllInv => NoneWaits /\ IndInv /\ LinkInv /\ LogCameFirst /\ RoomsInv /\ ElementsInv /\ NewestInv
  BY DEF AllInv, WaitInv, BaseInv
<1>2. AllInv /\ [Next]_vars => BaseInv'
  <2>1. AllInv /\ [Next]_vars => IndInv' /\ LinkInv'
    BY <1>1, NextIndInv, LinkStep
  <2>2. AllInv /\ [Next]_vars => LogCameFirst' /\ RoomsInv'
    BY <1>1, LogFirstStep, RoomsStep
  <2>3. AllInv /\ [Next]_vars => ElementsInv' /\ NewestInv'
    BY <1>1, ElementsStep, NewestStep
  <2> QED
    BY <2>1, <2>2, <2>3 DEF BaseInv
<1>3. AllInv /\ [Next]_vars => CastInv'
  BY CastStep DEF AllInv
<1>4. AllInv /\ [Next]_vars => LogInv'
  BY <1>1, LogStep DEF AllInv
<1>5. BaseInv' /\ CastInv' /\ LogInv' => LiveIdsAreUnique'
  BY LogGivesUnique, PTL
<1>6. AllInv /\ [Next]_vars => KeptInv'
  BY <1>2, <1>3, <1>4, <1>5, KeptStep DEF AllInv
<1>7. BaseInv' => RoomsInv'
  BY DEF BaseInv
<1>8. AllInv /\ [Next]_vars => WaitInv'
  BY <1>2, <1>7, WaitStep DEF AllInv
<1>9. AllInv /\ [Next]_vars => QueueSent' /\ RendersOK'
  BY QueueStep, RendersStep DEF AllInv
<1> QED
  BY <1>2, <1>3, <1>4, <1>6, <1>8, <1>9 DEF AllInv

LEMMA AllHolds ==
  ASSUME ~EarlyEdits, ~LosesMessages, ~SlowRender, ~SlowServer, ~LateDelivery, ~Restarts
  PROVE  Spec => []AllInv
BY AllInit, AllStep, PTL DEF Spec

\* Where a Steady client is, edits on an open socket wait for its `joined' and
\* connections lose nothing, two different operations never share an id among
\* what the log of the room and the sessions in it hold, although every session
\* counts from 0 again: the CRDT applies all that the log of the room has of its
\* client (handleTransportJoined replays it before the first edit), since each
\* operation there comes after what it names, so that next_operation_id goes on
\* from all of them; and what an earlier session still had under way is rejected
\* by is_active_sender (server.rs) once the next one has come to the room.
THEOREM LiveIdsStayUnique ==
  ASSUME ~EarlyEdits, ~LosesMessages, ~SlowRender, ~SlowServer, ~LateDelivery, ~Restarts
  PROVE  Spec => []LiveIdsAreUnique
<1>1. AllInv => LiveIdsAreUnique
  BY LogGivesUnique DEF AllInv
<1> QED
  BY <1>1, AllHolds, PTL

\* Under the same conditions, every operation that a session shows is in the log
\* of the room, on its way to it, or queued (sendOperation, offlineQueue and
\* flushOfflineQueue of sessionManager.ts): the server takes what a session
\* sends on its connection, the log does not take it for a duplicate, and where
\* the server rejects or ignores an operation (server.rs), the session is
\* another one by then.
THEOREM NothingGetsLost ==
  ASSUME ~EarlyEdits, ~LosesMessages, ~SlowRender, ~SlowServer, ~LateDelivery, ~Restarts
  PROVE  Spec => []NothingIsLost
<1>1. AllInv => NothingIsLost
  BY DEF AllInv, KeptInv
<1> QED
  BY <1>1, AllHolds, PTL

\* Under the same conditions, connected clients of a room where a Steady client
\* is show the same text when they have nothing left to send or to read: each
\* has seen the log and nothing else, and has applied all it has seen
\* (handleTransportJoined, handleTransportOperation and flushOfflineQueue of
\* sessionManager.ts, drain_pending of text_crdt.rs, the log of room.rs).
THEOREM SettledAgree ==
  ASSUME ~EarlyEdits, ~LosesMessages, ~SlowRender, ~SlowServer, ~LateDelivery, ~Restarts
  PROVE  Spec => []SettledClientsAgree
<1>1. ASSUME NothingIsLost, LiveIdsAreUnique, ReadersHaveSeenTheLog,
             NEW cl \in Client, session[cl] \in LastingRooms, Settled(cl)
      PROVE  known[cl] = Log(session[cl])
  <2>1. known[cl] \subseteq Log(session[cl])
    BY <1>1, EmptyList DEF NothingIsLost, Settled
  <2>2. ASSUME NEW p \in Log(session[cl]) PROVE p \in known[cl]
    <3>1. PICK o \in known[cl] : o.id = p.id
      BY <1>1, <2>2 DEF ReadersHaveSeenTheLog, Settled
    <3>2. o \in Log(session[cl])
      BY <2>1, <3>1
    <3> QED
      BY <1>1, <2>2, <3>1, <3>2 DEF LiveIdsAreUnique
  <2> QED
    BY <2>1, <2>2
<1>2. AllInv => NothingIsLost /\ LiveIdsAreUnique /\ NoneWaits
  BY LogGivesUnique DEF AllInv, KeptInv, WaitInv
<1>3. NothingIsLost /\ LiveIdsAreUnique /\ ReadersHaveSeenTheLog /\ NoneWaits => SettledClientsAgree
  <2> SUFFICES ASSUME NothingIsLost, LiveIdsAreUnique, ReadersHaveSeenTheLog, NoneWaits,
                      NEW cl \in Client, NEW dl \in Client, session[cl] \in LastingRooms,
                      Settled(cl), Settled(dl), session[cl] = session[dl]
               PROVE  elements[cl] = elements[dl]
    BY DEF SettledClientsAgree
  <2>1. known[cl] = Log(session[cl]) /\ known[dl] = Log(session[cl])
    BY <1>1
  <2> QED
    BY <2>1 DEF NoneWaits
<1> QED
  BY <1>2, <1>3, AllHolds, LogIsSeen, PTL

=============================================================================

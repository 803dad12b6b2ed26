------------------------- MODULE BridgeTopicsProofs -------------------------
(***************************************************************************)
(* Proofs about BridgeTopics, for any number of clients, topics,           *)
(* registrations and messages and any queue lengths.                       *)
(***************************************************************************)
EXTENDS BridgeTopics, FiniteSetTheorems, SequenceTheorems, TLAPS

(* The messages that tick has handled, and n of them as a type. *)
Handled == taken - Len(events)

ClientRec(n) == [registrations : Table(Ids, Options), last : BOOLEAN,
                 pending : Seq(1..n), sent : 0..n]

(* What waits for a client is newer than what it was handed, and in order; *)
(* a message waits only for a client that was handed one before.           *)
InLine(k) ==
    /\ k.last \/ k.pending # << >> => k.sent # 0
    /\ \A i \in 1..Len(k.pending) : k.sent < k.pending[i]
    /\ \A i, j \in 1..Len(k.pending) : i < j => k.pending[i] < k.pending[j]

Sound(k, n) == k \in ClientRec(n) /\ DOMAIN k.registrations # {} /\ InLine(k)

(* A client has nothing newer than the retained message r, and something   *)
(* if there is one.                                                        *)
Fed(k, r) ==
    /\ r # 0 => k.sent # 0
    /\ k.sent <= r
    /\ \A i \in 1..Len(k.pending) : k.pending[i] <= r

(* A subscription when e ROS subscriptions were created, n messages were   *)
(* handled and the clients in O are connected.                             *)
SubRec(e, n) == [entity : 1..e, transient_local : BOOLEAN, retained : 0..n,
                 clients : Table(Conn, ClientRec(n))]

SubSound(s, e, n, O) ==
    /\ s \in SubRec(e, n)
    /\ DOMAIN s.clients \subseteq O
    /\ \A c \in DOMAIN s.clients :
          /\ Sound(s.clients[c], n)
          /\ s.transient_local => Fed(s.clients[c], s.retained)

(* The table T belongs to the live ROS entities S: one for each entry. *)
Entities(T, S) ==
    /\ DOMAIN T \subseteq Topic
    /\ IsFiniteSet(DOMAIN T)
    /\ S = {T[t].entity : t \in DOMAIN T}
    /\ \A t, u \in DOMAIN T : T[t].entity = T[u].entity => t = u

(* Bridge.subscriptions; Bridge.publishers. *)
SubTable(T, e, n, O) == \A t \in DOMAIN T : SubSound(T[t], e, n, O)
SubsUsed(T) == \A t \in DOMAIN T : DOMAIN T[t].clients # {}
SubsOK(T, S, e, n, O) == Entities(T, S) /\ SubTable(T, e, n, O) /\ SubsUsed(T)

PubRec(e) == [entity : 1..e, owners : Table(Conn, (SUBSET Ids) \ {{}})]

PubTable(T, e, O) ==
    \A t \in DOMAIN T : T[t] \in PubRec(e) /\ DOMAIN T[t].owners \subseteq O
PubsUsed(T) == \A t \in DOMAIN T : DOMAIN T[t].owners # {}
PubsOK(T, S, e, O) == Entities(T, S) /\ PubTable(T, e, O) /\ PubsUsed(T)

(* The batch of messages, numbered without gaps. *)
Batch ==
    /\ taken \in 0..MaxMessages
    /\ events \in Seq([entity : 1..subscribed, message : 1..taken])
    /\ Len(events) <= taken
    /\ \A i \in 1..Len(events) : events[i].message = Handled + i

Subscriptions ==
    /\ subscribed \in 0..MaxSubscriptions
    /\ SubsOK(subscriptions, subs, subscribed, Handled, outputs)

Publishers ==
    /\ advertised \in 0..MaxPublishers
    /\ PubsOK(publishers, pubs, advertised, outputs)

TopicInv == ClientsTypeOK /\ Batch /\ Subscriptions /\ Publishers
-----------------------------------------------------------------------------
(* Tables: what HashMap::insert and removals leave. *)

(* What a table is. *)
LEMMA TableElements ==
    ASSUME NEW K, NEW V, NEW f \in Table(K, V)
    PROVE  DOMAIN f \subseteq K /\ \A x \in DOMAIN f : f[x] \in V
  BY DEF Table

(* A function into the values is a table. *)
LEMMA TableFrom ==
    ASSUME NEW K, NEW V, NEW D \in SUBSET K, NEW f \in [D -> V]
    PROVE  f \in Table(K, V)
  BY DEF Table

(* Insertions and removals keep the type of a table. *)
LEMMA TableWith ==
    ASSUME NEW K, NEW V, NEW f \in Table(K, V), NEW k \in K, NEW v \in V
    PROVE  With(f, k, v) \in Table(K, V)
  <1>1. DOMAIN f \subseteq K /\ \A x \in DOMAIN f : f[x] \in V
    BY TableElements
  <1>2. With(f, k, v) \in [DOMAIN f \cup {k} -> V]
    BY <1>1 DEF With
  <1>3. DOMAIN f \cup {k} \in SUBSET K
    BY <1>1
  <1> QED BY <1>2, <1>3, TableFrom

LEMMA TableWithout ==
    ASSUME NEW K, NEW V, NEW f \in Table(K, V), NEW S
    PROVE  Without(f, S) \in Table(K, V)
  <1>1. DOMAIN f \subseteq K /\ \A x \in DOMAIN f : f[x] \in V
    BY TableElements
  <1>2. Without(f, S) \in [DOMAIN f \ S -> V]
    BY <1>1 DEF Without, Restrict
  <1>3. DOMAIN f \ S \in SUBSET K
    BY <1>1
  <1> QED BY <1>2, <1>3, TableFrom

(* More values, more tables. *)
LEMMA TableMonotonic ==
    ASSUME NEW K, NEW V, NEW W, NEW f \in Table(K, V),
           \A x \in DOMAIN f : f[x] \in W
    PROVE  f \in Table(K, W)
  <1>1. PICK S \in SUBSET K : f \in [S -> V]
    BY DEF Table
  <1>2. DOMAIN f = S /\ f \in [S -> W]
    BY <1>1
  <1> QED BY <1>2, TableFrom

-----------------------------------------------------------------------------
(* Clients of a subscription. *)

(* A client stays sound as more messages are handled. *)
LEMMA RecMonotonic ==
    ASSUME NEW n \in Nat, NEW N \in Nat, n <= N, NEW k \in ClientRec(n)
    PROVE  k \in ClientRec(N)
  <1>1. k.pending \in Seq(1..N)
    <2>1. k.pending \in Seq(1..n)
      BY DEF ClientRec
    <2>2. 1..n \subseteq 1..N
      OBVIOUS
    <2> QED BY <2>1, <2>2
  <1>2. k.sent \in 0..N
    BY DEF ClientRec
  <1> QED BY <1>1, <1>2 DEF ClientRec

LEMMA SoundMonotonic ==
    ASSUME NEW n \in Nat, NEW N \in Nat, n <= N, NEW k, Sound(k, n)
    PROVE  Sound(k, N)
  <1>1. k \in ClientRec(N)
    BY RecMonotonic DEF Sound
  <1> QED BY <1>1, Zenon DEF Sound, InLine

(* deliver_topic to a client nothing waits for. *)
LEMMA HandSound ==
    ASSUME NEW n \in Nat, NEW N \in Nat, n <= N, NEW k \in ClientRec(n),
           DOMAIN k.registrations # {}, k.pending = << >>, NEW m \in 1..N
    PROVE  /\ Sound(Hand(k, m), N)
           /\ Fed(Hand(k, m), m)
  <1> DEFINE h == Hand(k, m)
  <1>1. /\ h.registrations = k.registrations
        /\ h.last = TRUE /\ h.pending = << >> /\ h.sent = m
        /\ h \in ClientRec(N)
    <2>1. k \in ClientRec(N)
      BY RecMonotonic
    <2>2. m \in 0..N
      OBVIOUS
    <2> QED BY <2>1, <2>2 DEF Hand, ClientRec
  <1>2. Len(h.pending) = 0 /\ h.sent # 0 /\ h.sent <= m
    BY <1>1
  <1> HIDE DEF h
  <1>3. 1..Len(h.pending) = {}
    BY <1>2
  <1>4. Sound(h, N)
    BY <1>1, <1>2, <1>3, Zenon DEF Sound, InLine
  <1>5. Fed(h, m)
    BY <1>2, <1>3, Zenon DEF Fed
  <1> QED BY <1>4, <1>5 DEF h

(* A non-empty set of numbers has a least one, so Min is one of them. *)
LEMMA MinOfNaturals ==
    ASSUME NEW S \in SUBSET Nat, S # {}
    PROVE  Min(S) \in S
  <1>1. \E x \in S : \A y \in S : ~(<<y, x>> \in OpToRel(<, Nat))
    BY NatLessThanWellFounded, WFMin
  <1>2. PICK x \in S : \A y \in S : ~(<<y, x>> \in OpToRel(<, Nat))
    BY <1>1
  <1>3. \A y \in S : x <= y
    <2> SUFFICES ASSUME NEW y \in S, y < x PROVE FALSE
      OBVIOUS
    <2>1. <<y, x>> \in OpToRel(<, Nat)
      BY DEF OpToRel
    <2> QED BY <2>1, <1>2
  <1> QED BY <1>3 DEF Min

(* The queue length of a client that has a registration. *)
LEMMA QueueIsNat ==
    ASSUME NEW n, NEW k \in ClientRec(n), DOMAIN k.registrations # {}
    PROVE  Queue(k) \in Nat
  <1> DEFINE S == {k.registrations[i].queue : i \in DOMAIN k.registrations}
  <1>1. \A i \in DOMAIN k.registrations : k.registrations[i] \in Options
    <2>1. k.registrations \in Table(Ids, Options)
      BY DEF ClientRec
    <2> QED BY <2>1, TableElements
  <1>2. S \in SUBSET Nat
    BY <1>1, QueuesAssumption DEF Options
  <1>3. S # {}
    OBVIOUS
  <1> HIDE DEF S
  <1>4. Min(S) \in S
    BY <1>2, <1>3, MinOfNaturals
  <1> QED BY <1>2, <1>4 DEF Queue, S

(* A queue p that loses its oldest messages and then gains m. *)
Shifted(p, a, d, m) ==
    /\ Len(a) = Len(p) - d + 1
    /\ a[Len(a)] = m
    /\ \A i \in 1..Len(a) : i # Len(a) => a[i] = p[i + d]

(* What Enqueue does to the queue. *)
LEMMA EnqueueFacts ==
    ASSUME NEW n \in Nat, NEW k \in ClientRec(n), DOMAIN k.registrations # {},
           NEW m \in 1..n + 1
    PROVE  LET q == Queue(k)
               h == Enqueue(k, m)
           IN  \/ q = 0 /\ h = k
               \/ /\ q # 0
                  /\ h \in ClientRec(n + 1)
                  /\ h.registrations = k.registrations
                  /\ h.last = k.last
                  /\ h.sent = k.sent
                  /\ h.pending \in Seq(1..n + 1)
                  /\ \E d \in 0..Len(k.pending) :
                        /\ Shifted(k.pending, h.pending, d, m)
                        /\ Len(k.pending) - d < q
  <1> DEFINE q == Queue(k)
             p == k.pending
             d == IF Len(p) < q THEN 0 ELSE Len(p) - q + 1
             room == IF Len(p) < q THEN p ELSE SubSeq(p, Len(p) - q + 2, Len(p))
  <1>1. q \in Nat
    BY QueueIsNat
  <1>2. p \in Seq(1..n + 1) /\ k \in ClientRec(n + 1)
    <2>1. n + 1 \in Nat /\ n <= n + 1
      OBVIOUS
    <2>2. k \in ClientRec(n + 1)
      BY <2>1, RecMonotonic
    <2> QED BY <2>2 DEF ClientRec
  <1> SUFFICES ASSUME q # 0
               PROVE  LET h == Enqueue(k, m)
                      IN  /\ h \in ClientRec(n + 1)
                          /\ h.registrations = k.registrations
                          /\ h.last = k.last
                          /\ h.sent = k.sent
                          /\ h.pending \in Seq(1..n + 1)
                          /\ \E e \in 0..Len(p) :
                                /\ Shifted(p, h.pending, e, m)
                                /\ Len(p) - e < q
    BY DEF Enqueue
  <1>3. Enqueue(k, m) = [k EXCEPT !.pending = Append(room, m)]
    BY DEF Enqueue
  <1> HIDE DEF q, p
  <1>4. room \in Seq(1..n + 1) /\ Len(room) = Len(p) - d /\ d \in 0..Len(p)
        /\ Len(p) - d < q /\ \A i \in 1..Len(room) : room[i] = p[i + d]
    <2>1. CASE Len(p) < q
      BY <2>1, <1>1, <1>2
    <2>2. CASE Len(p) >= q
      <3>1. PICK l \in Nat : l = Len(p)
        BY <1>2
      <3>2. \A i \in l - q + 2..l : p[i] \in 1..n + 1
        BY <1>1, <1>2, <2>2, <3>1
      <3>3. /\ l - q + 2 \in Int /\ l \in Int
            /\ ~(l < q)
        BY <1>1, <2>2, <3>1
      <3>4. PICK r : r = SubSeq(p, l - q + 2, l)
        OBVIOUS
      <3>5. /\ r \in Seq(1..n + 1)
            /\ Len(r) = IF l - q + 2 <= l THEN l - (l - q + 2) + 1 ELSE 0
            /\ \A i \in 1..l - (l - q + 2) + 1 : r[i] = p[(l - q + 2) + i - 1]
        BY <3>2, <3>3, <3>4, SubSeqProperties
      <3>6. room = r /\ d = l - q + 1
        BY <3>1, <3>3, <3>4
      <3> HIDE DEF room, d
      <3>7. Len(r) = q - 1
        BY <3>5, <3>1, <1>1
      <3>8. \A i \in 1..Len(r) : r[i] = p[i + d]
        <4> TAKE i \in 1..Len(r)
        <4>1. i \in 1..l - (l - q + 2) + 1 /\ (l - q + 2) + i - 1 = i + d
          BY <3>1, <3>6, <3>7, <1>1
        <4> QED BY <4>1, <3>5
      <3>9. Len(room) = l - d /\ d \in 0..l /\ l - d < q
        BY <3>3, <3>6, <3>7, <1>1
      <3> QED BY <3>1, <3>5, <3>6, <3>8, <3>9, Zenon
    <2>3. Len(p) < q \/ Len(p) >= q
      BY <1>1, <1>2
    <2> QED BY <2>1, <2>2, <2>3, Zenon
  <1> HIDE DEF room, d
  <1>5. PICK a : a = Append(room, m)
    OBVIOUS
  <1>6. a \in Seq(1..n + 1) /\ Shifted(p, a, d, m)
    <2>1. /\ a \in Seq(1..n + 1)
          /\ Len(a) = Len(room) + 1
          /\ a[Len(room) + 1] = m
          /\ \A i \in 1..Len(room) : a[i] = room[i]
      BY <1>4, <1>5, AppendProperties
    <2>2. Len(a) = Len(p) - d + 1
      BY <2>1, <1>4
    <2>3. ASSUME NEW i \in 1..Len(a), i # Len(a)
          PROVE  a[i] = p[i + d]
      <3> room \in Seq(1..n + 1)
        BY <1>4, Zenon
      <3>0. PICK l \in Nat : l = Len(room)
        OBVIOUS
      <3>1. i \in 1..Len(room)
        BY <2>1, <2>3, <3>0
      <3> QED BY <3>1, <2>1, <1>4
    <2> QED BY <2>1, <2>2, <2>3 DEF Shifted
  <1>7. PICK h : h = [k EXCEPT !.pending = a]
    OBVIOUS
  <1>8. /\ h \in ClientRec(n + 1) /\ h.registrations = k.registrations
        /\ h.last = k.last /\ h.sent = k.sent /\ h.pending = a
    BY <1>2, <1>6, <1>7 DEF ClientRec
  <1> QED BY <1>3, <1>4, <1>5, <1>6, <1>7, <1>8, Zenon

(* A message queued for a sound client. *)
LEMMA EnqueueSound ==
    ASSUME NEW n \in Nat, NEW k, Sound(k, n), k.last \/ k.pending # << >>
    PROVE  /\ Sound(Enqueue(k, n + 1), n + 1)
           /\ Fed(Enqueue(k, n + 1), n + 1)
  <1> DEFINE m == n + 1
             q == Queue(k)
  <1>0. m \in Nat /\ n <= m /\ m \in 1..n + 1
    OBVIOUS
  <1>1. PICK h : h = Enqueue(k, m)
    OBVIOUS
  <1>2. /\ k \in ClientRec(n) /\ DOMAIN k.registrations # {}
        /\ k.sent # 0 /\ k.pending \in Seq(1..n) /\ k.sent \in 0..n
    BY DEF Sound, InLine, ClientRec
  <1>3. CASE h = k
    <2>1. Sound(k, m)
      BY <1>0, SoundMonotonic
    <2>2. Fed(k, m)
      BY <1>2 DEF Fed
    <2> QED BY <2>1, <2>2, <1>1, <1>3
  <1>4. CASE h # k
    <2>1. /\ h \in ClientRec(n + 1)
          /\ h.registrations = k.registrations
          /\ h.sent = k.sent
          /\ h.pending \in Seq(1..n + 1)
          /\ \E d \in 0..Len(k.pending) :
                /\ Shifted(k.pending, h.pending, d, m)
                /\ Len(k.pending) - d < q
      BY <1>0, <1>1, <1>2, <1>4, EnqueueFacts, Zenon
    <2>2. PICK d \in 0..Len(k.pending) : Shifted(k.pending, h.pending, d, m)
      BY <2>1
    <2> DEFINE p == k.pending
               a == h.pending
    <2>3. /\ \A i \in 1..Len(p) : k.sent < p[i] /\ p[i] \in 1..n
          /\ \A i, j \in 1..Len(p) : i < j => p[i] < p[j]
      BY <1>2 DEF Sound, InLine
    <2>4. p \in Seq(1..n) /\ a \in Seq(1..n + 1)
      BY <1>2, <2>1
    <2>5. /\ Len(a) = Len(p) - d + 1
          /\ a[Len(a)] = m
          /\ \A i \in 1..Len(a) : i # Len(a) => a[i] = p[i + d]
      BY <2>2 DEF Shifted
    <2> HIDE DEF p, a
    <2>50. Len(p) \in Nat /\ Len(a) \in Nat /\ d \in 0..Len(p)
      BY <2>4 DEF p
    <2>51. \A i \in 1..Len(a) : i # Len(a) => i + d \in 1..Len(p)
      <3>1. PICK la \in Nat, lp \in Nat : la = Len(a) /\ lp = Len(p)
        BY <2>50
      <3>2. la = lp - d + 1 /\ d \in 0..lp
        BY <3>1, <2>5, <2>50, Zenon
      <3>3. \A i \in 1..la : i # la => i + d \in 1..lp
        BY <3>2
      <3> QED BY <3>1, <3>3, Zenon
    <2>6. \A i \in 1..Len(a) : k.sent < a[i] /\ a[i] <= m
      <3> TAKE i \in 1..Len(a)
      <3>1. CASE i = Len(a)
        BY <3>1, <2>5, <1>2
      <3>2. CASE i # Len(a)
        <4>1. k.sent < p[i + d] /\ p[i + d] \in 1..n
          BY <3>2, <2>51, <2>3
        <4>2. a[i] = p[i + d]
          BY <3>2, <2>5, Zenon
        <4> QED BY <4>1, <4>2, <1>2
      <3> QED BY <3>1, <3>2
    <2>7. \A i, j \in 1..Len(a) : i < j => a[i] < a[j]
      <3> SUFFICES ASSUME NEW i \in 1..Len(a), NEW j \in 1..Len(a), i < j
                   PROVE  a[i] < a[j]
        OBVIOUS
      <3>1. i # Len(a) /\ a[i] = p[i + d] /\ i + d \in 1..Len(p)
        BY <2>5, <2>50, <2>51
      <3>2. CASE j = Len(a)
        <4>1. p[i + d] \in 1..n
          BY <3>1, <2>3
        <4> QED BY <4>1, <3>1, <3>2, <2>5
      <3>3. CASE j # Len(a)
        <4>1. a[j] = p[j + d] /\ j + d \in 1..Len(p) /\ i + d < j + d
          BY <3>3, <2>5, <2>50, <2>51
        <4> QED BY <4>1, <3>1, <2>3
      <3> QED BY <3>2, <3>3
    <2>8. Sound(h, m)
      BY <1>2, <2>1, <2>6, <2>7 DEF Sound, InLine, a
    <2>9. Fed(h, m)
      BY <1>2, <2>1, <2>6 DEF Fed, a
    <2> QED BY <2>8, <2>9, <1>1
  <1> QED BY <1>3, <1>4

(* The delivery of the message that waits longest. *)
LEMMA DeliverSound ==
    ASSUME NEW n \in Nat, NEW k, Sound(k, n), k.pending # << >>
    PROVE  /\ Sound(Deliver(k), n)
           /\ \A r \in Nat : Fed(k, r) => Fed(Deliver(k), r)
           /\ Len(Deliver(k).pending) <= Len(k.pending)
  <1>1. PICK p, a, v : p = k.pending /\ a = Tail(p) /\ v = Head(p)
    OBVIOUS
  <1>2. /\ k \in ClientRec(n) /\ DOMAIN k.registrations # {}
        /\ p \in Seq(1..n) /\ p # << >> /\ k.sent \in 0..n
    BY <1>1 DEF Sound, InLine, ClientRec
  <1>3. PICK h : h = Deliver(k)
    OBVIOUS
  <1>4. PICK l \in Nat : l = Len(p)
    BY <1>2
  <1>5. /\ a \in Seq(1..n) /\ Len(a) = l - 1 /\ v = p[1] /\ l >= 1
        /\ \A i \in 1..Len(a) : a[i] = p[i + 1]
    <2>1. /\ a \in Seq(1..n) /\ Len(a) = Len(p) - 1
          /\ \A i \in 1..Len(a) : a[i] = p[i + 1]
      BY <1>1, <1>2, HeadTailProperties, Zenon
    <2>2. v = p[1]
      BY <1>1, <1>2
    <2>3. l >= 1
      BY <1>2, <1>4
    <2> QED BY <2>1, <2>2, <2>3, <1>4
  <1>6. v \in 1..n /\ v \in 0..n
    BY <1>2, <1>4, <1>5
  <1>7. /\ h \in ClientRec(n) /\ h.registrations = k.registrations
        /\ h.sent = v /\ h.pending = a
    BY <1>1, <1>2, <1>3, <1>5, <1>6 DEF Deliver, Hand, ClientRec
  <1>8. \A i \in 1..Len(p) : p[i] \in 1..n
    BY <1>2
  <1>9. \A i, j \in 1..Len(p) : i < j => p[i] < p[j]
    BY <1>1 DEF Sound, InLine
  <1>10. \A i \in 1..Len(a) : i + 1 \in 1..Len(p) /\ 1 < i + 1 /\ 1 \in 1..Len(p)
    BY <1>4, <1>5
  <1>11. \A i \in 1..Len(a) : v < a[i]
    BY <1>5, <1>9, <1>10
  <1>12. \A i, j \in 1..Len(a) : i < j => a[i] < a[j]
    <2> SUFFICES ASSUME NEW i \in 1..Len(a), NEW j \in 1..Len(a), i < j
                 PROVE  a[i] < a[j]
      OBVIOUS
    <2>1. i + 1 < j + 1
      BY <1>5, <1>4
    <2> QED BY <2>1, <1>5, <1>9, <1>10
  <1>13. Sound(h, n)
    BY <1>2, <1>6, <1>7, <1>11, <1>12 DEF Sound, InLine
  <1>14. ASSUME NEW r \in Nat, Fed(k, r) PROVE Fed(h, r)
    <2>1. \A i \in 1..Len(p) : p[i] <= r
      BY <1>1, <1>14 DEF Fed
    <2>2. v <= r /\ v # 0
      BY <2>1, <1>4, <1>5, <1>6
    <2>3. \A i \in 1..Len(a) : a[i] <= r
      BY <2>1, <1>5, <1>10
    <2> QED BY <2>2, <2>3, <1>7 DEF Fed
  <1>15. Len(h.pending) <= Len(k.pending)
    BY <1>1, <1>4, <1>5, <1>7
  <1> QED BY <1>3, <1>13, <1>14, <1>15, Zenon

(* Another set of registrations. *)
LEMMA RegisterSound ==
    ASSUME NEW n \in Nat, NEW k \in ClientRec(n), InLine(k),
           NEW R \in Table(Ids, Options), DOMAIN R # {},
           NEW h, h = [k EXCEPT !.registrations = R]
    PROVE  /\ Sound(h, n)
           /\ h.sent = k.sent /\ h.pending = k.pending
           /\ \A r : Fed(k, r) => Fed(h, r)
  <1>1. /\ h \in ClientRec(n) /\ h.registrations = R
        /\ h.sent = k.sent /\ h.pending = k.pending /\ h.last = k.last
    BY DEF ClientRec
  <1>2. Sound(h, n)
    BY <1>1, Zenon DEF Sound, InLine
  <1>3. \A r : Fed(k, r) => Fed(h, r)
    BY <1>1, Zenon DEF Fed
  <1> QED BY <1>1, <1>2, <1>3

-----------------------------------------------------------------------------
(* Subscriptions. *)

(* As more is created and handled and more clients connect. *)
LEMMA SubMonotonic ==
    ASSUME NEW e \in Nat, NEW E \in Nat, e <= E,
           NEW n \in Nat, NEW N \in Nat, n <= N,
           NEW O, NEW P, O \subseteq P,
           NEW s, SubSound(s, e, n, O)
    PROVE  SubSound(s, E, N, P)
  <1>1. s \in SubRec(e, n)
    BY DEF SubSound
  <1>2. s.clients \in Table(Conn, ClientRec(N))
    <2>1. s.clients \in Table(Conn, ClientRec(n))
      BY <1>1 DEF SubRec
    <2>2. \A c \in DOMAIN s.clients : s.clients[c] \in ClientRec(N)
      BY <2>1, TableElements, RecMonotonic
    <2> QED BY <2>1, <2>2, TableMonotonic
  <1>3. s.entity \in 1..E /\ s.retained \in 0..N
    BY <1>1 DEF SubRec
  <1>4. s \in SubRec(E, N)
    BY <1>1, <1>2, <1>3 DEF SubRec
  <1>5. \A c \in DOMAIN s.clients : Sound(s.clients[c], N)
    BY SoundMonotonic DEF SubSound
  <1> QED BY <1>4, <1>5, Zenon DEF SubSound

(* Another set of clients. *)
LEMMA ClientsSound ==
    ASSUME NEW e, NEW n, NEW O, NEW s \in SubRec(e, n),
           NEW f \in Table(Conn, ClientRec(n)), DOMAIN f \subseteq O,
           \A c \in DOMAIN f : /\ Sound(f[c], n)
                               /\ s.transient_local => Fed(f[c], s.retained),
           NEW z, z = [s EXCEPT !.clients = f]
    PROVE  /\ SubSound(z, e, n, O)
           /\ z.entity = s.entity /\ z.clients = f
  <1>1. /\ z \in SubRec(e, n) /\ z.clients = f /\ z.entity = s.entity
        /\ z.retained = s.retained /\ z.transient_local = s.transient_local
    BY DEF SubRec
  <1> QED BY <1>1, Zenon DEF SubSound

-----------------------------------------------------------------------------
(* The ROS entities behind a table. *)

(* Entries change but not their entities. *)
LEMMA EntitiesChange ==
    ASSUME NEW T, NEW S, Entities(T, S), NEW U, DOMAIN U = DOMAIN T,
           \A t \in DOMAIN T : U[t].entity = T[t].entity
    PROVE  Entities(U, S)
  <1>1. {U[t].entity : t \in DOMAIN U} = {T[t].entity : t \in DOMAIN T}
    OBVIOUS
  <1> QED BY <1>1, Zenon DEF Entities

(* An entry with a new entity. *)
LEMMA EntitiesAdd ==
    ASSUME NEW T, NEW S, Entities(T, S), NEW t \in Topic, t \notin DOMAIN T,
           NEW v, v.entity \notin S, NEW U, U = With(T, t, v)
    PROVE  Entities(U, S \cup {v.entity})
  <1>1. /\ DOMAIN U = DOMAIN T \cup {t}
        /\ U[t] = v
        /\ \A x \in DOMAIN T : U[x] = T[x]
    BY DEF With
  <1>2. DOMAIN U \subseteq Topic /\ IsFiniteSet(DOMAIN U)
    BY <1>1, FS_AddElement DEF Entities
  <1>3. S = {T[x].entity : x \in DOMAIN T}
    BY DEF Entities
  <1>4. {U[x].entity : x \in DOMAIN U} = S \cup {v.entity}
    BY <1>1, <1>3
  <1>5. \A x, y \in DOMAIN U : U[x].entity = U[y].entity => x = y
    <2>1. \A x \in DOMAIN T : U[x].entity \in S
      BY <1>1, <1>3
    <2>2. \A x, y \in DOMAIN T : U[x].entity = U[y].entity => x = y
      BY <1>1 DEF Entities
    <2> QED BY <1>1, <2>1, <2>2
  <1> QED BY <1>2, <1>4, <1>5 DEF Entities

(* Entries in D go with their entities. *)
LEMMA EntitiesRemove ==
    ASSUME NEW T, NEW S, Entities(T, S), NEW D \in SUBSET DOMAIN T,
           NEW U, U = Without(T, D)
    PROVE  Entities(U, S \ {T[t].entity : t \in D})
  <1>1. /\ DOMAIN U = DOMAIN T \ D
        /\ \A x \in DOMAIN U : U[x] = T[x]
    BY DEF Without, Restrict
  <1>2. DOMAIN U \subseteq Topic /\ IsFiniteSet(DOMAIN U)
    <2>1. DOMAIN U \in SUBSET DOMAIN T
      BY <1>1
    <2> QED BY <2>1, FS_Subset DEF Entities
  <1>3. /\ S = {T[x].entity : x \in DOMAIN T}
        /\ \A x, y \in DOMAIN T : T[x].entity = T[y].entity => x = y
    BY DEF Entities
  <1>4. {U[x].entity : x \in DOMAIN U} = S \ {T[t].entity : t \in D}
    BY <1>1, <1>3
  <1>5. \A x, y \in DOMAIN U : U[x].entity = U[y].entity => x = y
    BY <1>1, <1>3
  <1> QED BY <1>2, <1>4, <1>5 DEF Entities

(* The ends of unsubscribe and unadvertise leave entries in use only. *)
LEMMA KeepSubs ==
    ASSUME NEW T, NEW e, NEW n, NEW O, Entities(T, subs),
           SubTable(T, e, n, O), KeepSubscriptions(T)
    PROVE  /\ SubsOK(subscriptions', subs', e, n, O)
           /\ \A t \in DOMAIN subscriptions' :
                 t \in DOMAIN T /\ subscriptions'[t] = T[t]
  <1> DEFINE D == {t \in DOMAIN T : DOMAIN T[t].clients = {}}
  <1>1. /\ subscriptions' = Without(T, D)
        /\ subs' = subs \ {T[t].entity : t \in D}
    BY Zenon DEF KeepSubscriptions
  <1>2. D \in SUBSET DOMAIN T
    OBVIOUS
  <1>3. /\ DOMAIN subscriptions' = DOMAIN T \ D
        /\ \A x \in DOMAIN subscriptions' : subscriptions'[x] = T[x]
    BY <1>1 DEF Without, Restrict
  <1>4. Entities(subscriptions', subs')
    BY <1>1, <1>2, EntitiesRemove, Zenon
  <1>5. SubTable(subscriptions', e, n, O)
    BY <1>3 DEF SubTable
  <1>6. SubsUsed(subscriptions')
    BY <1>3 DEF SubsUsed
  <1> QED BY <1>3, <1>4, <1>5, <1>6 DEF SubsOK

LEMMA KeepPubs ==
    ASSUME NEW T, NEW e, NEW O, Entities(T, pubs),
           PubTable(T, e, O), KeepPublishers(T)
    PROVE  PubsOK(publishers', pubs', e, O)
  <1> DEFINE D == {t \in DOMAIN T : DOMAIN T[t].owners = {}}
  <1>1. /\ publishers' = Without(T, D)
        /\ pubs' = pubs \ {T[t].entity : t \in D}
    BY Zenon DEF KeepPublishers
  <1>2. D \in SUBSET DOMAIN T
    OBVIOUS
  <1>3. /\ DOMAIN publishers' = DOMAIN T \ D
        /\ \A x \in DOMAIN publishers' : publishers'[x] = T[x]
    BY <1>1 DEF Without, Restrict
  <1>4. Entities(publishers', pubs')
    BY <1>1, <1>2, EntitiesRemove, Zenon
  <1>5. PubTable(publishers', e, O)
    BY <1>3 DEF PubTable
  <1>6. PubsUsed(publishers')
    BY <1>3 DEF PubsUsed
  <1> QED BY <1>4, <1>5, <1>6 DEF PubsOK

(* The tables as more is created and handled and more clients connect. *)
LEMMA SubsMonotonic ==
    ASSUME NEW e \in Nat, NEW E \in Nat, e <= E,
           NEW n \in Nat, NEW N \in Nat, n <= N,
           NEW O, NEW P, O \subseteq P,
           NEW T, NEW S, SubsOK(T, S, e, n, O)
    PROVE  SubsOK(T, S, E, N, P)
  BY SubMonotonic DEF SubsOK, SubTable

LEMMA PubsMonotonic ==
    ASSUME NEW e \in Nat, NEW E \in Nat, e <= E,
           NEW O, NEW P, O \subseteq P,
           NEW T, NEW S, PubsOK(T, S, e, O)
    PROVE  PubsOK(T, S, E, P)
  <1>1. PubTable(T, E, P)
    <2> SUFFICES ASSUME NEW t \in DOMAIN T
                 PROVE  T[t] \in PubRec(E) /\ DOMAIN T[t].owners \subseteq P
      BY DEF PubTable
    <2>1. T[t] \in PubRec(e) /\ DOMAIN T[t].owners \subseteq O
      BY DEF PubsOK, PubTable
    <2>2. T[t].entity \in 1..E
      BY <2>1 DEF PubRec
    <2> QED BY <2>1, <2>2 DEF PubRec
  <1> QED BY <1>1 DEF PubsOK

-----------------------------------------------------------------------------
(* Publishers. *)

Owners == Table(Conn, (SUBSET Ids) \ {{}})

(* U is T with another entry for t. *)
Replaced(T, t, v, U) ==
    /\ DOMAIN U = DOMAIN T
    /\ U[t] = v
    /\ \A u \in DOMAIN T : u # t => U[u] = T[u]

(* Other owners for one topic. *)
LEMMA OwnersChange ==
    ASSUME NEW T, NEW S, NEW e, NEW O, Entities(T, S), PubTable(T, e, O),
           NEW t \in DOMAIN T, NEW w \in Owners, DOMAIN w \subseteq O,
           NEW v, v = [T[t] EXCEPT !.owners = w],
           NEW U, Replaced(T, t, v, U)
    PROVE  /\ Entities(U, S) /\ PubTable(U, e, O)
           /\ DOMAIN U = DOMAIN T /\ U[t].owners = w
           /\ \A u \in DOMAIN T : u # t => U[u] = T[u]
  <1>1. /\ DOMAIN U = DOMAIN T
        /\ U[t] = v
        /\ \A u \in DOMAIN T : u # t => U[u] = T[u]
    BY Zenon DEF Replaced
  <1>2. PICK r : r = T[t]
    OBVIOUS
  <1>3. PICK z : z = [r EXCEPT !.owners = w]
    OBVIOUS
  <1>4. r \in PubRec(e)
    BY <1>2 DEF PubTable
  <1>5. z \in PubRec(e) /\ z.owners = w /\ z.entity = r.entity
    BY <1>3, <1>4 DEF PubRec, Owners
  <1>6. U[t] = z
    BY <1>1, <1>2, <1>3, Zenon
  <1>7. \A u \in DOMAIN T : U[u].entity = T[u].entity
    BY <1>1, <1>2, <1>5, <1>6, Zenon
  <1>8. Entities(U, S)
    BY <1>1, <1>7, EntitiesChange, Zenon
  <1>9. PubTable(U, e, O)
    BY <1>1, <1>5, <1>6, Zenon DEF PubTable
  <1> QED BY <1>1, <1>5, <1>6, <1>8, <1>9, Zenon

(* What a topic's owners are. *)
LEMMA OwnersOf ==
    ASSUME NEW T, NEW e, NEW O, PubTable(T, e, O), NEW t \in DOMAIN T
    PROVE  /\ T[t].owners \in Owners
           /\ DOMAIN T[t].owners \subseteq O
           /\ \A c \in DOMAIN T[t].owners : T[t].owners[c] \in (SUBSET Ids) \ {{}}
  <1>1. T[t].owners \in Owners /\ DOMAIN T[t].owners \subseteq O
    BY DEF PubTable, PubRec, Owners
  <1> QED BY <1>1, TableElements DEF Owners

(* Bridge::advertise *)
LEMMA RegisterPubs ==
    ASSUME Publishers, NEW c \in outputs, c \in Conn, NEW t \in Topic,
           NEW i \in Ids, Register(c, t, i)
    PROVE  /\ advertised' \in 0..MaxPublishers
           /\ PubsOK(publishers', pubs', advertised', outputs)
  <1>0. /\ Entities(publishers, pubs) /\ PubsUsed(publishers)
        /\ PubTable(publishers, advertised, outputs)
        /\ advertised \in 0..MaxPublishers /\ advertised \in Nat
    BY DEF Publishers, PubsOK
  <1>1. CASE t \in DOMAIN publishers
    <2> DEFINE old == publishers[t].owners
               ids == IF c \in DOMAIN old THEN old[c] ELSE {}
               w == With(old, c, ids \cup {i})
    <2>1. /\ publishers' = [publishers EXCEPT ![t].owners = w]
          /\ pubs' = pubs /\ advertised' = advertised
      BY <1>1 DEF Register
    <2>2. /\ old \in Owners /\ DOMAIN old \subseteq outputs
          /\ \A x \in DOMAIN old : old[x] \in (SUBSET Ids) \ {{}}
      BY <1>0, <1>1, OwnersOf, Zenon
    <2>3. ids \cup {i} \in (SUBSET Ids) \ {{}}
      BY <2>2
    <2>4. DOMAIN w = DOMAIN old \cup {c}
      BY DEF With
    <2>5. w \in Owners
      BY <2>2, <2>3, TableWith DEF Owners
    <2> HIDE DEF w, ids, old
    <2>6. DOMAIN w \subseteq outputs /\ DOMAIN w # {}
      BY <2>2, <2>4
    <2>61. PICK v : v = [publishers[t] EXCEPT !.owners = w]
      OBVIOUS
    <2>62. Replaced(publishers, t, v, publishers')
      BY <1>1, <2>1, <2>61 DEF Replaced
    <2>7. /\ Entities(publishers', pubs)
          /\ PubTable(publishers', advertised, outputs)
          /\ DOMAIN publishers' = DOMAIN publishers
          /\ publishers'[t].owners = w
          /\ \A u \in DOMAIN publishers : u # t => publishers'[u] = publishers[u]
      BY <1>0, <1>1, <2>5, <2>6, <2>61, <2>62, OwnersChange
    <2>8. PubsUsed(publishers')
      BY <1>0, <2>6, <2>7, Zenon DEF PubsUsed
    <2> QED BY <1>0, <2>1, <2>7, <2>8 DEF PubsOK
  <1>2. CASE t \notin DOMAIN publishers
    <2>1. PICK n : n = advertised + 1
      OBVIOUS
    <2>2. PICK f : f = [x \in {c} |-> {i}]
      OBVIOUS
    <2>3. PICK v : v = [entity |-> n, owners |-> f]
      OBVIOUS
    <2>4. /\ advertised < MaxPublishers /\ advertised' = n
          /\ pubs' = pubs \cup {n}
          /\ publishers' = With(publishers, t, v)
      BY <1>2, <2>1, <2>2, <2>3 DEF Register
    <2>5. n \in 0..MaxPublishers /\ n \in Nat /\ advertised <= n /\ n \in 1..n
      BY <1>0, <2>1, <2>4, BoundsAssumption
    <2>6. PubsOK(publishers, pubs, n, outputs)
      BY <1>0, <2>5, PubsMonotonic DEF PubsOK
    <2>7. DOMAIN f = {c} /\ f \in Owners
      <3>1. f \in [{c} -> (SUBSET Ids) \ {{}}] /\ {c} \in SUBSET Conn
        BY <2>2
      <3> QED BY <3>1, TableFrom DEF Owners
    <2>8. v \in PubRec(n) /\ v.entity = n /\ v.owners = f
      BY <2>3, <2>5, <2>7 DEF PubRec, Owners
    <2>9. n \notin pubs
      <3> SUFFICES ASSUME n \in pubs PROVE FALSE
        OBVIOUS
      <3>1. PICK u \in DOMAIN publishers : publishers[u].entity = n
        BY <1>0 DEF Entities
      <3>2. publishers[u].entity \in 1..advertised
        BY <1>0 DEF PubTable, PubRec
      <3> QED BY <3>1, <3>2, <2>1, <1>0
    <2>10. Entities(publishers', pubs')
      BY <1>0, <1>2, <2>4, <2>8, <2>9, EntitiesAdd
    <2>11. /\ DOMAIN publishers' = DOMAIN publishers \cup {t}
           /\ publishers'[t] = v
           /\ \A u \in DOMAIN publishers : publishers'[u] = publishers[u]
      BY <1>2, <2>4 DEF With
    <2>12. PubTable(publishers', n, outputs)
      <3>1. DOMAIN v.owners \subseteq outputs
        BY <2>7, <2>8
      <3> QED BY <2>6, <2>8, <2>11, <3>1, Zenon DEF PubsOK, PubTable
    <2>13. PubsUsed(publishers')
      <3>1. DOMAIN v.owners # {}
        BY <2>7, <2>8
      <3> QED BY <2>6, <2>11, <3>1, Zenon DEF PubsOK, PubsUsed
    <2> QED BY <2>4, <2>5, <2>10, <2>12, <2>13 DEF PubsOK
  <1> QED BY <1>1, <1>2

(* Bridge::unadvertise *)
LEMMA UnadvertisePubs ==
    ASSUME Publishers, NEW c, NEW t, NEW i, Unadvertise(c, t, i)
    PROVE  PubsOK(publishers', pubs', advertised, outputs)
  <1>0. /\ Entities(publishers, pubs)
        /\ PubTable(publishers, advertised, outputs)
        /\ t \in DOMAIN publishers
        /\ c \in DOMAIN publishers[t].owners
    BY DEF Publishers, PubsOK, Unadvertise
  <1> DEFINE old == publishers[t].owners
             left == IF i = NoId THEN {} ELSE old[c] \ {i}
             w == Registered(old, c, left)
             T == [publishers EXCEPT ![t].owners = w]
  <1>1. KeepPublishers(T)
    BY DEF Unadvertise
  <1>2. /\ old \in Owners /\ DOMAIN old \subseteq outputs
        /\ \A x \in DOMAIN old : old[x] \in (SUBSET Ids) \ {{}}
    BY <1>0, OwnersOf, Zenon
  <1>3. left \in SUBSET Ids
    BY <1>0, <1>2
  <1>4. w \in Owners /\ DOMAIN w \subseteq outputs
    <2>1. CASE left = {}
      <3>1. w = Without(old, {c})
        BY <2>1 DEF Registered
      <3>2. DOMAIN w \subseteq DOMAIN old
        BY <3>1 DEF Without, Restrict
      <3> HIDE DEF w, left, old
      <3>3. w \in Owners
        BY <1>2, <3>1, TableWithout, Zenon DEF Owners
      <3> QED BY <1>2, <3>2, <3>3
    <2>2. CASE left # {}
      <3>1. w = [old EXCEPT ![c] = left]
        BY <2>2 DEF Registered
      <3>2. PICK D \in SUBSET Conn : old \in [D -> (SUBSET Ids) \ {{}}]
        BY <1>2 DEF Owners, Table
      <3> HIDE DEF w, left, old
      <3>3. w \in [D -> (SUBSET Ids) \ {{}}] /\ DOMAIN w = DOMAIN old
        BY <1>3, <2>2, <3>1, <3>2
      <3> QED BY <1>2, <3>2, <3>3, TableFrom DEF Owners
    <2> QED BY <2>1, <2>2
  <1> HIDE DEF w, left, old
  <1>5. PICK U : U = T
    OBVIOUS
  <1>50. PICK v : v = [publishers[t] EXCEPT !.owners = w]
    OBVIOUS
  <1>51. Replaced(publishers, t, v, U)
    BY <1>0, <1>5, <1>50 DEF Replaced
  <1>6. Entities(U, pubs) /\ PubTable(U, advertised, outputs)
    BY <1>0, <1>4, <1>50, <1>51, OwnersChange
  <1> QED BY <1>1, <1>5, <1>6, KeepPubs, Zenon

-----------------------------------------------------------------------------
(* Subscriptions, and what each step does to the clients' queues: the      *)
(* queue of no client of T grows past the shortest length it asked for.    *)

Limited(old, new) ==
    \/ Len(new.pending) <= Len(old.pending)
    \/ Len(new.pending) <= Queue(old)

QueuesLimited(T, U) ==
    \A t \in DOMAIN T : \A c \in DOMAIN T[t].clients :
        t \in DOMAIN U /\ c \in DOMAIN U[t].clients
            => Limited(T[t].clients[c], U[t].clients[c])

(* The number of handled messages. *)
LEMMA HandledIsNat ==
    ASSUME Batch
    PROVE  Handled \in Nat /\ taken \in Nat
  BY BoundsAssumption DEF Batch, Handled

(* What the clients of a subscription are. *)
LEMMA ClientsOf ==
    ASSUME NEW s, NEW e, NEW n, NEW O, SubSound(s, e, n, O)
    PROVE  /\ s \in SubRec(e, n)
           /\ s.clients \in Table(Conn, ClientRec(n))
           /\ DOMAIN s.clients \subseteq Conn
           /\ DOMAIN s.clients \subseteq O
           /\ \A c \in DOMAIN s.clients :
                 /\ Sound(s.clients[c], n)
                 /\ s.clients[c] \in ClientRec(n)
                 /\ s.transient_local => Fed(s.clients[c], s.retained)
  <1>1. s \in SubRec(e, n) /\ s.clients \in Table(Conn, ClientRec(n))
    BY DEF SubSound, SubRec
  <1>2. DOMAIN s.clients \subseteq Conn
    BY <1>1, TableElements
  <1> QED BY <1>1, <1>2, Zenon DEF SubSound, Sound

(* The client that Bridge::subscribe leaves in subscription s. *)
Joined(s, c, i, o, new) ==
    LET old == IF c \in DOMAIN s.clients THEN s.clients[c] ELSE NewClient
        registered == [old EXCEPT !.registrations = With(@, i, o)]
    IN  new = IF Replays(s, c) THEN Hand(registered, s.retained)
              ELSE registered

LEMMA JoinSound ==
    ASSUME NEW n \in Nat, NEW e, NEW O, NEW s, SubSound(s, e, n, O),
           NEW c, NEW i \in Ids, NEW o \in Options,
           NEW new, Joined(s, c, i, o, new)
    PROVE  /\ Sound(new, n)
           /\ s.transient_local => Fed(new, s.retained)
           /\ c \in DOMAIN s.clients => Limited(s.clients[c], new)
  <1>1. /\ s \in SubRec(e, n)
        /\ \A x \in DOMAIN s.clients :
              /\ Sound(s.clients[x], n)
              /\ s.transient_local => Fed(s.clients[x], s.retained)
    BY DEF SubSound
  <1>2. PICK old : old = IF c \in DOMAIN s.clients THEN s.clients[c] ELSE NewClient
    OBVIOUS
  <1>3. /\ old \in ClientRec(n) /\ InLine(old)
        /\ c \notin DOMAIN s.clients => old.pending = << >> /\ old.sent = 0
    <2>1. CASE c \in DOMAIN s.clients
      BY <1>1, <1>2, <2>1, Zenon DEF Sound
    <2>2. CASE c \notin DOMAIN s.clients
      <3>1. << >> \in Table(Ids, Options)
        <4>1. << >> \in [{} -> Options]
          OBVIOUS
        <4> QED BY <4>1, TableFrom
      <3>2. << >> \in Seq(1..n) /\ 0 \in 0..n /\ FALSE \in BOOLEAN
        OBVIOUS
      <3>3. /\ NewClient \in ClientRec(n) /\ NewClient.pending = << >>
            /\ NewClient.sent = 0 /\ ~NewClient.last
        BY <3>1, <3>2 DEF NewClient, ClientRec
      <3>4. InLine(NewClient)
        <4>1. 1..Len(<< >>) = {}
          OBVIOUS
        <4> QED BY <3>3, <4>1, Zenon DEF InLine
      <3> QED BY <1>2, <2>2, <3>3, <3>4, Zenon
    <2> QED BY <2>1, <2>2
  <1>4. PICK R : R = With(old.registrations, i, o)
    OBVIOUS
  <1>5. R \in Table(Ids, Options) /\ DOMAIN R # {}
    <2>1. old.registrations \in Table(Ids, Options)
      BY <1>3 DEF ClientRec
    <2>2. R \in Table(Ids, Options)
      BY <1>4, <2>1, TableWith, Zenon
    <2>3. i \in DOMAIN R
      BY <1>4 DEF With
    <2> QED BY <2>2, <2>3
  <1>6. PICK k : k = [old EXCEPT !.registrations = R]
    OBVIOUS
  <1>7. /\ Sound(k, n)
        /\ k.sent = old.sent /\ k.pending = old.pending
        /\ \A r : Fed(old, r) => Fed(k, r)
    BY <1>3, <1>5, <1>6, RegisterSound
  <1>8. new = IF Replays(s, c) THEN Hand(k, s.retained) ELSE k
    BY <1>2, <1>4, <1>6, Zenon DEF Joined
  <1>9. CASE Replays(s, c)
    <2>1. c \notin DOMAIN s.clients /\ s.retained # 0 /\ s.retained \in 0..n
      BY <1>1, <1>9 DEF Replays, SubRec
    <2>2. s.retained \in 1..n
      BY <2>1
    <2>3. k \in ClientRec(n) /\ DOMAIN k.registrations # {} /\ k.pending = << >>
      BY <1>3, <1>7, <2>1, Zenon DEF Sound
    <2>4. Sound(Hand(k, s.retained), n) /\ Fed(Hand(k, s.retained), s.retained)
      BY <2>2, <2>3, HandSound
    <2> QED BY <1>8, <1>9, <2>1, <2>4
  <1>10. CASE ~Replays(s, c)
    <2>1. new = k
      BY <1>8, <1>10
    <2>2. CASE c \in DOMAIN s.clients
      <3>1. old = s.clients[c]
        BY <1>2, <2>2
      <3>2. Limited(old, k)
        <4>1. old.pending \in Seq(1..n)
          BY <1>3 DEF ClientRec
        <4> QED BY <4>1, <1>7 DEF Limited
      <3> QED BY <1>1, <1>7, <2>1, <2>2, <3>1, <3>2, Zenon
    <2>3. CASE c \notin DOMAIN s.clients
      <3>1. s.retained = 0 /\ k.sent = 0 /\ k.pending = << >>
        BY <1>3, <1>7, <1>10, <2>3 DEF Replays
      <3>2. Fed(k, 0)
        BY <3>1 DEF Fed
      <3> QED BY <1>7, <2>1, <2>3, <3>1, <3>2, Zenon
    <2> QED BY <2>2, <2>3
  <1> QED BY <1>9, <1>10

(* An entry of one topic, new or not. *)
EntityKept(T, t, z, S, V) ==
    IF t \in DOMAIN T THEN V = S /\ z.entity = T[t].entity
    ELSE V = S \cup {z.entity} /\ z.entity \notin S

LEMMA EntryChange ==
    ASSUME NEW T, NEW S, NEW e \in Nat, NEW E \in Nat, NEW n \in Nat, NEW O,
           SubsOK(T, S, e, n, O), e <= E,
           NEW t \in Topic, NEW z, SubSound(z, E, n, O), DOMAIN z.clients # {},
           NEW U, U = With(T, t, z),
           NEW V, EntityKept(T, t, z, S, V)
    PROVE  SubsOK(U, V, E, n, O)
  <1>1. /\ DOMAIN U = DOMAIN T \cup {t}
        /\ U[t] = z
        /\ \A x \in DOMAIN T : x # t => U[x] = T[x]
    BY DEF With
  <1>2. Entities(T, S) /\ SubsOK(T, S, E, n, O)
    <2>1. n <= n /\ O \subseteq O
      OBVIOUS
    <2> QED BY <2>1, SubsMonotonic, Zenon DEF SubsOK
  <1>3. Entities(U, V)
    <2>1. CASE t \in DOMAIN T
      <3>1. DOMAIN U = DOMAIN T /\ V = S /\ \A x \in DOMAIN T : U[x].entity = T[x].entity
        BY <1>1, <2>1 DEF EntityKept
      <3> QED BY <1>2, <3>1, EntitiesChange
    <2>2. CASE t \notin DOMAIN T
      BY <1>2, <2>2, EntitiesAdd DEF EntityKept
    <2> QED BY <2>1, <2>2
  <1>4. SubTable(U, E, n, O)
    BY <1>1, <1>2, Zenon DEF SubsOK, SubTable
  <1>5. SubsUsed(U)
    BY <1>1, <1>2, Zenon DEF SubsOK, SubsUsed
  <1> QED BY <1>3, <1>4, <1>5 DEF SubsOK

(* Bridge::subscribe *)
LEMMA SubscribeSubs ==
    ASSUME Batch, Subscriptions, NEW c \in outputs, c \in Conn,
           NEW t \in Topic, NEW i \in Ids, NEW o \in Options,
           Subscribe(c, t, i, o)
    PROVE  /\ subscribed' \in 0..MaxSubscriptions
           /\ subscribed <= subscribed'
           /\ SubsOK(subscriptions', subs', subscribed', Handled, outputs)
           /\ QueuesLimited(subscriptions, subscriptions')
  <1> DEFINE e == subscribed
             n == Handled
             Fresh(local) == [entity |-> e + 1, transient_local |-> local,
                              retained |-> 0, clients |-> << >>]
  <1>0. /\ SubsOK(subscriptions, subs, e, n, outputs)
        /\ e \in 0..MaxSubscriptions /\ e \in Nat /\ n \in Nat
    BY HandledIsNat DEF Subscriptions
  <1>a. PICK local \in BOOLEAN : \E s, new, z :
           /\ s = IF t \in DOMAIN subscriptions THEN subscriptions[t]
                  ELSE Fresh(local)
           /\ Joined(s, c, i, o, new)
           /\ z = [s EXCEPT !.clients = With(s.clients, c, new)]
           /\ subscriptions' = With(subscriptions, t, z)
           /\ IF t \in DOMAIN subscriptions
              THEN subs' = subs /\ subscribed' = e
              ELSE /\ e < MaxSubscriptions
                   /\ subscribed' = e + 1
                   /\ subs' = subs \cup {e + 1}
    BY ZenonT(60) DEF Subscribe, Joined
  <1>1. PICK s, new, z :
           /\ s = IF t \in DOMAIN subscriptions THEN subscriptions[t]
                  ELSE Fresh(local)
           /\ Joined(s, c, i, o, new)
           /\ z = [s EXCEPT !.clients = With(s.clients, c, new)]
           /\ subscriptions' = With(subscriptions, t, z)
           /\ IF t \in DOMAIN subscriptions
              THEN subs' = subs /\ subscribed' = e
              ELSE /\ e < MaxSubscriptions
                   /\ subscribed' = e + 1
                   /\ subs' = subs \cup {e + 1}
    BY <1>a, Zenon
  <1>2. PICK E : E = subscribed'
    OBVIOUS
  <1>3. E \in Nat /\ E \in 0..MaxSubscriptions /\ e <= E
    BY <1>0, <1>1, <1>2, BoundsAssumption
  <1> HIDE DEF n
  <1>4. /\ SubSound(s, E, n, outputs)
        /\ t \notin DOMAIN subscriptions => s.entity = e + 1
    <2>1. CASE t \in DOMAIN subscriptions
      <3>1. SubSound(s, e, n, outputs)
        BY <1>0, <1>1, <2>1 DEF SubsOK, SubTable
      <3>2. n <= n /\ outputs \subseteq outputs
        BY <1>0
      <3> QED BY <1>0, <1>3, <2>1, <3>1, <3>2, SubMonotonic
    <2>2. CASE t \notin DOMAIN subscriptions
      <3>1. << >> \in Table(Conn, ClientRec(n)) /\ DOMAIN << >> = {}
        <4>1. << >> \in [{} -> ClientRec(n)]
          OBVIOUS
        <4> QED BY <4>1, TableFrom
      <3>2. s = Fresh(local) /\ e + 1 \in 1..E /\ 0 \in 0..n
        BY <1>0, <1>1, <1>2, <2>2
      <3>3. s \in SubRec(E, n) /\ s.clients = << >> /\ s.entity = e + 1
        BY <3>1, <3>2 DEF SubRec
      <3>4. DOMAIN s.clients = {}
        BY <3>1, <3>3
      <3> QED BY <3>3, <3>4 DEF SubSound
    <2> QED BY <2>1, <2>2
  <1>5. /\ Sound(new, n)
        /\ s.transient_local => Fed(new, s.retained)
        /\ c \in DOMAIN s.clients => Limited(s.clients[c], new)
    BY <1>0, <1>1, <1>4, JoinSound
  <1>6. PICK f : f = With(s.clients, c, new)
    OBVIOUS
  <1>7. /\ DOMAIN f = DOMAIN s.clients \cup {c}
        /\ f[c] = new
        /\ \A x \in DOMAIN s.clients : x # c => f[x] = s.clients[x]
    BY <1>6 DEF With
  <1>8. /\ s \in SubRec(E, n) /\ s.clients \in Table(Conn, ClientRec(n))
        /\ DOMAIN s.clients \subseteq outputs
        /\ \A x \in DOMAIN s.clients :
              /\ Sound(s.clients[x], n)
              /\ s.clients[x] \in ClientRec(n)
              /\ s.transient_local => Fed(s.clients[x], s.retained)
    BY <1>4, ClientsOf, Zenon
  <1>9. f \in Table(Conn, ClientRec(n)) /\ DOMAIN f \subseteq outputs
    <2>1. new \in ClientRec(n)
      BY <1>5 DEF Sound
    <2>2. f \in Table(Conn, ClientRec(n))
      BY <1>6, <1>8, <2>1, TableWith, Zenon
    <2> QED BY <1>7, <1>8, <2>2
  <1>10. \A x \in DOMAIN f : /\ Sound(f[x], n)
                             /\ s.transient_local => Fed(f[x], s.retained)
    BY <1>5, <1>7, <1>8, Zenon
  <1>11. /\ SubSound(z, E, n, outputs)
         /\ z.entity = s.entity /\ z.clients = f
    BY <1>1, <1>6, <1>8, <1>9, <1>10, ClientsSound
  <1>12. DOMAIN z.clients # {}
    BY <1>7, <1>11
  <1>13. EntityKept(subscriptions, t, z, subs, subs')
    <2>1. e + 1 \notin subs
      <3> SUFFICES ASSUME e + 1 \in subs PROVE FALSE
        OBVIOUS
      <3>1. PICK u \in DOMAIN subscriptions : subscriptions[u].entity = e + 1
        BY <1>0 DEF SubsOK, Entities
      <3>2. subscriptions[u].entity \in 1..e
        BY <1>0 DEF SubsOK, SubTable, SubSound, SubRec
      <3> QED BY <3>1, <3>2, <1>0
    <2> QED BY <1>1, <1>4, <1>11, <2>1 DEF EntityKept
  <1>14. SubsOK(subscriptions', subs', E, n, outputs)
    <2>1. subscriptions' = With(subscriptions, t, z)
      BY <1>1
    <2> HIDE DEF e
    <2> QED BY <1>0, <1>3, <1>11, <1>12, <1>13, <2>1, EntryChange, Zenon
  <1>15. QueuesLimited(subscriptions, subscriptions')
    <2> SUFFICES ASSUME NEW u \in DOMAIN subscriptions,
                        NEW x \in DOMAIN subscriptions[u].clients
                 PROVE  Limited(subscriptions[u].clients[x],
                                subscriptions'[u].clients[x])
      BY DEF QueuesLimited
    <2>1. CASE u = t
      <3>1. subscriptions'[u] = z /\ subscriptions[u] = s
        BY <1>1, <2>1 DEF With
      <3>2. CASE x = c
        BY <1>5, <1>7, <1>11, <3>1, <3>2, Zenon
      <3>3. CASE x # c
        <4>1. subscriptions'[u].clients[x] = subscriptions[u].clients[x]
          BY <1>7, <1>11, <3>1, <3>3, Zenon
        <4>2. subscriptions[u].clients[x].pending \in Seq(1..n)
          BY <1>8, <3>1 DEF ClientRec
        <4> QED BY <4>1, <4>2 DEF Limited
      <3> QED BY <3>2, <3>3
    <2>2. CASE u # t
      <3>1. subscriptions'[u] = subscriptions[u]
        BY <1>1, <2>2 DEF With
      <3>2. subscriptions[u].clients[x].pending \in Seq(1..n)
        <4>1. SubSound(subscriptions[u], e, n, outputs)
          BY <1>0 DEF SubsOK, SubTable
        <4>2. Sound(subscriptions[u].clients[x], n)
          BY <4>1 DEF SubSound
        <4> QED BY <4>2 DEF Sound, ClientRec
      <3> QED BY <3>1, <3>2 DEF Limited
    <2> QED BY <2>1, <2>2
  <1> QED BY <1>2, <1>3, <1>14, <1>15 DEF n

(* A queue that does not change. *)
LEMMA LimitedSame ==
    ASSUME NEW n, NEW k \in ClientRec(n), NEW h, h.pending = k.pending
    PROVE  Limited(k, h)
  <1>1. k.pending \in Seq(1..n)
    BY DEF ClientRec
  <1> QED BY <1>1 DEF Limited

(* Subscription z is s without the clients in D. *)
Left(s, D, z) ==
    /\ z.entity = s.entity
    /\ DOMAIN z.clients = DOMAIN s.clients \ D
    /\ \A c \in DOMAIN z.clients : z.clients[c] = s.clients[c]

LEMMA FewerClients ==
    ASSUME NEW s, NEW e, NEW n, NEW O, SubSound(s, e, n, O), NEW D,
           NEW f, f = Without(s.clients, D),
           NEW z, z = [s EXCEPT !.clients = f]
    PROVE  SubSound(z, e, n, O \ D) /\ Left(s, D, z)
  <1> DEFINE P == O \ D
  <1>2. /\ s \in SubRec(e, n) /\ s.clients \in Table(Conn, ClientRec(n))
        /\ DOMAIN s.clients \subseteq O
        /\ \A x \in DOMAIN s.clients :
              /\ Sound(s.clients[x], n)
              /\ s.transient_local => Fed(s.clients[x], s.retained)
    BY ClientsOf, Zenon
  <1>3. f \in Table(Conn, ClientRec(n))
    BY <1>2, TableWithout, Zenon
  <1>4. /\ DOMAIN f = DOMAIN s.clients \ D
        /\ \A x \in DOMAIN f : x \in DOMAIN s.clients /\ f[x] = s.clients[x]
    BY DEF Without, Restrict
  <1>6. DOMAIN f \subseteq P
    BY <1>2, <1>4
  <1>7. \A x \in DOMAIN f : /\ Sound(f[x], n)
                            /\ s.transient_local => Fed(f[x], s.retained)
    BY <1>2, <1>4, Zenon
  <1>8. /\ SubSound(z, e, n, P)
        /\ z.entity = s.entity /\ z.clients = f
    <2> HIDE DEF P
    <2> QED BY <1>2, <1>3, <1>6, <1>7, ClientsSound
  <1> QED BY <1>4, <1>8, Zenon DEF Left

(* Bridge::disconnect of the clients in D. *)
LEMMA ReleaseSubs ==
    ASSUME NEW e, NEW n, NEW O, SubsOK(subscriptions, subs, e, n, O), NEW D,
           KeepSubscriptions([t \in DOMAIN subscriptions |->
              [subscriptions[t] EXCEPT !.clients = Without(@, D)]])
    PROVE  /\ SubsOK(subscriptions', subs', e, n, O \ D)
           /\ QueuesLimited(subscriptions, subscriptions')
  <1>1. PICK T : T = [t \in DOMAIN subscriptions |->
                        [subscriptions[t] EXCEPT !.clients = Without(@, D)]]
    OBVIOUS
  <1>2. /\ DOMAIN T = DOMAIN subscriptions
        /\ \A t \in DOMAIN T :
              T[t] = [subscriptions[t] EXCEPT !.clients = Without(@, D)]
    BY <1>1, Zenon
  <1>3. ASSUME NEW t \in DOMAIN T
        PROVE  SubSound(T[t], e, n, O \ D) /\ Left(subscriptions[t], D, T[t])
    <2>1. SubSound(subscriptions[t], e, n, O)
      BY <1>2 DEF SubsOK, SubTable
    <2>2. PICK s, z, f : /\ s = subscriptions[t] /\ z = T[t]
                         /\ f = Without(s.clients, D)
      OBVIOUS
    <2>3. z = [s EXCEPT !.clients = f] /\ SubSound(s, e, n, O)
      <3>1. s \in SubRec(e, n)
        BY <2>1, <2>2 DEF SubSound
      <3> QED BY <1>2, <2>1, <2>2, <3>1 DEF SubRec
    <2>4. f = Without(s.clients, D)
      BY <2>2
    <2>5. SubSound(z, e, n, O \ D) /\ Left(s, D, z)
      BY <2>3, <2>4, FewerClients
    <2> QED BY <2>2, <2>5, Zenon
  <1>4. Entities(T, subs)
    <2>1. Entities(subscriptions, subs)
      BY DEF SubsOK
    <2> QED BY <1>2, <1>3, <2>1, EntitiesChange DEF Left
  <1>5. SubTable(T, e, n, O \ D)
    BY <1>3 DEF SubTable
  <1>6. KeepSubscriptions(T)
    BY <1>1, Zenon
  <1>7. /\ SubsOK(subscriptions', subs', e, n, O \ D)
        /\ \A t \in DOMAIN subscriptions' :
              t \in DOMAIN T /\ subscriptions'[t] = T[t]
    BY <1>4, <1>5, <1>6, KeepSubs, Zenon
  <1>8. QueuesLimited(subscriptions, subscriptions')
    <2> SUFFICES ASSUME NEW t \in DOMAIN subscriptions,
                        NEW c \in DOMAIN subscriptions[t].clients,
                        t \in DOMAIN subscriptions',
                        c \in DOMAIN subscriptions'[t].clients
                 PROVE  Limited(subscriptions[t].clients[c],
                                subscriptions'[t].clients[c])
      BY DEF QueuesLimited
    <2>1. subscriptions'[t].clients[c] = subscriptions[t].clients[c]
      BY <1>3, <1>7, Zenon DEF Left
    <2>2. subscriptions[t].clients[c] \in ClientRec(n)
      BY DEF SubsOK, SubTable, SubSound, Sound
    <2> QED BY <2>1, <2>2, LimitedSame
  <1> QED BY <1>7, <1>8

LEMMA ReleasePubs ==
    ASSUME NEW e, NEW O, PubsOK(publishers, pubs, e, O), NEW D,
           KeepPublishers([t \in DOMAIN publishers |->
              [publishers[t] EXCEPT !.owners = Without(@, D)]])
    PROVE  PubsOK(publishers', pubs', e, O \ D)
  <1>1. PICK T : T = [t \in DOMAIN publishers |->
                        [publishers[t] EXCEPT !.owners = Without(@, D)]]
    OBVIOUS
  <1>2. /\ DOMAIN T = DOMAIN publishers
        /\ \A t \in DOMAIN T :
              T[t] = [publishers[t] EXCEPT !.owners = Without(@, D)]
    BY <1>1, Zenon
  <1>3. ASSUME NEW t \in DOMAIN T
        PROVE  /\ T[t] \in PubRec(e) /\ DOMAIN T[t].owners \subseteq O \ D
               /\ T[t].entity = publishers[t].entity
    <2>1. PICK p, w, q : /\ p = publishers[t] /\ w = Without(p.owners, D)
                         /\ q = T[t]
      OBVIOUS
    <2>2. p \in PubRec(e) /\ p.owners \in Owners /\ DOMAIN p.owners \subseteq O
      BY <1>2, <2>1 DEF PubsOK, PubTable, PubRec, Owners
    <2>3. DOMAIN w = DOMAIN p.owners \ D
      BY <2>1 DEF Without, Restrict
    <2>4. w \in Owners
      BY <2>1, <2>2, TableWithout, Zenon DEF Owners
    <2>5. q = [p EXCEPT !.owners = w]
      BY <1>2, <2>1, <2>2 DEF PubRec
    <2>6. q \in PubRec(e) /\ q.owners = w /\ q.entity = p.entity
      BY <2>2, <2>4, <2>5 DEF PubRec, Owners
    <2> QED BY <2>1, <2>2, <2>3, <2>6
  <1>4. Entities(T, pubs)
    <2>1. Entities(publishers, pubs)
      BY DEF PubsOK
    <2> QED BY <1>2, <1>3, <2>1, EntitiesChange
  <1>5. PubTable(T, e, O \ D)
    BY <1>3 DEF PubTable
  <1>6. KeepPublishers(T)
    BY <1>1, Zenon
  <1> QED BY <1>4, <1>5, <1>6, KeepPubs, Zenon

(* Bridge::unsubscribe: the client keeps some registrations or goes. *)
LEMMA UnsubscribeSubs ==
    ASSUME Batch, Subscriptions, NEW c, NEW t, NEW i, Unsubscribe(c, t, i)
    PROVE  /\ SubsOK(subscriptions', subs', subscribed, Handled, outputs)
           /\ QueuesLimited(subscriptions, subscriptions')
  <1>0. PICK e \in Nat, n \in Nat : e = subscribed /\ n = Handled
    BY HandledIsNat DEF Subscriptions
  <1>1. /\ SubsOK(subscriptions, subs, e, n, outputs)
        /\ t \in DOMAIN subscriptions
        /\ c \in DOMAIN subscriptions[t].clients
    BY <1>0 DEF Subscriptions, Unsubscribe
  <1>2. PICK s : s = subscriptions[t]
    OBVIOUS
  <1>3. PICK old : old = s.clients
    OBVIOUS
  <1>4. /\ SubSound(s, e, n, outputs)
        /\ s \in SubRec(e, n) /\ old \in Table(Conn, ClientRec(n))
        /\ DOMAIN old \subseteq outputs /\ c \in DOMAIN old
        /\ \A x \in DOMAIN old :
              /\ Sound(old[x], n)
              /\ old[x] \in ClientRec(n)
              /\ s.transient_local => Fed(old[x], s.retained)
    <2>1. SubSound(s, e, n, outputs)
      BY <1>1, <1>2 DEF SubsOK, SubTable
    <2>2. c \in DOMAIN old
      BY <1>1, <1>2, <1>3
    <2> QED BY <1>3, <2>1, <2>2, ClientsOf, Zenon
  <1>5. PICK left : left = IF i = NoId THEN << >>
                           ELSE Without(old[c].registrations, {i})
    OBVIOUS
  <1>6. PICK f : f = IF DOMAIN left = {} THEN Without(old, {c})
                     ELSE [old EXCEPT ![c].registrations = left]
    OBVIOUS
  <1>7. KeepSubscriptions([subscriptions EXCEPT ![t].clients = f])
    BY <1>2, <1>3, <1>5, <1>6 DEF Unsubscribe
  <1>8. PICK T : T = [subscriptions EXCEPT ![t].clients = f]
    OBVIOUS
  <1>9. PICK z : z = [s EXCEPT !.clients = f]
    OBVIOUS
  <1>10. /\ SubSound(z, e, n, outputs) /\ z.entity = s.entity
         /\ \A x \in DOMAIN old :
               x \in DOMAIN z.clients => Limited(old[x], z.clients[x])
    <2>1. CASE DOMAIN left = {}
      <3>1. f = Without(s.clients, {c})
        BY <1>3, <1>6, <2>1
      <3>2. PICK C : C = {c}
        OBVIOUS
      <3>3. SubSound(z, e, n, outputs \ C) /\ Left(s, C, z)
        BY <1>4, <1>9, <3>1, <3>2, FewerClients
      <3>4. SubSound(z, e, n, outputs)
        <4>1. outputs \ C \subseteq outputs /\ e <= e /\ n <= n
          OBVIOUS
        <4> QED BY <3>3, <4>1, SubMonotonic, Zenon
      <3>5. \A x \in DOMAIN old :
               x \in DOMAIN z.clients => Limited(old[x], z.clients[x])
        <4> SUFFICES ASSUME NEW x \in DOMAIN old, x \in DOMAIN z.clients
                     PROVE  Limited(old[x], z.clients[x])
          OBVIOUS
        <4>1. z.clients[x] = old[x] /\ old[x] \in ClientRec(n)
          BY <1>3, <1>4, <3>3 DEF Left
        <4> QED BY <4>1, LimitedSame
      <3> QED BY <3>3, <3>4, <3>5 DEF Left
    <2>2. CASE DOMAIN left # {}
      <3>1. /\ i # NoId
            /\ left = Without(old[c].registrations, {i})
        BY <1>5, <2>2
      <3>2. left \in Table(Ids, Options)
        <4>1. old[c].registrations \in Table(Ids, Options)
          BY <1>4 DEF ClientRec
        <4> QED BY <3>1, <4>1, TableWithout
      <3>3. PICK h : h = [old[c] EXCEPT !.registrations = left]
        OBVIOUS
      <3>4. PICK D \in SUBSET Conn : old \in [D -> ClientRec(n)]
        BY <1>4 DEF Table
      <3>5. f = [old EXCEPT ![c] = h]
        BY <1>6, <2>2, <3>3
      <3>6. /\ Sound(h, n)
            /\ h.pending = old[c].pending
            /\ \A r : Fed(old[c], r) => Fed(h, r)
        <4>1. PICK k : k = old[c]
          OBVIOUS
        <4>2. /\ k \in ClientRec(n) /\ InLine(k)
              /\ h = [k EXCEPT !.registrations = left]
          BY <1>4, <3>3, <4>1 DEF Sound
        <4>3. /\ Sound(h, n)
              /\ h.pending = k.pending
              /\ \A r : Fed(k, r) => Fed(h, r)
          BY <4>2, <3>2, <2>2, RegisterSound
        <4> QED BY <4>1, <4>3, Zenon
      <3>7. h \in ClientRec(n)
        BY <3>6 DEF Sound
      <3>8. /\ f \in [D -> ClientRec(n)] /\ DOMAIN f = DOMAIN old /\ f[c] = h
            /\ \A x \in DOMAIN old : x # c => f[x] = old[x]
        BY <1>4, <3>4, <3>5, <3>7
      <3>9. f \in Table(Conn, ClientRec(n)) /\ DOMAIN f \subseteq outputs
        BY <1>4, <3>8, <3>4, TableFrom
      <3>10. \A x \in DOMAIN f : /\ Sound(f[x], n)
                                 /\ s.transient_local => Fed(f[x], s.retained)
        BY <1>4, <3>6, <3>8, Zenon
      <3>11. /\ SubSound(z, e, n, outputs)
             /\ z.entity = s.entity /\ z.clients = f
        BY <1>4, <1>9, <3>9, <3>10, ClientsSound
      <3>12. \A x \in DOMAIN old :
                x \in DOMAIN z.clients => Limited(old[x], z.clients[x])
        <4> TAKE x \in DOMAIN old
        <4>1. z.clients[x].pending = old[x].pending /\ old[x] \in ClientRec(n)
          BY <1>4, <3>6, <3>8, <3>11, Zenon
        <4> QED BY <4>1, LimitedSame
      <3> QED BY <3>11, <3>12
    <2> QED BY <2>1, <2>2
  <1>11. Replaced(subscriptions, t, z, T)
    BY <1>1, <1>2, <1>8, <1>9 DEF Replaced
  <1>12. Entities(T, subs) /\ SubTable(T, e, n, outputs)
    <2>1. Entities(subscriptions, subs) /\ SubTable(subscriptions, e, n, outputs)
      BY <1>1 DEF SubsOK
    <2>2. /\ DOMAIN T = DOMAIN subscriptions
          /\ \A u \in DOMAIN subscriptions : T[u].entity = subscriptions[u].entity
      BY <1>1, <1>2, <1>10, <1>11 DEF Replaced
    <2>3. Entities(T, subs)
      BY <2>1, <2>2, EntitiesChange
    <2>4. SubTable(T, e, n, outputs)
      BY <1>10, <1>11, <2>1, Zenon DEF Replaced, SubTable
    <2> QED BY <2>3, <2>4
  <1>13. /\ SubsOK(subscriptions', subs', e, n, outputs)
         /\ \A u \in DOMAIN subscriptions' :
               u \in DOMAIN T /\ subscriptions'[u] = T[u]
    BY <1>7, <1>8, <1>12, KeepSubs
  <1>14. QueuesLimited(subscriptions, subscriptions')
    <2> SUFFICES ASSUME NEW u \in DOMAIN subscriptions,
                        NEW x \in DOMAIN subscriptions[u].clients,
                        u \in DOMAIN subscriptions',
                        x \in DOMAIN subscriptions'[u].clients
                 PROVE  Limited(subscriptions[u].clients[x],
                                subscriptions'[u].clients[x])
      BY DEF QueuesLimited
    <2>1. CASE u = t
      BY <1>2, <1>3, <1>10, <1>11, <1>13, <2>1, Zenon DEF Replaced
    <2>2. CASE u # t
      <3>1. subscriptions'[u] = subscriptions[u]
        BY <1>11, <1>13, <2>2, Zenon DEF Replaced
      <3>2. subscriptions[u].clients[x] \in ClientRec(n)
        BY <1>1 DEF SubsOK, SubTable, SubSound, Sound
      <3> QED BY <3>1, <3>2, LimitedSame
    <2> QED BY <2>1, <2>2
  <1> QED BY <1>0, <1>13, <1>14

(* Bridge::topic_message for a client. *)
LEMMA ReceiveSound ==
    ASSUME NEW n \in Nat, NEW k, Sound(k, n), NEW hold, hold => MayHold(k),
           NEW m, m = n + 1, NEW h, h = Receive(k, hold, m)
    PROVE  Sound(h, m) /\ Fed(h, m) /\ Limited(k, h)
  <1>0. /\ m \in Nat /\ n <= m /\ m \in 1..m /\ m \in 1..n + 1
        /\ k \in ClientRec(n) /\ DOMAIN k.registrations # {}
    BY DEF Sound
  <1>1. CASE NothingWaits(k) /\ ~hold
    <2>1. h = Hand(k, m) /\ k.pending = << >>
      BY <1>1, Zenon DEF Receive, NothingWaits
    <2>2. Sound(h, m) /\ Fed(h, m)
      BY <1>0, <2>1, HandSound
    <2>3. h.pending = k.pending
      BY <1>0, <2>1 DEF Hand, ClientRec
    <2> QED BY <1>0, <2>2, <2>3, LimitedSame
  <1>2. CASE ~(NothingWaits(k) /\ ~hold)
    <2>1. h = Enqueue(k, m)
      BY <1>2, Zenon DEF Receive
    <2>2. k.last \/ k.pending # << >>
      BY <1>2, Zenon DEF NothingWaits, MayHold
    <2>3. Sound(Enqueue(k, n + 1), n + 1) /\ Fed(Enqueue(k, n + 1), n + 1)
      BY <2>2, EnqueueSound
    <2>4. Limited(k, h)
      <3>1. CASE h = k
        BY <1>0, <3>1, LimitedSame
      <3>2. CASE h # k
        <4>1. /\ Queue(k) # 0
              /\ \E d \in 0..Len(k.pending) :
                    /\ Shifted(k.pending, h.pending, d, m)
                    /\ Len(k.pending) - d < Queue(k)
          BY <1>0, <2>1, <3>2, EnqueueFacts, Zenon
        <4>2. PICK d \in 0..Len(k.pending) :
                    /\ Len(h.pending) = Len(k.pending) - d + 1
                    /\ Len(k.pending) - d < Queue(k)
          BY <4>1, Zenon DEF Shifted
        <4>3. PICK l \in Nat, q \in Nat : l = Len(k.pending) /\ q = Queue(k)
          <5>1. k.pending \in Seq(1..n)
            BY <1>0 DEF ClientRec
          <5>2. Queue(k) \in Nat
            BY <1>0, QueueIsNat
          <5>3. Len(k.pending) \in Nat
            BY <5>1
          <5> QED BY <5>2, <5>3, Zenon
        <4>a. PICK a : a = Len(h.pending)
          OBVIOUS
        <4>4. d \in 0..l /\ a = l - d + 1 /\ l - d < q
          BY <4>2, <4>3, <4>a, Zenon
        <4>5. a <= q
          BY <4>4
        <4> QED BY <4>3, <4>a, <4>5, Zenon DEF Limited
      <3> QED BY <3>1, <3>2
    <2> QED BY <2>1, <2>3, <2>4, Zenon
  <1> QED BY <1>1, <1>2

(* A message for a subscription. *)
LEMMA MessageSound ==
    ASSUME NEW n \in Nat, NEW e, NEW O, NEW s, SubSound(s, e, n, O),
           NEW held, \A c \in DOMAIN s.clients : c \in held => MayHold(s.clients[c]),
           NEW m, m = n + 1,
           NEW z, z = Received(s, held, m)
    PROVE  /\ SubSound(z, e, m, O) /\ z.entity = s.entity
           /\ DOMAIN z.clients = DOMAIN s.clients
           /\ \A c \in DOMAIN s.clients : Limited(s.clients[c], z.clients[c])
  <1> DEFINE r == IF s.transient_local THEN m ELSE s.retained
             f == [c \in DOMAIN s.clients |->
                     Receive(s.clients[c], c \in held, m)]
  <1>z. z = [s EXCEPT !.retained = r, !.clients = f]
    BY DEF Received
  <1>0. m \in Nat /\ n <= m /\ m \in 0..m
    OBVIOUS
  <1>1. /\ s \in SubRec(e, n) /\ DOMAIN s.clients \subseteq Conn
        /\ DOMAIN s.clients \subseteq O
        /\ \A c \in DOMAIN s.clients : Sound(s.clients[c], n)
    BY ClientsOf, Zenon
  <1>2. /\ DOMAIN f = DOMAIN s.clients
        /\ \A c \in DOMAIN f : f[c] = Receive(s.clients[c], c \in held, m)
    BY Zenon
  <1>3. \A c \in DOMAIN f :
           Sound(f[c], m) /\ Fed(f[c], m) /\ Limited(s.clients[c], f[c])
    <2> TAKE c \in DOMAIN f
    <2>1. PICK k, h : k = s.clients[c] /\ h = f[c]
      OBVIOUS
    <2>2. Sound(k, n) /\ (c \in held => MayHold(k))
      BY <1>1, <1>2, <2>1, Zenon
    <2>3. h = Receive(k, c \in held, m)
      BY <1>2, <2>1, Zenon
    <2>4. CASE c \in held
      <3>1. h = Receive(k, TRUE, m)
        BY <2>3, <2>4, Zenon DEF Receive
      <3> QED BY <2>1, <2>2, <2>4, <3>1, ReceiveSound, Zenon
    <2>5. CASE c \notin held
      <3>1. h = Receive(k, FALSE, m)
        BY <2>3, <2>5, Zenon DEF Receive
      <3> QED BY <2>1, <2>2, <3>1, ReceiveSound, Zenon
    <2> QED BY <2>4, <2>5
  <1>4. f \in Table(Conn, ClientRec(m))
    <2>1. \A c \in DOMAIN s.clients : f[c] \in ClientRec(m)
      BY <1>2, <1>3, Zenon DEF Sound
    <2>2. f \in [DOMAIN s.clients -> ClientRec(m)]
      BY <2>1
    <2> QED BY <1>1, <2>2, TableFrom
  <1>5. r \in 0..m
    <2>1. s.retained \in 0..n
      BY <1>1 DEF SubRec
    <2> QED BY <1>0, <2>1
  <1>6. /\ z \in SubRec(e, m) /\ z.clients = f /\ z.retained = r
        /\ z.entity = s.entity
    <2> HIDE DEF SubRec
    <2>1. s \in [entity : 1..e, transient_local : BOOLEAN, retained : 0..n,
                 clients : Table(Conn, ClientRec(n))]
      BY <1>1 DEF SubRec
    <2> HIDE DEF r, f
    <2> QED BY <1>z, <1>4, <1>5, <2>1 DEF SubRec
  <1>7. z.transient_local <=> s.transient_local
    BY <1>z, <1>1, Zenon DEF SubRec
  <1>8. \A c \in DOMAIN f : z.transient_local => Fed(f[c], z.retained)
    <2> SUFFICES ASSUME NEW c \in DOMAIN f, s.transient_local
                 PROVE  Fed(f[c], z.retained)
      BY <1>7
    <2>1. z.retained = m
      BY <1>6
    <2> QED BY <1>3, <2>1
  <1> QED BY <1>1, <1>2, <1>3, <1>6, <1>8, Zenon DEF SubSound

(* Bridge::topic_message *)
LEMMA MessageSubs ==
    ASSUME Batch, Subscriptions, HandleMessage
    PROVE  /\ Handled' = Handled + 1
           /\ SubsOK(subscriptions', subs, subscribed, Handled + 1, outputs)
           /\ QueuesLimited(subscriptions, subscriptions')
  <1>0. PICK e \in Nat, n \in Nat :
            e = subscribed /\ n = Handled
    BY HandledIsNat DEF Subscriptions
  <1>m. PICK m : m = Head(events).message
    OBVIOUS
  <1>1. events # << >> /\ events' = Tail(events) /\ taken' = taken
    BY DEF HandleMessage
  <1>2. m = n + 1 /\ Handled' = n + 1
    <2>1. events \in Seq([entity : 1..subscribed, message : 1..taken])
      BY DEF Batch
    <2>2. Len(events) \in Nat /\ Len(events) >= 1 /\ Head(events) = events[1]
          /\ Len(Tail(events)) = Len(events) - 1
      BY <1>1, <2>1
    <2>3. 1 \in 1..Len(events)
      BY <2>2
    <2>4. events[1].message = Handled + 1
      BY <2>3 DEF Batch
    <2>5. taken \in Nat /\ Handled = taken - Len(events)
          /\ Handled' = taken - Len(Tail(events))
      BY <1>1, HandledIsNat, Zenon DEF Handled
    <2>6. PICK l \in Nat : l = Len(events)
      BY <2>2
    <2>7. Handled = taken - l /\ Handled' = taken - (l - 1)
      BY <2>2, <2>5, <2>6, Zenon
    <2>8. Handled' = Handled + 1
      <3>1. \A x \in Nat : x - (l - 1) = x - l + 1
        OBVIOUS
      <3> QED BY <2>5, <2>7, <3>1, Zenon
    <2> QED BY <1>0, <1>m, <2>2, <2>4, <2>8
  <1>3. SubsOK(subscriptions, subs, e, n, outputs)
    BY <1>0 DEF Subscriptions
  <1> DEFINE found == {t \in DOMAIN subscriptions :
                         subscriptions[t].entity = Head(events).entity}
  <1>4. PICK held :
          /\ \A t \in found : \A c \in held : MayHold(subscriptions[t].clients[c])
          /\ subscriptions' = [t \in DOMAIN subscriptions |->
               IF t \in found THEN Received(subscriptions[t], held, m)
               ELSE subscriptions[t]]
    BY <1>m, Zenon DEF HandleMessage
  <1> HIDE DEF found
  <1>5. DOMAIN subscriptions' = DOMAIN subscriptions
    BY <1>4
  <1>6. ASSUME NEW t \in DOMAIN subscriptions
        PROVE  /\ SubSound(subscriptions'[t], e, m, outputs)
               /\ subscriptions'[t].entity = subscriptions[t].entity
               /\ DOMAIN subscriptions'[t].clients = DOMAIN subscriptions[t].clients
               /\ \A c \in DOMAIN subscriptions[t].clients :
                     Limited(subscriptions[t].clients[c], subscriptions'[t].clients[c])
    <2>1. PICK s, z : s = subscriptions[t] /\ z = subscriptions'[t]
      OBVIOUS
    <2>2. SubSound(s, e, n, outputs)
      BY <1>3, <2>1 DEF SubsOK, SubTable
    <2>3. CASE t \notin found
      <3>1. z = s
        BY <1>4, <2>1, <2>3
      <3>2. e <= e /\ n <= m /\ m \in Nat /\ outputs \subseteq outputs
        BY <1>2
      <3>3. SubSound(s, e, m, outputs)
        BY <2>2, <3>2, SubMonotonic, Zenon
      <3>4. \A c \in DOMAIN s.clients : Limited(s.clients[c], s.clients[c])
        <4>1. \A c \in DOMAIN s.clients : s.clients[c] \in ClientRec(n)
          BY <2>2, Zenon DEF SubSound, Sound
        <4> QED BY <4>1, LimitedSame
      <3> QED BY <2>1, <3>1, <3>3, <3>4, Zenon
    <2>4. CASE t \in found
      <3>2. z = Received(s, held, m)
        BY <1>4, <2>1, <2>4
      <3>5. \A c \in DOMAIN s.clients : c \in held => MayHold(s.clients[c])
        BY <1>4, <2>1, <2>4, Zenon
      <3>6. /\ SubSound(z, e, m, outputs) /\ z.entity = s.entity
            /\ DOMAIN z.clients = DOMAIN s.clients
            /\ \A c \in DOMAIN s.clients : Limited(s.clients[c], z.clients[c])
        BY <1>2, <2>2, <3>2, <3>5, MessageSound
      <3> QED BY <2>1, <3>6, Zenon
    <2> QED BY <2>3, <2>4
  <1>7. Entities(subscriptions', subs)
    <2>1. Entities(subscriptions, subs)
      BY <1>3 DEF SubsOK
    <2> QED BY <1>5, <1>6, <2>1, EntitiesChange
  <1>8. SubTable(subscriptions', e, m, outputs)
    BY <1>5, <1>6 DEF SubTable
  <1>9. SubsUsed(subscriptions')
    BY <1>3, <1>5, <1>6, Zenon DEF SubsOK, SubsUsed
  <1>10. QueuesLimited(subscriptions, subscriptions')
    BY <1>6, Zenon DEF QueuesLimited
  <1> QED BY <1>0, <1>2, <1>7, <1>8, <1>9, <1>10 DEF SubsOK

(* The delivery step of Bridge::tick. *)
LEMMA DeliverSubs ==
    ASSUME Batch, Subscriptions, DeliverPending
    PROVE  /\ SubsOK(subscriptions', subs, subscribed, Handled, outputs)
           /\ QueuesLimited(subscriptions, subscriptions')
  <1>0. PICK e \in Nat, n \in Nat : e = subscribed /\ n = Handled
    BY HandledIsNat DEF Subscriptions
  <1>1. SubsOK(subscriptions, subs, e, n, outputs)
    BY <1>0 DEF Subscriptions
  <1>2. PICK W : /\ W \subseteq Waiting
                 /\ subscriptions' = [t \in DOMAIN subscriptions |->
                      [subscriptions[t] EXCEPT !.clients =
                         [c \in DOMAIN subscriptions[t].clients |->
                            IF <<t, c>> \in W
                            THEN Deliver(subscriptions[t].clients[c])
                            ELSE subscriptions[t].clients[c]]]]
    <2>1. PICK held \in SUBSET Waiting :
                   subscriptions' = [t \in DOMAIN subscriptions |->
                      [subscriptions[t] EXCEPT !.clients =
                         [c \in DOMAIN subscriptions[t].clients |->
                            IF <<t, c>> \in Waiting \ held
                            THEN Deliver(subscriptions[t].clients[c])
                            ELSE subscriptions[t].clients[c]]]]
      BY DEF DeliverPending
    <2>2. Waiting \ held \subseteq Waiting
      OBVIOUS
    <2> QED BY <2>1, <2>2, Zenon
  <1>3. DOMAIN subscriptions' = DOMAIN subscriptions
    BY <1>2
  <1>4. ASSUME NEW t \in DOMAIN subscriptions
        PROVE  /\ SubSound(subscriptions'[t], e, n, outputs)
               /\ subscriptions'[t].entity = subscriptions[t].entity
               /\ DOMAIN subscriptions'[t].clients = DOMAIN subscriptions[t].clients
               /\ \A c \in DOMAIN subscriptions[t].clients :
                     Limited(subscriptions[t].clients[c], subscriptions'[t].clients[c])
    <2>1. PICK s, z : s = subscriptions[t] /\ z = subscriptions'[t]
      OBVIOUS
    <2>2. /\ SubSound(s, e, n, outputs)
          /\ s \in SubRec(e, n) /\ DOMAIN s.clients \subseteq Conn
          /\ DOMAIN s.clients \subseteq outputs
          /\ \A c \in DOMAIN s.clients :
                /\ Sound(s.clients[c], n)
                /\ s.clients[c] \in ClientRec(n)
                /\ s.transient_local => Fed(s.clients[c], s.retained)
      <3>1. SubSound(s, e, n, outputs)
        BY <1>1, <2>1 DEF SubsOK, SubTable
      <3> QED BY <3>1, ClientsOf, Zenon
    <2>3. PICK f : f = [c \in DOMAIN s.clients |->
                          IF <<t, c>> \in W THEN Deliver(s.clients[c])
                          ELSE s.clients[c]]
      OBVIOUS
    <2>4. z = [s EXCEPT !.clients = f]
      BY <1>2, <2>1, <2>3
    <2>5. /\ DOMAIN f = DOMAIN s.clients
          /\ \A c \in DOMAIN f :
                f[c] = IF <<t, c>> \in W THEN Deliver(s.clients[c])
                       ELSE s.clients[c]
      BY <2>3, Zenon
    <2>6. \A c \in DOMAIN f :
             /\ Sound(f[c], n)
             /\ s.transient_local => Fed(f[c], s.retained)
             /\ Limited(s.clients[c], f[c])
      <3> TAKE c \in DOMAIN f
      <3>1. PICK k : k = s.clients[c]
        OBVIOUS
      <3>2. /\ Sound(k, n) /\ k \in ClientRec(n)
            /\ s.transient_local => Fed(k, s.retained)
        BY <2>2, <2>5, <3>1, Zenon
      <3>3. CASE <<t, c>> \in W
        <4>1. f[c] = Deliver(k)
          BY <2>5, <3>1, <3>3, Zenon
        <4>2. k.pending # << >>
          BY <1>2, <2>1, <3>1, <3>3 DEF Waiting, ClientsWhere
        <4>3. /\ Sound(Deliver(k), n)
              /\ \A r \in Nat : Fed(k, r) => Fed(Deliver(k), r)
              /\ Len(Deliver(k).pending) <= Len(k.pending)
          BY <3>2, <4>2, DeliverSound
        <4>4. s.retained \in Nat
          BY <2>2 DEF SubRec
        <4> QED BY <3>1, <3>2, <4>1, <4>3, <4>4, Zenon DEF Limited
      <3>4. CASE <<t, c>> \notin W
        <4>1. f[c] = k
          BY <2>5, <3>1, <3>4, Zenon
        <4>2. Limited(k, k)
          BY <3>2, LimitedSame
        <4> QED BY <3>1, <3>2, <4>1, <4>2, Zenon
      <3> QED BY <3>3, <3>4
    <2>7. f \in Table(Conn, ClientRec(n))
      <3>1. \A c \in DOMAIN s.clients : f[c] \in ClientRec(n)
        BY <2>5, <2>6, Zenon DEF Sound
      <3>2. f \in [DOMAIN s.clients -> ClientRec(n)]
        BY <2>3, <3>1
      <3> QED BY <2>2, <3>2, TableFrom
    <2>8. DOMAIN f \subseteq outputs
      BY <2>2, <2>5
    <2>9. /\ SubSound(z, e, n, outputs)
          /\ z.entity = s.entity /\ z.clients = f
      BY <2>2, <2>4, <2>6, <2>7, <2>8, ClientsSound
    <2> QED BY <2>1, <2>5, <2>6, <2>9, Zenon
  <1>5. Entities(subscriptions', subs)
    <2>1. Entities(subscriptions, subs)
      BY <1>1 DEF SubsOK
    <2> QED BY <1>3, <1>4, <2>1, EntitiesChange
  <1>6. SubTable(subscriptions', e, n, outputs)
    BY <1>3, <1>4 DEF SubTable
  <1>7. SubsUsed(subscriptions')
    BY <1>1, <1>3, <1>4, Zenon DEF SubsOK, SubsUsed
  <1>8. QueuesLimited(subscriptions, subscriptions')
    BY <1>4, Zenon DEF QueuesLimited
  <1> QED BY <1>0, <1>5, <1>6, <1>7, <1>8 DEF SubsOK

(* A step that leaves the subscriptions alone. *)
LEMMA QueuesSame ==
    ASSUME Subscriptions, subscriptions' = subscriptions
    PROVE  QueuesLimited(subscriptions, subscriptions')
  <1>1. ASSUME NEW t \in DOMAIN subscriptions,
               NEW c \in DOMAIN subscriptions[t].clients
        PROVE  Limited(subscriptions[t].clients[c], subscriptions[t].clients[c])
    <2>1. subscriptions[t].clients[c] \in ClientRec(Handled)
      BY DEF Subscriptions, SubsOK, SubTable, SubSound, Sound
    <2> QED BY <2>1, LimitedSame
  <1> QED BY <1>1 DEF QueuesLimited

-----------------------------------------------------------------------------
(* The inductive step, action by action: the invariant is kept and no      *)
(* queue grows past its limit.                                             *)

Preserved == TopicInv' /\ QueuesLimited(subscriptions, subscriptions')

(* Sends only make known clients fail. *)
LEMMA SendClients ==
    ASSUME ClientsTypeOK, NEW S, Send(S) \/ SendTopic(S)
    PROVE  failed' \subseteq seen /\ closed' \subseteq seen
  BY DEF ClientsTypeOK, Send, SendTopic

(* A batch that does not change. *)
LEMMA BatchSame ==
    ASSUME Batch, UNCHANGED <<events, taken>>,
           subscribed \in Nat, subscribed' \in Nat, subscribed <= subscribed'
    PROVE  Batch' /\ Handled' = Handled
  <1>1. Handled' = Handled
    BY DEF Handled
  <1>2. events \in Seq([entity : 1..subscribed', message : 1..taken])
    <2>1. [entity : 1..subscribed, message : 1..taken]
             \subseteq [entity : 1..subscribed', message : 1..taken]
      OBVIOUS
    <2>2. events \in Seq([entity : 1..subscribed, message : 1..taken])
      BY DEF Batch
    <2> QED BY <2>1, <2>2, SeqMonotonic, Zenon
  <1>3. /\ taken \in 0..MaxMessages /\ Len(events) <= taken
        /\ \A j \in 1..Len(events) : events[j].message = Handled + j
    BY DEF Batch
  <1>4. taken' = taken /\ events' = events
    OBVIOUS
  <1>5. Batch'
    BY <1>1, <1>2, <1>3, <1>4, Zenon DEF Batch
  <1> QED BY <1>1, <1>5

(* Steps that leave the topics alone and disconnect nobody. *)
LEMMA SameTopics ==
    ASSUME TopicInv, UNCHANGED topicVars, outputs \subseteq outputs',
           ClientsTypeOK'
    PROVE  Preserved
  <1>0. PICK e \in Nat, n \in Nat, a \in Nat :
            e = subscribed /\ n = Handled /\ a = advertised
    BY HandledIsNat DEF TopicInv, Subscriptions, Publishers
  <1>1. /\ publishers' = publishers /\ subscriptions' = subscriptions
        /\ pubs' = pubs /\ subs' = subs /\ events' = events
        /\ advertised' = advertised /\ subscribed' = subscribed /\ taken' = taken
    BY DEF topicVars
  <1>2. Batch' /\ Handled' = Handled
    <2>1. subscribed \in Nat /\ subscribed' \in Nat /\ subscribed <= subscribed'
      BY <1>0, <1>1
    <2> QED BY <1>1, <2>1, BatchSame DEF TopicInv
  <1>3. Subscriptions'
    <2>1. SubsOK(subscriptions, subs, e, n, outputs)
      BY <1>0, Zenon DEF TopicInv, Subscriptions
    <2>2. e <= e /\ n <= n
      OBVIOUS
    <2>3. SubsOK(subscriptions, subs, e, n, outputs')
      BY <2>1, <2>2, SubsMonotonic, Zenon
    <2> QED BY <1>0, <1>1, <1>2, <2>3, Zenon DEF TopicInv, Subscriptions
  <1>4. Publishers'
    <2>1. PubsOK(publishers, pubs, a, outputs)
      BY <1>0, Zenon DEF TopicInv, Publishers
    <2>2. a <= a
      OBVIOUS
    <2>3. PubsOK(publishers, pubs, a, outputs')
      BY <2>1, <2>2, PubsMonotonic, Zenon
    <2> QED BY <1>0, <1>1, <2>3, Zenon DEF TopicInv, Publishers
  <1>5. QueuesLimited(subscriptions, subscriptions')
    BY <1>1, QueuesSame DEF TopicInv
  <1> QED BY <1>2, <1>3, <1>4, <1>5 DEF Preserved, TopicInv

LEMMA ClientSteps ==
    ASSUME TopicInv, NEW c \in Conn,
           \/ ClientConnect(c) /\ UNCHANGED topicVars
           \/ OutputCloses(c) /\ UNCHANGED topicVars
           \/ CommandRefused(c)
    PROVE  Preserved
  <1>0. ClientsTypeOK
    BY DEF TopicInv
  <1>1. CASE ClientConnect(c) /\ UNCHANGED topicVars
    <2>1. ClientsTypeOK' /\ outputs \subseteq outputs'
      BY <1>0, <1>1 DEF ClientsTypeOK, ClientConnect
    <2> QED BY <1>1, <2>1, SameTopics
  <1>2. CASE OutputCloses(c) /\ UNCHANGED topicVars
    <2>1. ClientsTypeOK' /\ outputs \subseteq outputs'
      BY <1>0, <1>2 DEF ClientsTypeOK, OutputCloses
    <2> QED BY <1>2, <2>1, SameTopics
  <1>3. CASE CommandRefused(c)
    <2>1. /\ Send({c}) /\ UNCHANGED topicVars
          /\ outputs' = outputs /\ seen' = seen /\ phase' = phase
      BY <1>3 DEF CommandRefused
    <2>2. failed' \subseteq seen /\ closed' \subseteq seen
      BY <1>0, <2>1, SendClients
    <2>3. ClientsTypeOK' /\ outputs \subseteq outputs'
      BY <1>0, <2>1, <2>2 DEF ClientsTypeOK
    <2> QED BY <2>1, <2>3, SameTopics
  <1> QED BY <1>1, <1>2, <1>3

LEMMA TickSteps ==
    ASSUME TopicInv, StartTick \/ EndPoll
    PROVE  Preserved
  <1>1. /\ UNCHANGED <<outputs, failed, closed, seen, topicVars>>
        /\ phase' \in Phases
    BY DEF StartTick, EndPoll, Advance, Phases
  <1>2. ClientsTypeOK' /\ outputs \subseteq outputs'
    BY <1>1 DEF TopicInv, ClientsTypeOK
  <1> QED BY <1>1, <1>2, SameTopics

(* Bridge::advertise, publish and unadvertise. *)
LEMMA PublisherSteps ==
    ASSUME TopicInv, NEW c \in Conn, NEW t \in Topic, NEW i \in Ids,
           Advertise(c, t, i) \/ PublishFails(c, t, i) \/ Unadvertise(c, t, i)
    PROVE  Preserved
  <1>0. /\ ClientsTypeOK /\ Batch /\ Subscriptions /\ Publishers
        /\ c \in outputs
    BY DEF TopicInv, Advertise, PublishFails, Unadvertise, Commands
  <1>1. UNCHANGED <<outputs, seen, phase, subscriptions, subs, events,
                    subscribed, taken>>
    BY DEF Advertise, PublishFails, Unadvertise, clientVars
  <1>2. ClientsTypeOK'
    <2>1. failed' \subseteq seen /\ closed' \subseteq seen
      <3>1. CASE PublishFails(c, t, i)
        BY <1>0, <3>1, SendClients DEF PublishFails
      <3>2. CASE Advertise(c, t, i) \/ Unadvertise(c, t, i)
        BY <1>0, <3>2 DEF Advertise, Unadvertise, clientVars, ClientsTypeOK
      <3> QED BY <3>1, <3>2
    <2> QED BY <1>0, <1>1, <2>1 DEF ClientsTypeOK
  <1>3. Batch' /\ Handled' = Handled
    <2>1. subscribed \in Nat /\ subscribed' = subscribed
      BY <1>0, <1>1 DEF Subscriptions
    <2>2. subscribed' \in Nat /\ subscribed <= subscribed'
      BY <2>1
    <2> QED BY <1>0, <1>1, <2>1, <2>2, BatchSame
  <1>4. Subscriptions'
    BY <1>0, <1>1, <1>3, Zenon DEF Subscriptions
  <1>5. Publishers'
    <2>1. CASE Advertise(c, t, i) \/ PublishFails(c, t, i)
      <3>1. Register(c, t, i)
        BY <2>1 DEF Advertise, PublishFails
      <3> QED BY <1>0, <1>1, <3>1, RegisterPubs DEF Publishers
    <2>2. CASE Unadvertise(c, t, i)
      <3>1. PubsOK(publishers', pubs', advertised, outputs)
        BY <1>0, <2>2, UnadvertisePubs
      <3>2. advertised' = advertised
        BY <2>2 DEF Unadvertise
      <3> QED BY <1>0, <1>1, <3>1, <3>2 DEF Publishers
    <2> QED BY <2>1, <2>2
  <1>6. QueuesLimited(subscriptions, subscriptions')
    BY <1>0, <1>1, QueuesSame
  <1> QED BY <1>2, <1>3, <1>4, <1>5, <1>6 DEF Preserved, TopicInv

(* Steps that change only the subscriptions. *)
LEMMA SubscriberSteps ==
    ASSUME TopicInv, NEW c \in Conn, NEW t \in Topic, NEW i \in Ids,
           \/ \E o \in Options : Subscribe(c, t, i, o)
           \/ Unsubscribe(c, t, i)
    PROVE  Preserved
  <1>0. /\ ClientsTypeOK /\ Batch /\ Subscriptions /\ Publishers
        /\ c \in outputs
    BY DEF TopicInv, Subscribe, Unsubscribe, Commands
  <1>1. UNCHANGED <<outputs, seen, phase, publishers, pubs, events, advertised,
                    taken>>
    BY DEF Subscribe, Unsubscribe, clientVars
  <1>2. ClientsTypeOK'
    <2>1. failed' \subseteq seen /\ closed' \subseteq seen
      <3>1. ASSUME NEW o \in Options, Subscribe(c, t, i, o)
            PROVE  \E S : SendTopic(S)
        BY <3>1 DEF Subscribe
      <3>2. CASE \E o \in Options : Subscribe(c, t, i, o)
        BY <1>0, <3>1, <3>2, SendClients
      <3>3. CASE Unsubscribe(c, t, i)
        BY <1>0, <3>3 DEF Unsubscribe, clientVars, ClientsTypeOK
      <3> QED BY <3>2, <3>3
    <2> QED BY <1>0, <1>1, <2>1 DEF ClientsTypeOK
  <1>3. /\ subscribed' \in 0..MaxSubscriptions /\ subscribed <= subscribed'
        /\ SubsOK(subscriptions', subs', subscribed', Handled, outputs)
        /\ QueuesLimited(subscriptions, subscriptions')
    <2>1. ASSUME NEW o \in Options, Subscribe(c, t, i, o)
          PROVE  /\ subscribed' \in 0..MaxSubscriptions
                 /\ subscribed <= subscribed'
                 /\ SubsOK(subscriptions', subs', subscribed', Handled, outputs)
                 /\ QueuesLimited(subscriptions, subscriptions')
      BY <1>0, <2>1, SubscribeSubs
    <2>2. CASE Unsubscribe(c, t, i)
      <3>1. /\ SubsOK(subscriptions', subs', subscribed, Handled, outputs)
            /\ QueuesLimited(subscriptions, subscriptions')
        BY <1>0, <2>2, UnsubscribeSubs
      <3>2. subscribed' = subscribed
        BY <2>2 DEF Unsubscribe
      <3>3. subscribed \in 0..MaxSubscriptions /\ subscribed <= subscribed
        BY <1>0 DEF Subscriptions
      <3> QED BY <3>1, <3>2, <3>3
    <2> QED BY <2>1, <2>2
  <1>4. Batch' /\ Handled' = Handled
    <2>1. subscribed \in Nat /\ subscribed' \in Nat
      BY <1>0, <1>3 DEF Subscriptions
    <2> QED BY <1>0, <1>1, <1>3, <2>1, BatchSame
  <1>5. Subscriptions'
    BY <1>1, <1>3, <1>4, Zenon DEF Subscriptions
  <1>6. Publishers'
    BY <1>0, <1>1, Zenon DEF Publishers
  <1> QED BY <1>2, <1>3, <1>4, <1>5, <1>6 DEF Preserved, TopicInv

(* Ros::poll *)
LEMMA TakeStep ==
    ASSUME TopicInv, NEW x \in subs, TakeMessage(x)
    PROVE  Preserved
  <1>0. ClientsTypeOK /\ Batch /\ Subscriptions /\ Publishers
    BY DEF TopicInv
  <1>1. /\ UNCHANGED <<clientVars, publishers, subscriptions, pubs, subs,
                       advertised, subscribed>>
        /\ taken < MaxMessages /\ taken' = taken + 1
        /\ events' = Append(events, [entity |-> x, message |-> taken + 1])
    BY DEF TakeMessage
  <1>2. PICK n \in Nat, l \in Nat, e \in Nat :
            n = taken /\ l = Len(events) /\ e = subscribed
    BY <1>0, HandledIsNat DEF Batch, Subscriptions
  <1>3. x \in 1..e
    <2>1. PICK t \in DOMAIN subscriptions : x = subscriptions[t].entity
      BY <1>0 DEF Subscriptions, SubsOK, Entities
    <2>2. subscriptions[t].entity \in 1..e
      BY <1>0, <1>2 DEF Subscriptions, SubsOK, SubTable, SubSound, SubRec
    <2> QED BY <2>1, <2>2
  <1>4. PICK v : v = [entity |-> x, message |-> n + 1]
    OBVIOUS
  <1>5. PICK a : a = Append(events, v)
    OBVIOUS
  <1> DEFINE V == [entity : 1..e, message : 1..n + 1]
  <1>6. v \in V /\ v.message = n + 1 /\ events \in Seq(V)
    <2>1. v \in V /\ v.message = n + 1
      BY <1>3, <1>4
    <2>2. [entity : 1..e, message : 1..n] \subseteq V
      OBVIOUS
    <2>3. events \in Seq([entity : 1..e, message : 1..n])
      BY <1>0, <1>2, Zenon DEF Batch
    <2> QED BY <2>1, <2>2, <2>3, SeqMonotonic, Zenon
  <1> HIDE DEF V
  <1>7. /\ a \in Seq(V) /\ Len(a) = Len(events) + 1
        /\ \A j \in 1..Len(events) : a[j] = events[j]
        /\ a[Len(events) + 1] = v
    <2>1. v \in V /\ events \in Seq(V)
      BY <1>6
    <2> QED BY <1>5, <2>1, AppendProperties
  <1>8. /\ Handled = n - l /\ Handled' = (n + 1) - (l + 1)
        /\ events' = a /\ taken' = n + 1 /\ subscribed' = e
    BY <1>1, <1>2, <1>4, <1>5, <1>7, Zenon DEF Handled
  <1>9. Handled' = Handled /\ l <= n /\ n + 1 \in 0..MaxMessages
    <2>1. (n + 1) - (l + 1) = n - l
      OBVIOUS
    <2>2. l <= n /\ n \in 0..MaxMessages /\ n < MaxMessages
      BY <1>0, <1>1, <1>2, Zenon DEF Batch
    <2>3. n + 1 \in 0..MaxMessages
      BY <2>2, BoundsAssumption
    <2> QED BY <1>8, <2>1, <2>2, <2>3, Zenon
  <1>10. \A j \in 1..Len(a) : a[j].message = Handled + j
    <2>1. \A j \in 1..l : events[j].message = Handled + j
      BY <1>0, <1>2, Zenon DEF Batch
    <2>2. Len(a) = l + 1 /\ (\A j \in 1..l : a[j] = events[j]) /\ a[l + 1] = v
      BY <1>2, <1>7, Zenon
    <2>3. (n - l) + (l + 1) = n + 1
      OBVIOUS
    <2>4. a[l + 1].message = Handled + (l + 1)
      BY <1>6, <1>8, <2>2, <2>3, Zenon
    <2>5. \A j \in 1..l + 1 : j \in 1..l \/ j = l + 1
      OBVIOUS
    <2> QED BY <2>1, <2>2, <2>4, <2>5, Zenon
  <1>11. Batch'
    <2>1. Len(a) <= n + 1
      BY <1>2, <1>7, <1>9
    <2>2. a \in Seq([entity : 1..e, message : 1..n + 1])
      BY <1>7 DEF V
    <2> QED BY <1>8, <1>9, <1>10, <2>1, <2>2, Zenon DEF Batch
  <1>12. ClientsTypeOK'
    BY <1>0, <1>1 DEF ClientsTypeOK, clientVars
  <1>13. outputs' = outputs
    BY <1>1 DEF clientVars
  <1>14. Subscriptions'
    BY <1>0, <1>1, <1>9, <1>13, Zenon DEF Subscriptions
  <1>15. Publishers'
    BY <1>0, <1>1, <1>13, Zenon DEF Publishers
  <1>16. QueuesLimited(subscriptions, subscriptions')
    BY <1>0, <1>1, QueuesSame
  <1> QED BY <1>11, <1>12, <1>14, <1>15, <1>16 DEF Preserved, TopicInv

(* Bridge::topic_message *)
LEMMA MessageStep ==
    ASSUME TopicInv, HandleMessage
    PROVE  Preserved
  <1>0. ClientsTypeOK /\ Batch /\ Subscriptions /\ Publishers
    BY DEF TopicInv
  <1>1. /\ UNCHANGED <<outputs, seen, phase, publishers, pubs, subs, advertised,
                       subscribed, taken>>
        /\ events # << >> /\ events' = Tail(events)
    BY DEF HandleMessage
  <1>2. /\ Handled' = Handled + 1
        /\ SubsOK(subscriptions', subs, subscribed, Handled + 1, outputs)
        /\ QueuesLimited(subscriptions, subscriptions')
    BY <1>0, MessageSubs
  <1>3. ClientsTypeOK'
    <2>1. \E S : SendTopic(S)
      BY Zenon DEF HandleMessage
    <2>2. failed' \subseteq seen /\ closed' \subseteq seen
      BY <1>0, <2>1, SendClients
    <2> QED BY <1>0, <1>1, <2>2 DEF ClientsTypeOK
  <1>4. Batch'
    <2> DEFINE V == [entity : 1..subscribed, message : 1..taken]
    <2>1. events \in Seq(V) /\ taken \in 0..MaxMessages
      BY <1>0 DEF Batch
    <2> HIDE DEF V
    <2>2. PICK a : a = Tail(events)
      OBVIOUS
    <2>3. /\ a \in Seq(V) /\ Len(a) = Len(events) - 1
          /\ \A j \in 1..Len(a) : a[j] = events[j + 1]
      BY <1>1, <2>1, <2>2, HeadTailProperties, Zenon
    <2>4. PICK l \in Nat, n \in Nat : l = Len(events) /\ n = Handled
      BY <1>0, <2>1, HandledIsNat
    <2>5. l <= taken
      BY <1>0, <2>4 DEF Batch
    <2>6. Len(a) = l - 1 /\ \A j \in 1..l - 1 : a[j] = events[j + 1]
      BY <2>3, <2>4, Zenon
    <2>7. Len(a) <= taken
      BY <1>0, <2>4, <2>5, <2>6, HandledIsNat
    <2>8. \A j \in 1..l : events[j].message = n + j
      BY <1>0, <2>4, Zenon DEF Batch
    <2>9. \A j \in 1..l - 1 : j + 1 \in 1..l /\ n + (j + 1) = n + 1 + j
      OBVIOUS
    <2>10. \A j \in 1..Len(a) : a[j].message = Handled' + j
      <3> SUFFICES ASSUME NEW j \in 1..l - 1 PROVE a[j].message = n + 1 + j
        BY <1>2, <2>4, <2>6, Zenon
      <3>1. j + 1 \in 1..l /\ n + (j + 1) = n + 1 + j
        BY <2>9, Zenon
      <3>2. a[j].message = n + (j + 1)
        BY <2>6, <2>8, <3>1, Zenon
      <3> QED BY <3>1, <3>2, Zenon
    <2>11. a \in Seq([entity : 1..subscribed, message : 1..taken])
      BY <2>3 DEF V
    <2>12. events' = a /\ taken' = taken /\ subscribed' = subscribed
      BY <1>1, <2>2
    <2> QED BY <2>1, <2>7, <2>10, <2>11, <2>12, Zenon DEF Batch
  <1>5. Subscriptions'
    BY <1>0, <1>1, <1>2, Zenon DEF Subscriptions
  <1>6. Publishers'
    BY <1>0, <1>1, Zenon DEF Publishers
  <1> QED BY <1>2, <1>3, <1>4, <1>5, <1>6 DEF Preserved, TopicInv

(* The delivery step of Bridge::tick. *)
LEMMA DeliverStep ==
    ASSUME TopicInv, DeliverPending
    PROVE  Preserved
  <1>0. ClientsTypeOK /\ Batch /\ Subscriptions /\ Publishers
    BY DEF TopicInv
  <1>1. /\ UNCHANGED <<outputs, seen, publishers, pubs, subs, events, advertised,
                       subscribed, taken>>
        /\ phase' = "reap"
    BY DEF DeliverPending, Advance
  <1>2. /\ SubsOK(subscriptions', subs, subscribed, Handled, outputs)
        /\ QueuesLimited(subscriptions, subscriptions')
    BY <1>0, DeliverSubs
  <1>3. ClientsTypeOK'
    <2>1. \E S : SendTopic(S)
      BY Zenon DEF DeliverPending
    <2>2. failed' \subseteq seen /\ closed' \subseteq seen
      BY <1>0, <2>1, SendClients
    <2> QED BY <1>0, <1>1, <2>2 DEF ClientsTypeOK, Phases
  <1>4. Batch' /\ Handled' = Handled
    <2>1. subscribed \in Nat /\ subscribed' = subscribed
      BY <1>0, <1>1 DEF Subscriptions
    <2>2. subscribed' \in Nat /\ subscribed <= subscribed'
      BY <2>1
    <2> QED BY <1>0, <1>1, <2>1, <2>2, BatchSame
  <1>5. Subscriptions'
    BY <1>0, <1>1, <1>2, <1>4, Zenon DEF Subscriptions
  <1>6. Publishers'
    BY <1>0, <1>1, Zenon DEF Publishers
  <1> QED BY <1>2, <1>3, <1>4, <1>5, <1>6 DEF Preserved, TopicInv

(* Bridge::disconnect and shutdown. *)
LEMMA ReleaseSteps ==
    ASSUME TopicInv, Reap \/ (\E c \in Conn : Disconnect(c)) \/ Shutdown
    PROVE  Preserved
  <1>0. ClientsTypeOK /\ Batch /\ Subscriptions /\ Publishers
    BY DEF TopicInv
  <1>1. /\ UNCHANGED <<closed, seen, events, advertised, subscribed, taken>>
        /\ failed' \subseteq failed
        /\ phase' \in Phases
        /\ \E D : Release(D)
    <2>1. CASE Reap
      BY <2>1 DEF Reap, Advance, Phases
    <2>2. ASSUME NEW c \in Conn, Disconnect(c)
          PROVE  /\ UNCHANGED <<closed, seen, events, advertised, subscribed, taken>>
                 /\ failed' \subseteq failed
                 /\ phase' \in Phases
                 /\ \E D : Release(D)
      BY <1>0, <2>2 DEF Disconnect, ClientsTypeOK
    <2>3. CASE Shutdown
      BY <2>3 DEF Shutdown, Advance, Phases
    <2> QED BY <2>1, <2>2, <2>3
  <1>2. PICK D : Release(D)
    BY <1>1
  <1>3. outputs' = outputs \ D
    BY <1>2 DEF Release
  <1>4. ClientsTypeOK'
    BY <1>0, <1>1, <1>3 DEF ClientsTypeOK
  <1>5. Batch' /\ Handled' = Handled
    <2>1. subscribed \in Nat /\ subscribed' = subscribed
      BY <1>0, <1>1 DEF Subscriptions
    <2>2. subscribed' \in Nat /\ subscribed <= subscribed'
      BY <2>1
    <2> QED BY <1>0, <1>1, <2>1, <2>2, BatchSame
  <1>6. /\ SubsOK(subscriptions', subs', subscribed, Handled, outputs \ D)
        /\ QueuesLimited(subscriptions, subscriptions')
    <2>1. KeepSubscriptions([t \in DOMAIN subscriptions |->
             [subscriptions[t] EXCEPT !.clients = Without(@, D)]])
      BY <1>2 DEF Release
    <2>2. SubsOK(subscriptions, subs, subscribed, Handled, outputs)
      BY <1>0 DEF Subscriptions
    <2> QED BY <2>1, <2>2, ReleaseSubs, Zenon
  <1>7. PubsOK(publishers', pubs', advertised, outputs \ D)
    <2>1. KeepPublishers([t \in DOMAIN publishers |->
             [publishers[t] EXCEPT !.owners = Without(@, D)]])
      BY <1>2 DEF Release
    <2>2. PubsOK(publishers, pubs, advertised, outputs)
      BY <1>0 DEF Publishers
    <2> QED BY <2>1, <2>2, ReleasePubs, Zenon
  <1>8. Subscriptions'
    BY <1>0, <1>1, <1>3, <1>5, <1>6, Zenon DEF Subscriptions
  <1>9. Publishers'
    BY <1>0, <1>1, <1>3, <1>7, Zenon DEF Publishers
  <1> QED BY <1>4, <1>5, <1>6, <1>8, <1>9 DEF Preserved, TopicInv

(* The worker drops the bridge. *)
LEMMA FailStep ==
    ASSUME TopicInv, WorkerFails
    PROVE  Preserved
  <1>0. ClientsTypeOK /\ Batch /\ Subscriptions /\ Publishers
    BY DEF TopicInv
  <1>1. /\ phase' = "broken" /\ outputs' = {}
        /\ publishers' = << >> /\ subscriptions' = << >>
        /\ pubs' = {} /\ subs' = {} /\ events' = << >>
        /\ UNCHANGED <<failed, closed, seen, advertised, subscribed, taken>>
    BY DEF WorkerFails
  <1>2. ClientsTypeOK'
    BY <1>0, <1>1 DEF ClientsTypeOK, Phases
  <1>3. Batch'
    <2>1. 1..Len(<< >>) = {} /\ taken \in 0..MaxMessages /\ Len(<< >>) <= taken
      BY <1>0, HandledIsNat DEF Batch
    <2>2. << >> \in Seq([entity : 1..subscribed, message : 1..taken])
      OBVIOUS
    <2> QED BY <1>1, <2>1, <2>2, Zenon DEF Batch
  <1>4. DOMAIN << >> = {}
    OBVIOUS
  <1>5. Entities(<< >>, {})
    BY <1>4, FS_EmptySet DEF Entities
  <1>6. Subscriptions'
    BY <1>0, <1>1, <1>4, <1>5, Zenon DEF Subscriptions, SubsOK, SubTable, SubsUsed
  <1>7. Publishers'
    BY <1>0, <1>1, <1>4, <1>5, Zenon DEF Publishers, PubsOK, PubTable, PubsUsed
  <1>8. QueuesLimited(subscriptions, subscriptions')
    BY <1>1, <1>4, Zenon DEF QueuesLimited
  <1> QED BY <1>2, <1>3, <1>6, <1>7, <1>8 DEF Preserved, TopicInv

LEMMA InitTopics ==
    ASSUME Init
    PROVE  TopicInv
  <1>1. /\ publishers = << >> /\ subscriptions = << >>
        /\ pubs = {} /\ subs = {} /\ events = << >>
        /\ advertised = 0 /\ subscribed = 0 /\ taken = 0
    BY DEF Init
  <1>2. ClientsTypeOK
    BY DEF Init, ClientsInit, ClientsTypeOK, Phases
  <1>3. Batch
    <2>1. 1..Len(<< >>) = {} /\ 0 \in 0..MaxMessages /\ Len(<< >>) <= 0
      BY BoundsAssumption
    <2>2. << >> \in Seq([entity : 1..0, message : 1..0])
      OBVIOUS
    <2> QED BY <1>1, <2>1, <2>2, Zenon DEF Batch
  <1>4. DOMAIN << >> = {} /\ 0 \in 0..MaxSubscriptions /\ 0 \in 0..MaxPublishers
    BY BoundsAssumption
  <1>5. Entities(<< >>, {})
    BY <1>4, FS_EmptySet DEF Entities
  <1>6. Subscriptions
    BY <1>1, <1>4, <1>5, Zenon DEF Subscriptions, SubsOK, SubTable, SubsUsed
  <1>7. Publishers
    BY <1>1, <1>4, <1>5, Zenon DEF Publishers, PubsOK, PubTable, PubsUsed
  <1> QED BY <1>2, <1>3, <1>6, <1>7 DEF TopicInv

LEMMA NextTopics ==
    ASSUME TopicInv, [Next]_vars
    PROVE  Preserved
  <1>1. CASE Next
    <2>1. ASSUME NEW c \in Conn,
                 \/ ClientConnect(c) /\ UNCHANGED topicVars
                 \/ OutputCloses(c) /\ UNCHANGED topicVars
                 \/ CommandRefused(c)
          PROVE  Preserved
      BY <2>1, ClientSteps
    <2>2. ASSUME NEW c \in Conn, Disconnect(c) PROVE Preserved
      BY <2>2, ReleaseSteps
    <2>3. ASSUME NEW c \in Conn, NEW t \in Topic, NEW i \in Ids,
                 \/ Advertise(c, t, i)
                 \/ PublishFails(c, t, i)
                 \/ Unadvertise(c, t, i)
          PROVE  Preserved
      BY <2>3, PublisherSteps
    <2>4. ASSUME NEW c \in Conn, NEW t \in Topic, NEW i \in Ids,
                 \/ \E o \in Options : Subscribe(c, t, i, o)
                 \/ Unsubscribe(c, t, i)
          PROVE  Preserved
      BY <2>4, SubscriberSteps
    <2>5. ASSUME NEW x \in subs, TakeMessage(x) PROVE Preserved
      BY <2>5, TakeStep
    <2>6. CASE Tick
      BY <2>6, TickSteps, MessageStep, DeliverStep, ReleaseSteps DEF Tick
    <2>7. CASE Shutdown
      BY <2>7, ReleaseSteps
    <2>8. CASE WorkerFails
      BY <2>8, FailStep
    <2> QED BY <1>1, <2>1, <2>2, <2>3, <2>4, <2>5, <2>6, <2>7, <2>8, Zenon DEF Next
  <1>2. CASE UNCHANGED vars
    <2>1. UNCHANGED topicVars /\ UNCHANGED clientVars
      BY <1>2 DEF vars
    <2>2. ClientsTypeOK' /\ outputs \subseteq outputs'
      BY <2>1 DEF clientVars, TopicInv, ClientsTypeOK
    <2> QED BY <2>1, <2>2, SameTopics
  <1> QED BY <1>1, <1>2

(* The invariant from which the theorems below follow. *)
THEOREM TopicInvariance == Spec => []TopicInv
  <1>1. Init => TopicInv
    BY InitTopics
  <1>2. TopicInv /\ [Next]_vars => TopicInv'
    BY NextTopics DEF Preserved
  <1> QED BY <1>1, <1>2, PTL DEF Spec

-----------------------------------------------------------------------------
(* As many ROS entities as entries. *)
LEMMA EntitiesCount ==
    ASSUME NEW T, NEW S, Entities(T, S)
    PROVE  Cardinality(S) = Cardinality(DOMAIN T)
  <1> DEFINE f == [t \in DOMAIN T |-> T[t].entity]
  <1>1. /\ IsFiniteSet(DOMAIN T)
        /\ S = {T[t].entity : t \in DOMAIN T}
        /\ \A t, u \in DOMAIN T : T[t].entity = T[u].entity => t = u
    BY DEF Entities
  <1>2. f \in Bijection(DOMAIN T, S)
    BY <1>1 DEF Bijection, Injection, Surjection, IsInjective
  <1>3. ExistsBijection(DOMAIN T, S)
    BY <1>2 DEF ExistsBijection
  <1> QED BY <1>1, <1>3, FS_Bijection

(* The shape of the state. *)
LEMMA TopicTypes ==
    ASSUME TopicInv
    PROVE  TypeOK
  <1>0. ClientsTypeOK /\ Batch /\ Subscriptions /\ Publishers
    BY DEF TopicInv
  <1>1. Handled \in Nat /\ taken \in Nat /\ Handled <= taken
    <2>1. events \in Seq([entity : 1..subscribed, message : 1..taken])
      BY <1>0 DEF Batch
    <2>2. Len(events) \in Nat
      BY <2>1
    <2>3. Handled = taken - Len(events) /\ Handled \in Nat /\ taken \in Nat
      BY <1>0, HandledIsNat DEF Handled
    <2> QED BY <2>2, <2>3
  <1>2. /\ DOMAIN publishers \subseteq Topic
        /\ \A t \in DOMAIN publishers :
              /\ publishers[t].entity \in 1..advertised
              /\ publishers[t].owners \in Table(Conn, (SUBSET Ids) \ {{}})
        /\ pubs \subseteq 1..advertised
    <2>1. PubsOK(publishers, pubs, advertised, outputs)
      BY <1>0 DEF Publishers
    <2>2. \A t \in DOMAIN publishers : publishers[t] \in PubRec(advertised)
      BY <2>1 DEF PubsOK, PubTable
    <2> QED BY <2>1, <2>2 DEF PubsOK, Entities, PubRec
  <1>3. PICK n \in Nat : n = Handled
    BY <1>1
  <1>4. SubsOK(subscriptions, subs, subscribed, n, outputs)
    BY <1>0, <1>3 DEF Subscriptions
  <1>5. ASSUME NEW t \in DOMAIN subscriptions
        PROVE  /\ subscriptions[t].entity \in 1..subscribed
               /\ subscriptions[t].transient_local \in BOOLEAN
               /\ subscriptions[t].retained \in 0..taken
               /\ DOMAIN subscriptions[t].clients \subseteq Conn
               /\ \A c \in DOMAIN subscriptions[t].clients :
                     ClientOK(subscriptions[t].clients[c])
    <2>1. PICK s : s = subscriptions[t]
      OBVIOUS
    <2>2. SubSound(s, subscribed, n, outputs)
      BY <1>4, <2>1 DEF SubsOK, SubTable
    <2>3. /\ s \in SubRec(subscribed, n)
          /\ DOMAIN s.clients \subseteq Conn
          /\ \A c \in DOMAIN s.clients : s.clients[c] \in ClientRec(n)
      BY <2>2, ClientsOf, Zenon
    <2>4. s.entity \in 1..subscribed /\ s.transient_local \in BOOLEAN
      BY <2>3 DEF SubRec
    <2>5. s.retained \in 0..taken
      <3>1. s.retained \in 0..n
        BY <2>3 DEF SubRec
      <3> QED BY <3>1, <1>1, <1>3
    <2>6. ASSUME NEW c \in DOMAIN s.clients
          PROVE  ClientOK(s.clients[c])
      <3>1. PICK k : k = s.clients[c]
        OBVIOUS
      <3>2. k \in ClientRec(taken)
        BY <1>1, <1>3, <2>3, <3>1, RecMonotonic
      <3>3. /\ k.registrations \in Table(Ids, Options) /\ k.last \in BOOLEAN
            /\ k.pending \in Seq(1..taken) /\ k.sent \in 0..taken
        BY <3>2 DEF ClientRec
      <3>4. /\ DOMAIN k.registrations \subseteq Ids
            /\ \A i \in DOMAIN k.registrations : k.registrations[i] \in Options
        BY <3>3, TableElements
      <3> QED BY <3>1, <3>3, <3>4, Zenon DEF ClientOK
    <2> QED BY <2>1, <2>3, <2>4, <2>5, <2>6, Zenon
  <1>6. DOMAIN subscriptions \subseteq Topic /\ subs \subseteq 1..subscribed
    BY <1>4, <1>5 DEF SubsOK, Entities
  <1>7. /\ events \in Seq([entity : 1..subscribed, message : 1..taken])
        /\ taken \in 0..MaxMessages
        /\ advertised \in 0..MaxPublishers
        /\ subscribed \in 0..MaxSubscriptions
    BY <1>0 DEF Batch, Subscriptions, Publishers
  <1> QED BY <1>0, <1>2, <1>5, <1>6, <1>7, Zenon DEF TypeOK

(* Spec => []SharedEntities: the live ROS publishers and subscriptions are *)
(* those of the tables of src/src/bridge/topics.rs, one per topic, and     *)
(* each is held by a registration of a connected client, whatever order    *)
(* advertise, subscribe, their opposites, disconnects and failures take.   *)
THEOREM EntitiesAreShared == Spec => []SharedEntities
  <1>1. ASSUME TopicInv PROVE SharedEntities
    <2>0. TypeOK /\ Subscriptions /\ Publishers
      BY <1>1, TopicTypes DEF TopicInv
    <2>1. /\ pubs = {publishers[t].entity : t \in DOMAIN publishers}
          /\ Cardinality(pubs) = Cardinality(DOMAIN publishers)
          /\ \A t \in DOMAIN publishers :
                DOMAIN publishers[t].owners \in (SUBSET outputs) \ {{}}
      <3>1. /\ Entities(publishers, pubs)
            /\ PubTable(publishers, advertised, outputs)
            /\ PubsUsed(publishers)
        BY <2>0 DEF Publishers, PubsOK
      <3>2. Cardinality(pubs) = Cardinality(DOMAIN publishers)
        BY <3>1, EntitiesCount
      <3> QED BY <3>1, <3>2 DEF Entities, PubTable, PubsUsed
    <2>2. /\ subs = {subscriptions[t].entity : t \in DOMAIN subscriptions}
          /\ Cardinality(subs) = Cardinality(DOMAIN subscriptions)
          /\ \A t \in DOMAIN subscriptions :
                /\ DOMAIN subscriptions[t].clients \in (SUBSET outputs) \ {{}}
                /\ \A c \in DOMAIN subscriptions[t].clients :
                      DOMAIN subscriptions[t].clients[c].registrations # {}
      <3>1. /\ Entities(subscriptions, subs)
            /\ SubTable(subscriptions, subscribed, Handled, outputs)
            /\ SubsUsed(subscriptions)
        BY <2>0 DEF Subscriptions, SubsOK
      <3>2. Cardinality(subs) = Cardinality(DOMAIN subscriptions)
        BY <3>1, EntitiesCount
      <3> QED BY <3>1, <3>2 DEF Entities, SubTable, SubSound, Sound, SubsUsed
    <2> QED BY <2>0, <2>1, <2>2, Zenon DEF SharedEntities
  <1> QED BY <1>1, TopicInvariance, PTL

-----------------------------------------------------------------------------
(* A client of a subscription, and what the invariant says of it. *)
LEMMA ClientSound ==
    ASSUME TopicInv, NEW t \in DOMAIN subscriptions,
           NEW c \in DOMAIN subscriptions[t].clients,
           NEW k, k = subscriptions[t].clients[c]
    PROVE  /\ Handled \in Nat
           /\ Sound(k, Handled)
           /\ k.pending \in Seq(1..Handled) /\ k.sent \in 0..Handled
           /\ subscriptions[t].transient_local =>
                 Fed(k, subscriptions[t].retained)
           /\ subscriptions[t].retained \in 0..Handled
  <1>1. Handled \in Nat /\ SubTable(subscriptions, subscribed, Handled, outputs)
    BY HandledIsNat DEF TopicInv, Subscriptions, SubsOK
  <1>2. PICK s : s = subscriptions[t]
    OBVIOUS
  <1>3. SubSound(s, subscribed, Handled, outputs)
    BY <1>1, <1>2 DEF SubTable
  <1>4. /\ Sound(k, Handled)
        /\ s.transient_local => Fed(k, s.retained)
        /\ s \in SubRec(subscribed, Handled)
    BY <1>2, <1>3, Zenon DEF SubSound
  <1>5. k.pending \in Seq(1..Handled) /\ k.sent \in 0..Handled
    BY <1>4 DEF Sound, ClientRec
  <1>6. s.retained \in 0..Handled
    BY <1>4 DEF SubRec
  <1> QED BY <1>1, <1>2, <1>4, <1>5, <1>6, Zenon

(* What a client was handed last, followed by what waits, is in order. *)
LEMMA LineInOrder ==
    ASSUME NEW n \in Nat, NEW p \in Seq(1..n), NEW m \in 0..n,
           \A i \in 1..Len(p) : m < p[i],
           \A i, j \in 1..Len(p) : i < j => p[i] < p[j],
           NEW line, line = <<m>> \o p,
           NEW i \in 1..Len(line), NEW j \in 1..Len(line), i < j
    PROVE  line[i] < line[j]
  <1>1. <<m>> \in Seq(0..n) /\ Len(<<m>>) = 1 /\ <<m>>[1] = m
    OBVIOUS
  <1>2. p \in Seq(0..n)
    <2>1. 1..n \subseteq 0..n
      OBVIOUS
    <2> QED BY <2>1
  <1>3. PICK o : o = <<m>>
    OBVIOUS
  <1>4. /\ Len(line) = Len(o) + Len(p)
        /\ \A x \in 1..Len(o) + Len(p) :
              line[x] = IF x <= Len(o) THEN o[x] ELSE p[x - Len(o)]
    BY <1>1, <1>2, <1>3, ConcatProperties
  <1>5. PICK l \in Nat : l = Len(p)
    OBVIOUS
  <1>6. /\ Len(line) = 1 + l
        /\ \A x \in 1..1 + l : line[x] = IF x <= 1 THEN m ELSE p[x - 1]
    BY <1>1, <1>3, <1>4, <1>5
  <1>7. i \in 1..1 + l /\ j \in 1..1 + l /\ ~(j <= 1)
    BY <1>6
  <1>8. line[j] = p[j - 1] /\ j - 1 \in 1..l
    BY <1>6, <1>7
  <1>9. CASE i = 1
    <2>1. line[i] = m
      BY <1>6, <1>7, <1>9
    <2> QED BY <2>1, <1>5, <1>8
  <1>10. CASE i # 1
    <2>1. line[i] = p[i - 1] /\ i - 1 \in 1..l /\ i - 1 < j - 1
      BY <1>6, <1>7, <1>10
    <2> QED BY <2>1, <1>5, <1>8
  <1> QED BY <1>9, <1>10

(* Spec => []InOrder: a client is handed the messages of a topic in the    *)
(* order ROS delivered them and none twice (Bridge::topic_message, the     *)
(* throttle queue drained by Bridge::tick and the replay of the retained   *)
(* message in Bridge::subscribe), for any number of clients and messages.  *)
THEOREM MessagesInOrder == Spec => []InOrder
  <1>1. ASSUME TopicInv PROVE InOrder
    <2> SUFFICES ASSUME NEW t \in DOMAIN subscriptions,
                        NEW c \in DOMAIN subscriptions[t].clients
                 PROVE  LET k == subscriptions[t].clients[c]
                            line == <<k.sent>> \o k.pending
                        IN  \A i, j \in 1..Len(line) : i < j => line[i] < line[j]
      BY DEF InOrder
    <2>1. PICK k : k = subscriptions[t].clients[c]
      OBVIOUS
    <2>2. /\ Handled \in Nat /\ Sound(k, Handled)
          /\ k.pending \in Seq(1..Handled) /\ k.sent \in 0..Handled
      BY <1>1, <2>1, ClientSound
    <2>3. PICK n \in Nat : n = Handled
      BY <2>2
    <2>4. PICK p \in Seq(1..n) : p = k.pending
      BY <2>2, <2>3
    <2>5. PICK m \in 0..n : m = k.sent
      BY <2>2, <2>3
    <2>6. /\ \A i \in 1..Len(p) : m < p[i]
          /\ \A i, j \in 1..Len(p) : i < j => p[i] < p[j]
      BY <2>2, <2>4, <2>5, Zenon DEF Sound, InLine
    <2>7. PICK line : line = <<m>> \o p
      OBVIOUS
    <2>8. \A i, j \in 1..Len(line) : i < j => line[i] < line[j]
      BY <2>6, <2>7, LineInOrder
    <2> QED BY <2>1, <2>4, <2>5, <2>7, <2>8, Zenon
  <1> QED BY <1>1, TopicInvariance, PTL

-----------------------------------------------------------------------------
(* The greatest of numbers in order is the last of them. *)
LEMMA GreatestBelow ==
    ASSUME NEW n \in Nat, NEW p \in Seq(1..n), NEW m \in 0..n, NEW r \in 0..n,
           m <= r, \A i \in 1..Len(p) : p[i] <= r,
           \A i \in 1..Len(p) : m < p[i],
           \A i, j \in 1..Len(p) : i < j => p[i] < p[j]
    PROVE  Max({m} \cup Range(p)) <= r
  <1> DEFINE S == {m} \cup Range(p)
  <1>1. PICK l \in Nat : l = Len(p)
    OBVIOUS
  <1>2. S = {m} \cup {p[i] : i \in 1..l} /\ \A i \in 1..l : p[i] \in 1..n
    BY <1>1 DEF Range
  <1> HIDE DEF S
  <1>3. \E x \in S : \A y \in S : x >= y
    <2>1. CASE l = 0
      <3>1. S = {m}
        BY <1>2, <2>1
      <3> QED BY <3>1
    <2>2. CASE l # 0
      <3>1. l \in 1..l
        BY <2>2
      <3>2. p[l] \in S /\ p[l] \in 1..n
        BY <1>2, <3>1
      <3>3. \A i \in 1..l : p[i] <= p[l]
        <4> TAKE i \in 1..l
        <4>1. i < l \/ i = l
          OBVIOUS
        <4> QED BY <4>1, <1>1, <1>2, <3>1
      <3>4. m <= p[l]
        BY <1>1, <1>2, <3>1
      <3>5. \A y \in S : p[l] >= y
        BY <1>2, <3>2, <3>3, <3>4
      <3> QED BY <3>2, <3>5
    <2> QED BY <2>1, <2>2
  <1>4. Max(S) \in S
    BY <1>3 DEF Max
  <1>5. \A y \in S : y <= r
    BY <1>1, <1>2
  <1> QED BY <1>4, <1>5 DEF S

(* Spec => []LateJoiner: once a message of a transient-local topic is      *)
(* retained, every client has been handed one, however late it subscribed, *)
(* and has none that is newer than the retained one (Bridge::subscribe and *)
(* Bridge::topic_message of src/src/bridge/topics.rs).                     *)
THEOREM LateJoinersAreFed == Spec => []LateJoiner
  <1>1. ASSUME TopicInv PROVE LateJoiner
    <2> SUFFICES ASSUME NEW t \in DOMAIN subscriptions,
                        NEW c \in DOMAIN subscriptions[t].clients,
                        subscriptions[t].transient_local
                 PROVE  LET s == subscriptions[t]
                            k == s.clients[c]
                        IN  /\ s.retained # 0 => k.sent # 0
                            /\ Max({k.sent} \cup Range(k.pending)) <= s.retained
      BY Zenon DEF LateJoiner
    <2>1. PICK k : k = subscriptions[t].clients[c]
      OBVIOUS
    <2>2. /\ Handled \in Nat /\ Sound(k, Handled)
          /\ k.pending \in Seq(1..Handled) /\ k.sent \in 0..Handled
          /\ Fed(k, subscriptions[t].retained)
          /\ subscriptions[t].retained \in 0..Handled
      BY <1>1, <2>1, ClientSound, Zenon
    <2>3. PICK n \in Nat : n = Handled
      BY <2>2
    <2>4. PICK p \in Seq(1..n) : p = k.pending
      BY <2>2, <2>3
    <2>5. PICK m \in 0..n : m = k.sent
      BY <2>2, <2>3
    <2>6. PICK r \in 0..n : r = subscriptions[t].retained
      BY <2>2, <2>3
    <2>7. /\ \A i \in 1..Len(p) : m < p[i]
          /\ \A i, j \in 1..Len(p) : i < j => p[i] < p[j]
      BY <2>2, <2>4, <2>5, Zenon DEF Sound, InLine
    <2>8. r # 0 => m # 0
      BY <2>2, <2>5, <2>6, Zenon DEF Fed
    <2>9. m <= r /\ \A i \in 1..Len(p) : p[i] <= r
      BY <2>2, <2>4, <2>5, <2>6, Zenon DEF Fed
    <2>10. Max({m} \cup Range(p)) <= r
      BY <2>7, <2>9, GreatestBelow
    <2> QED BY <2>1, <2>4, <2>5, <2>6, <2>8, <2>10, Zenon
  <1> QED BY <1>1, TopicInvariance, PTL

-----------------------------------------------------------------------------
(* The greater of two numbers. *)
LEMMA GreaterOfTwo ==
    ASSUME NEW a \in Nat, NEW b \in Nat
    PROVE  Max({a, b}) \in Nat /\ a <= Max({a, b}) /\ b <= Max({a, b})
  <1>1. \E x \in {a, b} : \A y \in {a, b} : x >= y
    <2>1. CASE a >= b
      BY <2>1
    <2>2. CASE b >= a
      BY <2>2
    <2> QED BY <2>1, <2>2
  <1>2. Max({a, b}) \in {a, b} /\ \A y \in {a, b} : Max({a, b}) >= y
    BY <1>1 DEF Max
  <1> QED BY <1>2

(* Spec => QueueBounded: no step lets the queue of a throttled client grow *)
(* past the shortest queue_length its registrations ask for                *)
(* (Bridge::topic_message), also while registrations come and go.          *)
THEOREM QueuesAreBounded == Spec => QueueBounded
  <1> DEFINE Bounded ==
        \A x \in ClientsWhere(LAMBDA k : TRUE) :
          LET old == subscriptions[x[1]].clients[x[2]]
              new == subscriptions'[x[1]].clients[x[2]]
          IN  /\ x[1] \in DOMAIN subscriptions'
              /\ x[2] \in DOMAIN subscriptions'[x[1]].clients
              => Len(new.pending) <= Max({Len(old.pending), Queue(old)})
  <1>1. ASSUME TopicInv, TopicInv', [Next]_vars
        PROVE  Bounded
    <2>1. QueuesLimited(subscriptions, subscriptions')
      BY <1>1, NextTopics DEF Preserved
    <2> SUFFICES ASSUME NEW x \in ClientsWhere(LAMBDA k : TRUE),
                        x[1] \in DOMAIN subscriptions',
                        x[2] \in DOMAIN subscriptions'[x[1]].clients
                 PROVE  Len(subscriptions'[x[1]].clients[x[2]].pending)
                          <= Max({Len(subscriptions[x[1]].clients[x[2]].pending),
                                  Queue(subscriptions[x[1]].clients[x[2]])})
      OBVIOUS
    <2>2. PICK t, c : t = x[1] /\ c = x[2]
      OBVIOUS
    <2>3. t \in DOMAIN subscriptions /\ c \in DOMAIN subscriptions[t].clients
      BY <2>2 DEF ClientsWhere
    <2>4. t \in DOMAIN subscriptions' /\ c \in DOMAIN subscriptions'[t].clients
      BY <2>2
    <2>5. PICK old, new : /\ old = subscriptions[t].clients[c]
                          /\ new = subscriptions'[t].clients[c]
      OBVIOUS
    <2>6. Limited(old, new)
      BY <2>1, <2>3, <2>4, <2>5 DEF QueuesLimited
    <2>7. /\ Handled \in Nat /\ Sound(old, Handled)
          /\ old.pending \in Seq(1..Handled)
      BY <1>1, <2>3, <2>5, ClientSound
    <2>8. Queue(old) \in Nat
      BY <2>7, QueueIsNat DEF Sound
    <2>9. new.pending \in Seq(1..Handled')
      <3>1. PICK s, e, n, O : /\ s = subscriptions'[t] /\ e = subscribed'
                              /\ n = Handled' /\ O = outputs'
        OBVIOUS
      <3>2. SubTable(subscriptions', e, n, O)
        BY <1>1, <3>1 DEF TopicInv, Subscriptions, SubsOK
      <3>3. SubSound(s, e, n, O)
        BY <2>4, <3>1, <3>2 DEF SubTable
      <3>4. new \in ClientRec(n)
        BY <2>4, <2>5, <3>1, <3>3, ClientsOf, Zenon
      <3> QED BY <3>1, <3>4 DEF ClientRec
    <2>10. PICK a \in Nat : a = Len(old.pending)
      BY <2>7
    <2>11. PICK b \in Nat : b = Queue(old)
      BY <2>8
    <2>12. PICK l \in Nat : l = Len(new.pending)
      BY <2>9
    <2>13. l <= a \/ l <= b
      BY <2>6, <2>10, <2>11, <2>12, Zenon DEF Limited
    <2>14. PICK z : z = Max({a, b})
      OBVIOUS
    <2>15. z \in Nat /\ a <= z /\ b <= z
      BY <2>14, GreaterOfTwo
    <2>16. l <= z
      BY <2>13, <2>15
    <2> QED BY <2>2, <2>5, <2>10, <2>11, <2>12, <2>14, <2>16, Zenon
  <1> HIDE DEF Bounded
  <1>2. TopicInv /\ TopicInv' /\ [Next]_vars => [Bounded]_vars
    BY <1>1
  <1>3. Spec => [][Bounded]_vars
    BY <1>2, TopicInvariance, PTL DEF Spec
  <1> QED BY <1>3 DEF Bounded, QueueBounded
=============================================================================

--------------------------- MODULE IncomingProofs ---------------------------
(***************************************************************************)
(* Proofs about the incoming scheduler for every set of connections and    *)
(* every capacity.                                                         *)
(***************************************************************************)
EXTENDS Incoming, TLAPS

-----------------------------------------------------------------------------
(* d stands before c in q. *)
Before(q, d, c) ==
    \E i, j \in 1..Len(q) : i < j /\ q[i] = d /\ q[j] = c

(* Adding c, which is not there, at the back of a queue. *)
LEMMA PushFacts ==
    ASSUME NEW S, NEW q \in Seq(S), NEW c \in S,
           IsInjective(q), ~Contains(q, c)
    PROVE  /\ Append(q, c) \in Seq(S)
           /\ IsInjective(Append(q, c))
           /\ \A d : Contains(Append(q, c), d) <=> Contains(q, d) \/ d = c
           /\ \A d, e : e # c /\ Before(Append(q, c), d, e) => Before(q, d, e)
BY DEF IsInjective, Contains, Before

(* Taking the head off a queue without duplicates. *)
LEMMA PopFacts ==
    ASSUME NEW S, NEW q \in Seq(S), q # << >>, IsInjective(q)
    PROVE  /\ Head(q) \in S
           /\ Tail(q) \in Seq(S)
           /\ IsInjective(Tail(q))
           /\ Contains(q, Head(q))
           /\ \A d : Contains(Tail(q), d) <=> Contains(q, d) /\ d # Head(q)
           /\ \A d : Contains(Tail(q), d) => Before(q, Head(q), d)
           /\ \A d, e : Before(Tail(q), d, e) => Before(q, d, e)
BY DEF IsInjective, Contains, Before

-----------------------------------------------------------------------------
(***************************************************************************)
(* The inductive invariant.  The ready queue holds every scheduled         *)
(* connection once; a connection is scheduled exactly when it is           *)
(* registered and has work; and whoever stands before a waiting connection *)
(* has not been served since that connection started to wait.              *)
(***************************************************************************)
QueueInv ==
    /\ IsInjective(ready)
    /\ \A c \in Conn : scheduled[c] <=> Contains(ready, c)

WorkInv ==
    /\ \A c \in Conn : scheduled[c] <=> (c \in registered /\ HasWork(c))
    /\ \A c \in Conn \ registered :
          ~output[c] /\ ~disconnect[c] /\ messages[c] = << >>
    /\ closed => registered = {}

BypassInv ==
    \A c, d \in Conn :
        (c # d /\ Contains(ready, c)) =>
            /\ bypass[c][d] <= 1
            /\ Before(ready, d, c) => bypass[c][d] = 0

IInv == TypeOK /\ QueueInv /\ WorkInv /\ BypassInv /\ Backlog

LEMMA InitIInv == Init => IInv
<1> SUFFICES ASSUME Init PROVE IInv
  OBVIOUS
<1>1. TypeOK
  <2>1. [d \in Conn |-> 0] \in [Conn -> Nat]
    OBVIOUS
  <2>2. bypass \in [Conn -> [Conn -> Nat]]
    BY <2>1, Zenon DEF Init
  <2>3. /\ messages \in [Conn -> Seq(Nat)]
        /\ \A c \in Conn : Len(messages[c]) <= Capacity
    BY CapacityAssumption DEF Init
  <2>4. /\ output \in [Conn -> BOOLEAN] /\ disconnect \in [Conn -> BOOLEAN]
        /\ scheduled \in [Conn -> BOOLEAN]
    BY Zenon DEF Init
  <2>5. /\ sent \in [Conn -> Nat] /\ got \in [Conn -> Nat]
    BY <2>1, Zenon DEF Init
  <2>6. /\ registered \subseteq Conn /\ ready \in Seq(Conn)
        /\ closed \in BOOLEAN /\ worker \in {"running", "exited"}
    <3>1. << >> \in Seq(Conn)
      OBVIOUS
    <3> QED
      BY <3>1, Zenon DEF Init
  <2> QED
    BY <2>2, <2>3, <2>4, <2>5, <2>6 DEF TypeOK
<1>2. QueueInv
  BY DEF Init, QueueInv, IsInjective, Contains
<1>3. WorkInv
  BY DEF Init, WorkInv, HasWork
<1>4. BypassInv
  BY DEF Init, BypassInv, Contains
<1>5. Backlog
  BY DEF Init, Backlog
<1> QED
  BY <1>1, <1>2, <1>3, <1>4, <1>5 DEF IInv

(* Schedule keeps the ready queue consistent. *)
LEMMA ScheduleFacts ==
    ASSUME IInv, NEW c \in Conn, Schedule(c)
    PROVE  /\ ready' \in Seq(Conn)
           /\ scheduled' = [scheduled EXCEPT ![c] = TRUE]
           /\ bypass' \in [Conn -> [Conn -> Nat]]
           /\ QueueInv'
           /\ BypassInv'
<1>1. CASE scheduled[c]
  BY <1>1 DEF IInv, TypeOK, QueueInv, BypassInv, Schedule
<1>2. CASE ~scheduled[c]
  <2>1. /\ ready' = Append(ready, c)
        /\ scheduled' = [scheduled EXCEPT ![c] = TRUE]
        /\ bypass' = [bypass EXCEPT ![c] = [d \in Conn |-> 0]]
    BY <1>2 DEF Schedule
  <2>2. /\ ready \in Seq(Conn) /\ IsInjective(ready) /\ ~Contains(ready, c)
    BY <1>2 DEF IInv, TypeOK, QueueInv
  <2>3. /\ Append(ready, c) \in Seq(Conn)
        /\ IsInjective(Append(ready, c))
        /\ \A d : Contains(Append(ready, c), d) <=> Contains(ready, d) \/ d = c
        /\ \A d, e : e # c /\ Before(Append(ready, c), d, e)
                       => Before(ready, d, e)
    BY <2>2, PushFacts
  <2>4. QueueInv'
    BY <2>1, <2>3 DEF IInv, TypeOK, QueueInv
  <2>5. BypassInv'
    BY <2>1, <2>3 DEF IInv, TypeOK, BypassInv
  <2> QED
    BY <2>1, <2>3, <2>4, <2>5 DEF IInv, TypeOK
<1> QED
  BY <1>1, <1>2

(* Serving c raises the count of c for every other waiting connection. *)
LEMMA ServedFacts ==
    ASSUME TypeOK, NEW c \in Conn, NEW q
    PROVE  /\ Served(c, q) \in [Conn -> [Conn -> Nat]]
           /\ \A e, d \in Conn :
                Served(c, q)[e][d] = IF e # c /\ Contains(q, e) /\ d = c
                                     THEN bypass[e][d] + 1
                                     ELSE bypass[e][d]
<1>1. ASSUME NEW e \in Conn
      PROVE  /\ [bypass[e] EXCEPT ![c] = @ + 1] \in [Conn -> Nat]
             /\ bypass[e] \in [Conn -> Nat]
  BY DEF TypeOK
<1>2. ASSUME NEW e \in Conn
      PROVE  Served(c, q)[e] = IF e # c /\ Contains(q, e)
                               THEN [bypass[e] EXCEPT ![c] = @ + 1]
                               ELSE bypass[e]
  BY DEF Served
<1>3. Served(c, q) \in [Conn -> [Conn -> Nat]]
  BY <1>1 DEF Served
<1>4. ASSUME NEW e \in Conn, NEW d \in Conn
      PROVE  Served(c, q)[e][d] = IF e # c /\ Contains(q, e) /\ d = c
                                  THEN bypass[e][d] + 1
                                  ELSE bypass[e][d]
  BY <1>1, <1>2
<1> QED
  BY <1>3, <1>4

(* Taking the head off the ready queue without putting it back. *)
LEMMA PopQueueFacts ==
    ASSUME IInv, ready # << >>,
           ready' = Tail(ready),
           scheduled' = [scheduled EXCEPT ![Head(ready)] = FALSE],
           bypass' = Served(Head(ready), Tail(ready))
    PROVE  /\ ready' \in Seq(Conn)
           /\ bypass' \in [Conn -> [Conn -> Nat]]
           /\ QueueInv'
           /\ BypassInv'
<1> DEFINE c == Head(ready)
<1>1. /\ c \in Conn /\ Tail(ready) \in Seq(Conn)
      /\ IsInjective(Tail(ready)) /\ Contains(ready, c)
      /\ \A d : Contains(Tail(ready), d) <=> Contains(ready, d) /\ d # c
      /\ \A d : Contains(Tail(ready), d) => Before(ready, c, d)
      /\ \A d, e : Before(Tail(ready), d, e) => Before(ready, d, e)
  BY PopFacts DEF IInv, TypeOK, QueueInv
<1>2. \A d : ~Before(Tail(ready), c, d)
  BY <1>1 DEF Before, Contains
<1>9. /\ Served(c, Tail(ready)) \in [Conn -> [Conn -> Nat]]
      /\ \A e, d \in Conn :
           Served(c, Tail(ready))[e][d] =
               IF e # c /\ Contains(Tail(ready), e) /\ d = c
               THEN bypass[e][d] + 1
               ELSE bypass[e][d]
  BY <1>1, ServedFacts DEF IInv
<1>3. ASSUME NEW e \in Conn, NEW d \in Conn
      PROVE  bypass'[e][d] = IF e # c /\ Contains(Tail(ready), e) /\ d = c
                             THEN bypass[e][d] + 1
                             ELSE bypass[e][d]
  BY <1>9
<1>4. bypass' \in [Conn -> [Conn -> Nat]]
  BY <1>9
<1>5. QueueInv'
  BY <1>1 DEF IInv, TypeOK, QueueInv
<1>6. BypassInv'
  <2> SUFFICES ASSUME NEW e \in Conn, NEW d \in Conn,
                      e # d, Contains(Tail(ready), e)
               PROVE  /\ bypass'[e][d] <= 1
                      /\ Before(Tail(ready), d, e) => bypass'[e][d] = 0
    BY DEF BypassInv
  <2>1. /\ bypass[e][d] \in Nat /\ bypass[e][d] <= 1
        /\ Before(ready, d, e) => bypass[e][d] = 0
    BY <1>1 DEF IInv, TypeOK, BypassInv
  <2>2. CASE d = c
    BY <2>1, <2>2, <1>1, <1>2, <1>3
  <2>3. CASE d # c
    BY <2>1, <2>3, <1>1, <1>3
  <2> QED
    BY <2>2, <2>3
<1> QED
  BY <1>1, <1>4, <1>5, <1>6

(* The same, when the head goes to the back of the queue. *)
LEMMA RotateQueueFacts ==
    ASSUME IInv, ready # << >>,
           ready' = Append(Tail(ready), Head(ready)),
           scheduled' = scheduled,
           bypass' = [Served(Head(ready), Tail(ready))
                        EXCEPT ![Head(ready)] = [d \in Conn |-> 0]]
    PROVE  /\ ready' \in Seq(Conn)
           /\ bypass' \in [Conn -> [Conn -> Nat]]
           /\ QueueInv'
           /\ BypassInv'
<1> DEFINE c == Head(ready)
           t == Tail(ready)
<1>1. /\ c \in Conn /\ t \in Seq(Conn)
      /\ IsInjective(t) /\ Contains(ready, c)
      /\ \A d : Contains(t, d) <=> Contains(ready, d) /\ d # c
      /\ \A d : Contains(t, d) => Before(ready, c, d)
      /\ \A d, e : Before(t, d, e) => Before(ready, d, e)
  BY PopFacts DEF IInv, TypeOK, QueueInv
<1>2. /\ Append(t, c) \in Seq(Conn)
      /\ IsInjective(Append(t, c))
      /\ \A d : Contains(Append(t, c), d) <=> Contains(t, d) \/ d = c
      /\ \A d, e : e # c /\ Before(Append(t, c), d, e) => Before(t, d, e)
  BY <1>1, PushFacts
<1>3. \A d : ~Before(t, c, d)
  BY <1>1 DEF Before, Contains
<1>9. /\ Served(c, t) \in [Conn -> [Conn -> Nat]]
      /\ \A e, d \in Conn :
           Served(c, t)[e][d] = IF e # c /\ Contains(t, e) /\ d = c
                                THEN bypass[e][d] + 1
                                ELSE bypass[e][d]
  BY <1>1, ServedFacts DEF IInv
<1>4. ASSUME NEW e \in Conn, NEW d \in Conn
      PROVE  bypass'[e][d] = IF e = c THEN 0
                             ELSE IF Contains(t, e) /\ d = c
                             THEN bypass[e][d] + 1
                             ELSE bypass[e][d]
  BY <1>1, <1>9
<1>5. bypass' \in [Conn -> [Conn -> Nat]]
  BY <1>1, <1>9
<1>6. QueueInv'
  BY <1>1, <1>2 DEF IInv, TypeOK, QueueInv
<1>7. BypassInv'
  <2> SUFFICES ASSUME NEW e \in Conn, NEW d \in Conn,
                      e # d, Contains(Append(t, c), e)
               PROVE  /\ bypass'[e][d] <= 1
                      /\ Before(Append(t, c), d, e) => bypass'[e][d] = 0
    BY DEF BypassInv
  <2>1. CASE e = c
    BY <2>1, <1>4
  <2>2. CASE e # c
    <3>1. /\ bypass[e][d] \in Nat /\ bypass[e][d] <= 1
          /\ Before(ready, d, e) => bypass[e][d] = 0
      BY <2>2, <1>1, <1>2 DEF IInv, TypeOK, BypassInv
    <3>2. CASE d = c
      BY <3>1, <3>2, <2>2, <1>1, <1>2, <1>3, <1>4
    <3>3. CASE d # c
      BY <3>1, <3>3, <2>2, <1>1, <1>2, <1>4
    <3> QED
      BY <3>2, <3>3
  <2> QED
    BY <2>1, <2>2
<1> QED
  BY <1>2, <1>5, <1>6, <1>7

-----------------------------------------------------------------------------
LEMMA ConnectIInv == ASSUME IInv, NEW c \in Conn, Connect(c) PROVE IInv'
<1>1. /\ ready' \in Seq(Conn)
      /\ scheduled' = [scheduled EXCEPT ![c] = TRUE]
      /\ bypass' \in [Conn -> [Conn -> Nat]]
      /\ QueueInv' /\ BypassInv'
  BY ScheduleFacts DEF Connect
<1>2. TypeOK'
  BY <1>1, CapacityAssumption DEF IInv, TypeOK, Connect
<1>3. WorkInv'
  BY <1>1 DEF IInv, TypeOK, WorkInv, HasWork, Connect
<1>4. Backlog'
  BY DEF IInv, TypeOK, Backlog, Connect
<1> QED
  BY <1>1, <1>2, <1>3, <1>4 DEF IInv

LEMMA MessageIInv == ASSUME IInv, NEW c \in Conn, Message(c) PROVE IInv'
<1>1. /\ ready' \in Seq(Conn)
      /\ scheduled' = [scheduled EXCEPT ![c] = TRUE]
      /\ bypass' \in [Conn -> [Conn -> Nat]]
      /\ QueueInv' /\ BypassInv'
  BY ScheduleFacts DEF Message
<1>2. TypeOK'
  BY <1>1, CapacityAssumption DEF IInv, TypeOK, Message, MessageGuard
<1> DEFINE m == messages[c]
           n == sent[c] + 1
<1>5. /\ m \in Seq(Nat) /\ n \in Nat
      /\ messages' = [messages EXCEPT ![c] = Append(m, n)]
      /\ c \in registered /\ ~closed /\ ~disconnect[c]
  BY DEF IInv, TypeOK, Message, MessageGuard
<1>6. /\ Append(m, n) # << >>
      /\ Len(Append(m, n)) = Len(m) + 1
      /\ \A i \in 1..(Len(m) + 1) :
            Append(m, n)[i] = IF i = Len(m) + 1 THEN n ELSE m[i]
  BY <1>5
<1>3. WorkInv'
  BY <1>1, <1>5, <1>6 DEF IInv, TypeOK, WorkInv, HasWork, Message
<1>4. Backlog'
  <2> SUFFICES ASSUME NEW d \in registered
               PROVE  IF disconnect[d]
                      THEN messages'[d] = << >>
                      ELSE /\ Len(messages'[d]) + got[d] = sent'[d]
                           /\ \A i \in 1..Len(messages'[d]) :
                                 messages'[d][i] = got[d] + i
    BY DEF Backlog, Message
  <2>1. d \in Conn
    BY DEF IInv, TypeOK
  <2>2. CASE d # c
    BY <2>1, <2>2, <1>5 DEF IInv, TypeOK, Backlog, Message
  <2>3. CASE d = c
    <3>1. /\ Len(m) + got[c] = sent[c]
          /\ \A i \in 1..Len(m) : m[i] = got[c] + i
          /\ got[c] \in Nat /\ sent[c] \in Nat /\ Len(m) \in Nat
      BY <1>5 DEF IInv, TypeOK, Backlog
    <3>2. messages'[c] = Append(m, n) /\ sent'[c] = n
      BY <1>5 DEF IInv, TypeOK, Message
    <3> HIDE DEF m
    <3>3. /\ Len(Append(m, n)) + got[c] = n
          /\ \A i \in 1..Len(Append(m, n)) : Append(m, n)[i] = got[c] + i
      BY <3>1, <1>6
    <3> QED
      BY <2>3, <3>2, <3>3, <1>5
  <2> QED
    BY <2>2, <2>3
<1> QED
  BY <1>1, <1>2, <1>3, <1>4 DEF IInv

LEMMA DisconnectIInv == ASSUME IInv, NEW c \in Conn, Disconnect(c) PROVE IInv'
<1>1. /\ ready' \in Seq(Conn)
      /\ scheduled' = [scheduled EXCEPT ![c] = TRUE]
      /\ bypass' \in [Conn -> [Conn -> Nat]]
      /\ QueueInv' /\ BypassInv'
  BY ScheduleFacts DEF Disconnect
<1>2. TypeOK'
  BY <1>1, CapacityAssumption DEF IInv, TypeOK, Disconnect
<1>3. WorkInv'
  BY <1>1 DEF IInv, TypeOK, WorkInv, HasWork, Disconnect
<1>4. Backlog'
  BY DEF IInv, TypeOK, Backlog, Disconnect
<1> QED
  BY <1>1, <1>2, <1>3, <1>4 DEF IInv

LEMMA CloseIInv ==
    ASSUME IInv, Close, worker' \in {"running", "exited"} PROVE IInv'
<1>1. TypeOK'
  BY CapacityAssumption DEF IInv, TypeOK, Close, historyVars
<1>2. QueueInv'
  BY DEF Close, QueueInv, IsInjective, Contains
<1>3. WorkInv'
  BY DEF Close, WorkInv, HasWork
<1>4. BypassInv'
  BY DEF Close, BypassInv, Contains
<1>5. Backlog'
  BY DEF Close, Backlog
<1> QED
  BY <1>1, <1>2, <1>3, <1>4, <1>5 DEF IInv

(* Whoever heads the ready queue is a scheduled, registered connection. *)
LEMMA HeadFacts ==
    ASSUME IInv, ready # << >>
    PROVE  /\ Head(ready) \in Conn
           /\ Head(ready) \in registered
           /\ scheduled[Head(ready)]
           /\ HasWork(Head(ready))
BY PopFacts DEF IInv, TypeOK, QueueInv, WorkInv

LEMMA RecvDisconnectIInv == ASSUME IInv, RecvDisconnect PROVE IInv'
<1> DEFINE c == Head(ready)
<1>1. c \in Conn /\ c \in registered /\ disconnect[c]
  BY HeadFacts DEF RecvDisconnect
<1>2. /\ ready' \in Seq(Conn)
      /\ bypass' \in [Conn -> [Conn -> Nat]]
      /\ QueueInv' /\ BypassInv'
  BY PopQueueFacts DEF RecvDisconnect
<1>3. messages[c] = << >>
  BY <1>1 DEF IInv, Backlog
<1>4. TypeOK'
  BY <1>1, <1>2 DEF IInv, TypeOK, RecvDisconnect
<1>5. WorkInv'
  BY <1>1, <1>3 DEF IInv, TypeOK, WorkInv, HasWork, RecvDisconnect
<1>6. Backlog'
  BY <1>1 DEF IInv, TypeOK, Backlog, RecvDisconnect
<1> QED
  BY <1>2, <1>4, <1>5, <1>6 DEF IInv

(* The tail of try_recv. *)
LEMMA RequeueFacts ==
    ASSUME IInv, ready # << >>, NEW rest, Requeue(Head(ready), rest)
    PROVE  /\ ready' \in Seq(Conn)
           /\ scheduled' = [scheduled EXCEPT ![Head(ready)] = rest # << >>]
           /\ bypass' \in [Conn -> [Conn -> Nat]]
           /\ QueueInv' /\ BypassInv'
<1>1. CASE rest # << >>
  <2>1. /\ ready' = Append(Tail(ready), Head(ready))
        /\ scheduled' = scheduled
        /\ bypass' = [Served(Head(ready), Tail(ready))
                        EXCEPT ![Head(ready)] = [d \in Conn |-> 0]]
    BY <1>1 DEF Requeue
  <2>2. scheduled[Head(ready)]
    BY HeadFacts
  <2>3. scheduled' = [scheduled EXCEPT ![Head(ready)] = rest # << >>]
    BY <1>1, <2>1, <2>2 DEF IInv, TypeOK
  <2> QED
    BY <2>1, <2>3, RotateQueueFacts
<1>2. CASE rest = << >>
  <2>1. /\ ready' = Tail(ready)
        /\ scheduled' = [scheduled EXCEPT ![Head(ready)] = FALSE]
        /\ bypass' = Served(Head(ready), Tail(ready))
    BY <1>2 DEF Requeue
  <2>2. scheduled' = [scheduled EXCEPT ![Head(ready)] = rest # << >>]
    BY <1>2, <2>1
  <2> QED
    BY <2>1, <2>2, PopQueueFacts
<1> QED
  BY <1>1, <1>2

LEMMA RecvConnectIInv == ASSUME IInv, RecvConnect PROVE IInv'
<1> DEFINE c == Head(ready)
<1>1. /\ c \in Conn /\ c \in registered /\ scheduled[c]
      /\ ~disconnect[c] /\ output[c]
  BY HeadFacts DEF RecvConnect
<1>2. /\ ready' \in Seq(Conn)
      /\ scheduled' = [scheduled EXCEPT ![c] = messages[c] # << >>]
      /\ bypass' \in [Conn -> [Conn -> Nat]]
      /\ QueueInv' /\ BypassInv'
  BY RequeueFacts DEF RecvConnect
<1>3. TypeOK'
  BY <1>1, <1>2 DEF IInv, TypeOK, RecvConnect
<1>4. WorkInv'
  BY <1>1, <1>2 DEF IInv, TypeOK, WorkInv, HasWork, RecvConnect
<1>5. Backlog'
  BY DEF IInv, Backlog, RecvConnect
<1> QED
  BY <1>2, <1>3, <1>4, <1>5 DEF IInv

LEMMA RecvMessageIInv == ASSUME IInv, RecvMessage PROVE IInv'
<1> DEFINE c == Head(ready)
<1>1. /\ c \in Conn /\ c \in registered /\ scheduled[c]
      /\ ~disconnect[c] /\ ~output[c] /\ messages[c] # << >>
  BY HeadFacts DEF RecvMessage
<1>2. /\ ready' \in Seq(Conn)
      /\ scheduled' = [scheduled EXCEPT ![c] = Tail(messages[c]) # << >>]
      /\ bypass' \in [Conn -> [Conn -> Nat]]
      /\ QueueInv' /\ BypassInv'
  BY RequeueFacts DEF RecvMessage
<1> DEFINE m == messages[c]
<1>6. /\ m \in Seq(Nat) /\ m # << >> /\ Len(m) <= Capacity
      /\ messages' = [messages EXCEPT ![c] = Tail(m)]
      /\ got' = [got EXCEPT ![c] = Head(m)]
  BY <1>1 DEF IInv, TypeOK, RecvMessage
<1>7. /\ Tail(m) \in Seq(Nat)
      /\ Len(m) \in Nat \ {0}
      /\ Len(Tail(m)) = Len(m) - 1
      /\ Head(m) = m[1] /\ Head(m) \in Nat
      /\ \A i \in 1..(Len(m) - 1) : Tail(m)[i] = m[i + 1]
  BY <1>6
<1>3. TypeOK'
  <2>1. /\ messages' \in [Conn -> Seq(Nat)]
        /\ got' \in [Conn -> Nat]
    BY <1>1, <1>6, <1>7 DEF IInv, TypeOK
  <2>2. \A d \in Conn : Len(messages'[d]) <= Capacity
    BY <1>1, <1>6, <1>7, CapacityAssumption DEF IInv, TypeOK
  <2> QED
    BY <1>1, <1>2, <2>1, <2>2 DEF IInv, TypeOK, RecvMessage
<1>4. WorkInv'
  BY <1>1, <1>2 DEF IInv, TypeOK, WorkInv, HasWork, RecvMessage
<1>5. Backlog'
  <2> SUFFICES ASSUME NEW d \in registered
               PROVE  IF disconnect[d]
                      THEN messages'[d] = << >>
                      ELSE /\ Len(messages'[d]) + got'[d] = sent[d]
                           /\ \A i \in 1..Len(messages'[d]) :
                                 messages'[d][i] = got'[d] + i
    BY DEF Backlog, RecvMessage
  <2>1. d \in Conn
    BY DEF IInv, TypeOK
  <2>2. CASE d # c
    BY <2>1, <2>2, <1>1, <1>6 DEF IInv, TypeOK, Backlog
  <2>3. CASE d = c
    <3>1. /\ Len(m) + got[c] = sent[c]
          /\ \A i \in 1..Len(m) : m[i] = got[c] + i
          /\ got[c] \in Nat /\ sent[c] \in Nat
      BY <1>1 DEF IInv, TypeOK, Backlog
    <3>2. messages'[c] = Tail(m) /\ got'[c] = Head(m)
      BY <1>1, <1>6 DEF IInv, TypeOK
    <3> HIDE DEF m
    <3>3. /\ Len(Tail(m)) + Head(m) = sent[c]
          /\ \A i \in 1..Len(Tail(m)) : Tail(m)[i] = Head(m) + i
      <4>1. Head(m) = got[c] + 1
        BY <3>1, <1>7
      <4>2. ASSUME NEW i \in 1..Len(Tail(m))
            PROVE  Tail(m)[i] = Head(m) + i
        <5>1. i \in 1..(Len(m) - 1) /\ i + 1 \in 1..Len(m)
          BY <1>7
        <5>2. Tail(m)[i] = m[i + 1] /\ m[i + 1] = got[c] + (i + 1)
          BY <5>1, <3>1, <1>7
        <5>3. i \in Nat /\ got[c] \in Nat
          BY <5>1, <3>1
        <5>4. got[c] + (i + 1) = (got[c] + 1) + i
          BY <5>3
        <5> QED
          BY <5>2, <5>4, <4>1
      <4> QED
        BY <4>1, <4>2, <3>1, <1>7
    <3> QED
      BY <2>3, <3>2, <3>3, <1>1
  <2> QED
    BY <2>2, <2>3
<1> QED
  BY <1>2, <1>3, <1>4, <1>5 DEF IInv

LEMMA NextIInv == IInv /\ [Next]_vars => IInv'
<1> SUFFICES ASSUME IInv, [Next]_vars PROVE IInv'
  OBVIOUS
<1>1. ASSUME NEW c \in Conn, Connect(c) PROVE IInv'
  BY <1>1, ConnectIInv
<1>2. ASSUME NEW c \in Conn, Message(c) PROVE IInv'
  BY <1>2, MessageIInv
<1>3. ASSUME NEW c \in Conn, Disconnect(c) PROVE IInv'
  BY <1>3, DisconnectIInv
<1>4. CASE Shutdown
  BY <1>4, CloseIInv DEF Shutdown, IInv, TypeOK
<1>5. CASE RecvDisconnect
  BY <1>5, RecvDisconnectIInv
<1>6. CASE RecvConnect
  BY <1>6, RecvConnectIInv
<1>7. CASE RecvMessage
  BY <1>7, RecvMessageIInv
<1>8. CASE RecvShutdown
  BY <1>8 DEF RecvShutdown, queueVars, historyVars, IInv, TypeOK, QueueInv,
              WorkInv, HasWork, BypassInv, Backlog
<1>9. CASE WorkerFails
  BY <1>9, CloseIInv DEF WorkerFails
<1>10. CASE UNCHANGED vars
  BY <1>10 DEF vars, queueVars, historyVars, IInv, TypeOK, QueueInv,
               WorkInv, HasWork, BypassInv, Backlog
<1> QED
  BY <1>1, <1>2, <1>3, <1>4, <1>5, <1>6, <1>7, <1>8, <1>9, <1>10 DEF Next

THEOREM Invariance == Spec => []IInv
BY InitIInv, NextIInv, PTL DEF Spec

-----------------------------------------------------------------------------
(* The shape of the state and the bound on every backlog hold in every     *)
(* reachable state of the scheduler (incoming_queue_size in Sender::message). *)
THEOREM TypeCorrect == Spec => []TypeOK
BY Invariance, PTL DEF IInv

(* The two unwraps of Receiver::try_recv never fail. *)
THEOREM NoPanic == Spec => []ReadyHasWork
<1>1. IInv => ReadyHasWork
  <2> SUFFICES ASSUME IInv, NEW i \in 1..Len(ready)
               PROVE  ready[i] \in registered /\ HasWork(ready[i])
    BY DEF ReadyHasWork
  <2>1. ready[i] \in Conn /\ Contains(ready, ready[i])
    BY DEF IInv, TypeOK, Contains
  <2> QED
    BY <2>1 DEF IInv, QueueInv, WorkInv
<1> QED
  BY <1>1, Invariance, PTL

(* No connection with work is forgotten or queued twice. *)
THEOREM NoLostWork == Spec => []WorkIsReady
<1>1. IInv => WorkIsReady
  BY DEF IInv, TypeOK, QueueInv, WorkInv, WorkIsReady, Waiting
<1> QED
  BY <1>1, Invariance, PTL

(* Sender::message accepts while fewer than Capacity messages wait. *)
LEMMA FullExact == IInv => RefusedOnlyWhenFull
<1> SUFFICES ASSUME IInv, NEW c \in registered, ~disconnect[c]
             PROVE  MessageGuard(c) <=> sent[c] < got[c] + Capacity
  BY DEF RefusedOnlyWhenFull
<1>1. ~closed /\ c \in Conn
  BY DEF IInv, TypeOK, WorkInv
<1>2. /\ Len(messages[c]) + got[c] = sent[c]
      /\ Len(messages[c]) \in Nat /\ got[c] \in Nat /\ sent[c] \in Nat
  BY <1>1 DEF IInv, TypeOK, Backlog
<1>3. Len(messages[c]) < Capacity <=> sent[c] < got[c] + Capacity
  BY <1>2, CapacityAssumption
<1> QED
  BY <1>1, <1>3 DEF MessageGuard

(* For any number of connections, the ready queue names exactly the        *)
(* connections with work, each once, and a message is refused exactly when *)
(* the backlog of its connection is full.                                  *)
THEOREM ReadyExact == Spec => []ReadyIffWork
<1>1. Spec => []RefusedOnlyWhenFull
  BY FullExact, Invariance, PTL
<1> QED
  BY <1>1, TypeCorrect, NoPanic, NoLostWork, PTL DEF ReadyIffWork

(* The backlog is exactly what the worker has not seen, in order. *)
THEOREM FifoBacklog == Spec => []Backlog
BY Invariance, PTL DEF IInv

(* However many connections there are and however large their backlogs,    *)
(* nobody is served twice while another connection waits.                  *)
THEOREM RoundRobin == Spec => []BoundedBypass
<1>1. IInv => BoundedBypass
  BY DEF IInv, BypassInv, BoundedBypass, Waiting
<1> QED
  BY <1>1, Invariance, PTL

-----------------------------------------------------------------------------
(***************************************************************************)
(* Refinement: every step of the scheduler is a step of the abstract       *)
(* channel, or leaves it alone.                                            *)
(***************************************************************************)
AbstractPhase == [c \in Conn |-> Phase(c)]

LEMMA RefineInit == Init => Channel!Init
<1> SUFFICES ASSUME Init PROVE Channel!Init
  OBVIOUS
<1>1. AbstractPhase = [c \in Conn |-> "absent"]
  BY DEF Init, AbstractPhase, Phase
<1> QED
  BY <1>1 DEF Init, Channel!Init, AbstractPhase

(* A step that touches the fields of one connection only moves the phase   *)
(* of that connection.                                                     *)
LEMMA PhaseUpdate ==
    ASSUME NEW c \in Conn, NEW p,
           Phase(c)' = p,
           \A d \in Conn \ {c} : /\ d \in registered' <=> d \in registered
                                 /\ output'[d] = output[d]
                                 /\ disconnect'[d] = disconnect[d]
    PROVE  AbstractPhase' = [AbstractPhase EXCEPT ![c] = p]
<1>1. ASSUME NEW d \in Conn, d # c PROVE Phase(d)' = Phase(d)
  BY <1>1 DEF Phase
<1> QED
  BY <1>1 DEF AbstractPhase

LEMMA RefineNext == IInv /\ [Next]_vars => [Channel!Next]_(Channel!vars)
<1> SUFFICES ASSUME IInv, [Next]_vars PROVE [Channel!Next]_(Channel!vars)
  OBVIOUS
<1> USE DEF AbstractPhase
<1>1. ASSUME NEW c \in Conn, Connect(c) PROVE Channel!Register(c)
  <2>1. Phase(c) = "absent" /\ Phase(c)' = "pending"
    BY <1>1 DEF Connect, Phase, IInv, TypeOK
  <2>2. AbstractPhase' = [AbstractPhase EXCEPT ![c] = "pending"]
    BY <1>1, <2>1, PhaseUpdate DEF Connect, IInv, TypeOK
  <2> QED
    BY <1>1, <2>1, <2>2 DEF Connect, Channel!Register
<1>2. ASSUME NEW c \in Conn, Message(c) PROVE Channel!Accept(c)
  <2>1. Phase(c) \in {"pending", "open"} /\ Phase(c)' = Phase(c)
    BY <1>2 DEF Message, MessageGuard, Phase
  <2>2. AbstractPhase' = [AbstractPhase EXCEPT ![c] = Phase(c)]
    BY <1>2, <2>1, PhaseUpdate DEF Message
  <2> QED
    BY <1>2, <2>1, <2>2 DEF Message, Channel!Accept
<1>3. ASSUME NEW c \in Conn, Disconnect(c)
      PROVE  Channel!StartClosing(c) \/ UNCHANGED Channel!vars
  <2>1. Phase(c) \in {"pending", "open", "closing"} /\ Phase(c)' = "closing"
    BY <1>3 DEF Disconnect, Phase, IInv, TypeOK
  <2>2. AbstractPhase' = [AbstractPhase EXCEPT ![c] = "closing"]
    BY <1>3, <2>1, PhaseUpdate DEF Disconnect, IInv, TypeOK
  <2> QED
    BY <1>3, <2>1, <2>2 DEF Disconnect, Channel!StartClosing, Channel!vars
<1>4. ASSUME Close PROVE Channel!Stop
  <2>1. AbstractPhase' = [c \in Conn |-> "absent"]
    BY <1>4 DEF Close, Phase
  <2> QED
    BY <1>4, <2>1 DEF Close, historyVars, Channel!Stop
<1>5. ASSUME RecvDisconnect PROVE Channel!Closed(Head(ready))
  <2>0. PICK c \in Conn : c = Head(ready)
    BY <1>5, HeadFacts DEF RecvDisconnect
  <2>1. c \in Conn /\ c \in registered /\ disconnect[c]
    BY <1>5, <2>0, HeadFacts DEF RecvDisconnect
  <2>2. Phase(c) = "closing" /\ Phase(c)' = "absent"
    BY <1>5, <2>0, <2>1 DEF RecvDisconnect, Phase
  <2>3. AbstractPhase' = [AbstractPhase EXCEPT ![c] = "absent"]
    BY <1>5, <2>0, <2>1, <2>2, PhaseUpdate DEF RecvDisconnect, IInv, TypeOK
  <2> QED
    BY <1>5, <2>0, <2>1, <2>2, <2>3 DEF RecvDisconnect, Channel!Closed
<1>6. ASSUME RecvConnect PROVE Channel!Open(Head(ready))
  <2>0. PICK c \in Conn : c = Head(ready)
    BY <1>6, HeadFacts DEF RecvConnect
  <2>1. c \in Conn /\ c \in registered /\ ~disconnect[c] /\ output[c]
    BY <1>6, <2>0, HeadFacts DEF RecvConnect
  <2>2. Phase(c) = "pending" /\ Phase(c)' = "open"
    BY <1>6, <2>0, <2>1 DEF RecvConnect, Phase, IInv, TypeOK
  <2>3. AbstractPhase' = [AbstractPhase EXCEPT ![c] = "open"]
    BY <1>6, <2>0, <2>1, <2>2, PhaseUpdate DEF RecvConnect, IInv, TypeOK
  <2> QED
    BY <1>6, <2>0, <2>1, <2>2, <2>3 DEF RecvConnect, Channel!Open
<1>7. ASSUME RecvMessage PROVE Channel!Deliver(Head(ready))
  <2>0. PICK c \in Conn : c = Head(ready)
    BY <1>7, HeadFacts DEF RecvMessage
  <2>1. /\ c \in Conn /\ c \in registered
        /\ ~disconnect[c] /\ ~output[c] /\ messages[c] # << >>
    BY <1>7, <2>0, HeadFacts DEF RecvMessage
  <2>2. Phase(c) = "open" /\ Phase(c)' = "open"
    BY <1>7, <2>0, <2>1 DEF RecvMessage, Phase
  <2>3. AbstractPhase' = [AbstractPhase EXCEPT ![c] = "open"]
    BY <1>7, <2>0, <2>1, <2>2, PhaseUpdate DEF RecvMessage
  <2>4. /\ messages[c] \in Seq(Nat) /\ got[c] \in Nat /\ sent[c] \in Nat
        /\ Len(messages[c]) + got[c] = sent[c]
        /\ \A i \in 1..Len(messages[c]) : messages[c][i] = got[c] + i
    BY <2>1 DEF IInv, TypeOK, Backlog
  <2>5. Head(messages[c]) = got[c] + 1 /\ got[c] < sent[c]
    BY <2>1, <2>4
  <2>6. got' = [got EXCEPT ![c] = got[c] + 1]
    BY <1>7, <2>0, <2>5 DEF RecvMessage
  <2> QED
    BY <1>7, <2>0, <2>1, <2>2, <2>3, <2>5, <2>6 DEF RecvMessage, Channel!Deliver
<1>8. CASE RecvShutdown \/ UNCHANGED vars
  BY <1>8 DEF RecvShutdown, vars, queueVars, historyVars, Phase, Channel!vars
<1>9. ASSUME ready # << >> PROVE Head(ready) \in Conn
  BY <1>9, HeadFacts
<1> QED
  BY <1>1, <1>2, <1>3, <1>4, <1>5, <1>6, <1>7, <1>8, <1>9
     DEF Next, Shutdown, WorkerFails, RecvDisconnect, RecvConnect,
         RecvMessage, Channel!Next

(* The scheduler implements the abstract channel: connect first, then      *)
(* every accepted message once and in order, and none after disconnect.    *)
THEOREM Refinement == Spec => ChannelSpec
<1>1. IInv /\ [Next]_vars => [Channel!Next]_(Channel!vars)
  BY RefineNext
<1> QED
  BY <1>1, RefineInit, Invariance, PTL DEF Spec, ChannelSpec, Channel!Spec
=============================================================================

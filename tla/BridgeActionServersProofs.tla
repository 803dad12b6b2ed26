--------------------- MODULE BridgeActionServersProofs ---------------------
(***************************************************************************)
(* Proofs about BridgeActionServers, for any number of clients, actions,   *)
(* servers, goals and requests.                                            *)
(*                                                                         *)
(* The inductive invariant ActionInv says of each table what it says of    *)
(* the others.  Its parts take the tables as arguments, so that a lemma    *)
(* about them serves the state before a step and the one after it.         *)
(***************************************************************************)
EXTENDS BridgeActionServers, SequenceTheorems, TLAPS

(* The servers AS with the ROS entities H, when n servers were created and *)
(* the clients in O are connected.                                         *)
ServersOK(AS, H, n, O) ==
    /\ AS \subseteq ServerRec
    /\ \A a \in AS : a.gen \in 1..n /\ a.owner \in O
    /\ \A a, b \in AS : a.action = b.action \/ a.gen = b.gen => a = b
    /\ H = Gens(AS) \X Kinds

(* A goal when n goals were accepted and m requests arrived. *)
GoalOK(g, n, m) ==
    /\ g \in GoalRec
    /\ g.id \in 1..n
    /\ g.requests \in Seq(1..m)
    /\ g.done <=> g.status \in Terminal
    /\ g.done => g.requests = << >>
    /\ IsInjective(g.requests)

GoalsOK(G, n, m) ==
    /\ \A g \in G : GoalOK(g, n, m)
    /\ \A g, h \in G : g.id = h.id => g = h
    /\ \A g, h \in G : g.action = h.action /\ g.uuid = h.uuid => g = h
    /\ \A g, h \in G : g # h => Range(g.requests) \cap Range(h.requests) = {}

(* Every goal's action is advertised by the client that has the goal. *)
Hosted(G, AS) ==
    \A g \in G : \E a \in AS : a.action = g.action /\ a.owner = g.owner

(* The requests E that tick has still to handle: each is new, of a live    *)
(* server, and there are none when commands are executed.                  *)
BatchOK(E, p, AS, G, m) ==
    /\ E \in Seq(EventRec)
    /\ p \notin {"poll", "events"} => E = << >>
    /\ \A i \in 1..Len(E) : E[i].request \in 1..m /\ E[i].gen \in Gens(AS)
    /\ \A i \in 1..Len(E) : E[i].kind # "cancel" => E[i].uuid \in Uuid
    /\ \A i, j \in 1..Len(E) : E[i].request = E[j].request => i = j
    /\ \A i \in 1..Len(E) : \A g \in G : E[i].request \notin Range(g.requests)

(* Request q waits in the batch E, or with a goal of G.  Ros.requests is   *)
(* Q, the requests that wait.                                              *)
InBatch(q, E) ==
    \E i \in 1..Len(E) : q = <<E[i].gen, E[i].kind, E[i].request>>
Held(q, AS, G) ==
    \E a \in AS, g \in G : /\ a.action = g.action
                           /\ \E r \in Range(g.requests) : q = Header(a, r)
RequestsOK(Q, E, AS, G) == \A q : q \in Q <=> InBatch(q, E) \/ Held(q, AS, G)

(* The answers X about the goals in G, when n goals were accepted; those   *)
(* in T have been answered in part.                                        *)
AnswersOK(X, T, G, n) ==
    /\ X \subseteq (1..n) \X Terminal
    /\ T \subseteq 1..n
    /\ \A x, y \in X : x[1] = y[1] /\ x[1] \notin T => x = y
    /\ \A g \in G, x \in X :
          x[1] = g.id /\ g.id \notin T => g.done /\ g.status = x[2]

Counters ==
    /\ servers \in 0..MaxServers
    /\ accepted \in 0..MaxGoals
    /\ arrived \in 0..MaxRequests

ActionInv ==
    /\ ClientsTypeOK
    /\ Counters
    /\ ServersOK(action_servers, handles, servers, outputs)
    /\ GoalsOK(server_goals, accepted, arrived)
    /\ Hosted(server_goals, action_servers)
    /\ BatchOK(events, phase, action_servers, server_goals, arrived)
    /\ RequestsOK(requests, events, action_servers, server_goals)
    /\ AnswersOK(answers, torn, server_goals, accepted)

(* What a step may do to the goals G. *)
Lives(G, H) ==
    \A g \in G, h \in H : g.id = h.id => /\ g.done => h = g
                                         /\ g.status <= h.status
-----------------------------------------------------------------------------
(* Goals and their requests. *)

LEMMA CountersNat ==
    ASSUME Counters PROVE servers \in Nat /\ accepted \in Nat /\ arrived \in Nat
  BY BoundsAssumption DEF Counters

LEMMA GoalMonotonic ==
    ASSUME NEW n \in Nat, NEW N \in Nat, n <= N,
           NEW m \in Nat, NEW M \in Nat, m <= M, NEW g, GoalOK(g, n, m)
    PROVE  GoalOK(g, N, M)
  <1>1. g.id \in 1..N
    BY DEF GoalOK
  <1>2. g.requests \in Seq(1..M)
    <2>1. g.requests \in Seq(1..m) /\ 1..m \subseteq 1..M
      BY DEF GoalOK
    <2> QED BY <2>1
  <1> QED BY <1>1, <1>2, Zenon DEF GoalOK

(* Goals that come from the goals of G, keeping their names and holding on *)
(* to no request of another.                                               *)
From(h, g) ==
    /\ h.id = g.id /\ h.action = g.action /\ h.uuid = g.uuid
    /\ h.owner = g.owner
    /\ Range(h.requests) \subseteq Range(g.requests)

LEMMA FromSame == ASSUME NEW g PROVE From(g, g)
  BY DEF From

LEMMA GoalsFrom ==
    ASSUME NEW G, NEW H, NEW n, NEW m, GoalsOK(G, n, m),
           \A h \in H : GoalOK(h, n, m) /\ \E g \in G : From(h, g),
           \A h, k \in H : h.id = k.id => h = k
    PROVE  GoalsOK(H, n, m)
  <1>1. ASSUME NEW h \in H, NEW k \in H, h.action = k.action /\ h.uuid = k.uuid
        PROVE  h = k
    <2>1. PICK g \in G : From(h, g)
      OBVIOUS
    <2>2. PICK f \in G : From(k, f)
      OBVIOUS
    <2>3. g = f
      <3>1. g.action = f.action /\ g.uuid = f.uuid
        BY <1>1, <2>1, <2>2 DEF From
      <3> QED BY <3>1, Zenon DEF GoalsOK
    <2> QED BY <2>1, <2>2, <2>3, Zenon DEF From
  <1>2. ASSUME NEW h \in H, NEW k \in H, h # k
        PROVE  Range(h.requests) \cap Range(k.requests) = {}
    <2>1. PICK g \in G : From(h, g)
      OBVIOUS
    <2>2. PICK f \in G : From(k, f)
      OBVIOUS
    <2>3. g # f
      <3>1. h.id = g.id /\ k.id = f.id
        BY <2>1, <2>2 DEF From
      <3> QED BY <1>2, <3>1
    <2>4. Range(g.requests) \cap Range(f.requests) = {}
      BY <2>3, Zenon DEF GoalsOK
    <2> QED BY <2>1, <2>2, <2>4 DEF From
  <1> QED BY <1>1, <1>2, Zenon DEF GoalsOK

LEMMA HostedFrom ==
    ASSUME NEW G, NEW H, NEW AS, Hosted(G, AS),
           \A h \in H : \E g \in G : From(h, g)
    PROVE  Hosted(H, AS)
  <1> SUFFICES ASSUME NEW h \in H
               PROVE  \E a \in AS : a.action = h.action /\ a.owner = h.owner
    BY DEF Hosted
  <1>1. PICK g \in G : From(h, g)
    OBVIOUS
  <1>2. PICK a \in AS : a.action = g.action /\ a.owner = g.owner
    BY DEF Hosted
  <1> QED BY <1>1, <1>2 DEF From

LEMMA BatchFrom ==
    ASSUME NEW E, NEW p, NEW AS, NEW G, NEW m, BatchOK(E, p, AS, G, m),
           NEW H, \A h \in H : \E g \in G : From(h, g)
    PROVE  BatchOK(E, p, AS, H, m)
  <1>1. ASSUME NEW i \in 1..Len(E), NEW h \in H
        PROVE  E[i].request \notin Range(h.requests)
    <2>1. PICK g \in G : From(h, g)
      OBVIOUS
    <2>2. E[i].request \notin Range(g.requests)
      BY Zenon DEF BatchOK
    <2> QED BY <2>1, <2>2 DEF From
  <1> QED BY <1>1, Zenon DEF BatchOK

(* More goals than those answered about. *)
LEMMA AnswersSame ==
    ASSUME NEW X, NEW T, NEW G, NEW n \in Nat, NEW N \in Nat, n <= N,
           AnswersOK(X, T, G, n), NEW H,
           \A h \in H : \/ h.id \notin 1..n
                        \/ h.id \in T
                        \/ \E g \in G : /\ g.id = h.id
                                        /\ g.done => h = g
    PROVE  AnswersOK(X, T, H, N)
  <1>1. X \subseteq (1..N) \X Terminal /\ T \subseteq 1..N
    <2>1. 1..n \subseteq 1..N
      OBVIOUS
    <2> QED BY <2>1 DEF AnswersOK
  <1>2. ASSUME NEW h \in H, NEW x \in X, x[1] = h.id /\ h.id \notin T
        PROVE  h.done /\ h.status = x[2]
    <2>1. x[1] \in 1..n
      BY DEF AnswersOK
    <2>2. PICK g \in G : g.id = h.id /\ (g.done => h = g)
      BY <1>2, <2>1, Zenon
    <2>3. g.done /\ g.status = x[2]
      BY <1>2, <2>2, Zenon DEF AnswersOK
    <2> QED BY <2>2, <2>3, Zenon
  <1> QED BY <1>1, <1>2, Zenon DEF AnswersOK

LEMMA AnswersAdd ==
    ASSUME NEW X, NEW Y, NEW T, NEW H, NEW n, AnswersOK(X, T, H, n),
           Y \subseteq (1..n) \X Terminal,
           \A x \in X, y \in Y : x[1] = y[1] /\ x[1] \notin T => x = y,
           \A x, y \in Y : x[1] = y[1] /\ x[1] \notin T => x = y,
           \A h \in H, y \in Y :
              y[1] = h.id /\ h.id \notin T => h.done /\ h.status = y[2]
    PROVE  AnswersOK(X \cup Y, T, H, n)
  <1>1. X \cup Y \subseteq (1..n) \X Terminal /\ T \subseteq 1..n
    BY DEF AnswersOK
  <1>2. ASSUME NEW x \in X \cup Y, NEW y \in X \cup Y,
               x[1] = y[1] /\ x[1] \notin T
        PROVE  x = y
    <2>1. CASE x \in X /\ y \in X
      BY <1>2, <2>1, Zenon DEF AnswersOK
    <2>2. CASE x \in X /\ y \in Y
      BY <1>2, <2>2, Zenon
    <2>3. CASE x \in Y /\ y \in X
      <3>1. y[1] = x[1] /\ y[1] \notin T
        BY <1>2
      <3> QED BY <2>3, <3>1
    <2>4. CASE x \in Y /\ y \in Y
      BY <1>2, <2>4, Zenon
    <2> QED BY <2>1, <2>2, <2>3, <2>4
  <1>3. ASSUME NEW h \in H, NEW x \in X \cup Y, x[1] = h.id /\ h.id \notin T
        PROVE  h.done /\ h.status = x[2]
    <2>1. CASE x \in X
      BY <1>3, <2>1, Zenon DEF AnswersOK
    <2>2. CASE x \in Y
      BY <1>3, <2>2, Zenon
    <2> QED BY <2>1, <2>2, Zenon
  <1> QED BY <1>1, <1>2, <1>3, Zenon DEF AnswersOK

-----------------------------------------------------------------------------
(* Bridge::remove_action *)

LEMMA KeepServers ==
    ASSUME NEW A \in SUBSET action_servers, NEW n, NEW O, NEW P,
           ServersOK(action_servers, handles, n, O),
           \A a \in action_servers \ A : a.owner \in P
    PROVE  ServersOK(action_servers \ A, HandlesWithout(A), n, P)
  <1> DEFINE B == action_servers \ A
  <1>1. /\ B \subseteq ServerRec
        /\ \A a \in B : a.gen \in 1..n /\ a.owner \in P
        /\ \A a, b \in B : a.action = b.action \/ a.gen = b.gen => a = b
    BY Zenon DEF ServersOK
  <1>2. Gens(B) = Gens(action_servers) \ Gens(A)
    <2>1. ASSUME NEW a \in B, a.gen \in Gens(A) PROVE FALSE
      <3>1. PICK b \in A : b.gen = a.gen
        BY <2>1 DEF Gens
      <3>2. a = b
        BY <3>1, Zenon DEF ServersOK
      <3> QED BY <3>1, <3>2
    <2> QED BY <2>1 DEF Gens
  <1>3. HandlesWithout(A) = Gens(B) \X Kinds
    <2>1. handles = Gens(action_servers) \X Kinds
      BY DEF ServersOK
    <2> QED BY <1>2, <2>1 DEF HandlesWithout
  <1> QED BY <1>1, <1>3, Zenon DEF ServersOK

LEMMA RemovedRequests ==
    ASSUME NEW A \in SUBSET action_servers, NEW n, NEW O,
           ServersOK(action_servers, handles, n, O),
           RequestsOK(requests, events, action_servers, server_goals),
           events = << >>
    PROVE  RequestsOK(RequestsWithout(A), events, action_servers \ A,
                      GoalsWithout(A))
  <1> DEFINE B == action_servers \ A
             G == GoalsWithout(A)
  <1>0. \A q : ~InBatch(q, events)
    <2>1. Len(events) = 0
      OBVIOUS
    <2> QED BY <2>1 DEF InBatch
  <1>1. ASSUME NEW q, q \in RequestsWithout(A)
        PROVE  Held(q, B, G)
    <2>1. q \in requests /\ q[1] \notin Gens(A)
      BY <1>1 DEF RequestsWithout
    <2>2. Held(q, action_servers, server_goals)
      BY <1>0, <2>1, Zenon DEF RequestsOK
    <2>3. PICK a \in action_servers, g \in server_goals :
             /\ a.action = g.action
             /\ \E r \in Range(g.requests) : q = Header(a, r)
      BY <2>2, Zenon DEF Held
    <2>4. q[1] = a.gen
      BY <2>3 DEF Header
    <2>5. a \in B
      BY <2>1, <2>4 DEF Gens
    <2>6. g \in G
      <3>1. ASSUME NEW b \in A, b.action = g.action PROVE FALSE
        <4>1. b = a
          BY <2>3, <3>1 DEF ServersOK
        <4> QED BY <2>5, <4>1
      <3> QED BY <3>1 DEF GoalsWithout, GoalsOf
    <2> QED BY <2>3, <2>5, <2>6, Zenon DEF Held
  <1>2. ASSUME NEW q, Held(q, B, G)
        PROVE  q \in RequestsWithout(A)
    <2>1. PICK a \in B, g \in G :
             /\ a.action = g.action
             /\ \E r \in Range(g.requests) : q = Header(a, r)
      BY <1>2, Zenon DEF Held
    <2>2. q[1] = a.gen
      BY <2>1 DEF Header
    <2>3. q[1] \notin Gens(A)
      <3>1. ASSUME NEW b \in A, b.gen = a.gen PROVE FALSE
        <4>1. b = a
          BY <3>1 DEF ServersOK
        <4> QED BY <4>1
      <3> QED BY <2>2, <3>1 DEF Gens
    <2>4. a \in action_servers /\ g \in server_goals
      BY DEF GoalsWithout
    <2>5. q \in requests
      BY <2>1, <2>4, Zenon DEF Held, RequestsOK
    <2> QED BY <2>3, <2>5 DEF RequestsWithout
  <1> QED BY <1>0, <1>1, <1>2, Zenon DEF RequestsOK

LEMMA RemovedAnswers ==
    ASSUME NEW A \in SUBSET action_servers, NEW n \in Nat, NEW m,
           GoalsOK(server_goals, n, m), AnswersOK(answers, torn, server_goals, n)
    PROVE  AnswersOK(answers \cup Aborted(A), torn, GoalsWithout(A), n)
  <1>1. AnswersOK(answers, torn, GoalsWithout(A), n)
    <2>1. \A h \in GoalsWithout(A) : \E g \in server_goals : g.id = h.id /\ (g.done => h = g)
      BY Zenon DEF GoalsWithout
    <2> QED BY <2>1, AnswersSame
  <1>2. ASSUME NEW y \in Aborted(A)
        PROVE  \E g \in GoalsOf(A) : /\ y = <<g.id, ABORTED>>
                                     /\ g \in server_goals /\ ~g.done
    <2>1. PICK g \in GoalsOf(A) : y = <<g.id, ABORTED>> /\ g.requests # << >>
      BY DEF Aborted
    <2>2. g \in server_goals
      BY DEF GoalsOf
    <2>3. ~g.done
      BY <2>1, <2>2, Zenon DEF GoalsOK, GoalOK
    <2> QED BY <2>1, <2>2, <2>3, Zenon
  <1>3. Aborted(A) \subseteq (1..n) \X Terminal
    <2> SUFFICES ASSUME NEW y \in Aborted(A) PROVE y \in (1..n) \X Terminal
      OBVIOUS
    <2>1. PICK g \in GoalsOf(A) : y = <<g.id, ABORTED>> /\ g \in server_goals
      BY <1>2, Zenon
    <2>2. g.id \in 1..n
      BY <2>1, Zenon DEF GoalsOK, GoalOK
    <2> QED BY <2>1, <2>2 DEF ABORTED, Terminal
  <1>4. ASSUME NEW x \in answers, NEW y \in Aborted(A), x[1] = y[1] /\ x[1] \notin torn
        PROVE  FALSE
    <2>1. PICK g \in server_goals : y = <<g.id, ABORTED>> /\ ~g.done
      BY <1>2, Zenon
    <2>2. x[1] = g.id
      BY <1>4, <2>1
    <2> QED BY <1>4, <2>1, <2>2, Zenon DEF AnswersOK
  <1>5. ASSUME NEW x \in Aborted(A), NEW y \in Aborted(A), x[1] = y[1]
        PROVE  x = y
    <2>1. PICK g \in server_goals : x = <<g.id, ABORTED>>
      BY <1>2, Zenon
    <2>2. PICK h \in server_goals : y = <<h.id, ABORTED>>
      BY <1>2, Zenon
    <2> QED BY <1>5, <2>1, <2>2
  <1>6. ASSUME NEW h \in GoalsWithout(A), NEW y \in Aborted(A), y[1] = h.id
        PROVE  FALSE
    <2>1. PICK g \in GoalsOf(A) : y = <<g.id, ABORTED>> /\ g \in server_goals
      BY <1>2, Zenon
    <2>2. g.id = h.id /\ h \in server_goals /\ h \notin GoalsOf(A)
      BY <1>6, <2>1 DEF GoalsWithout
    <2>3. g = h
      BY <2>1, <2>2, Zenon DEF GoalsOK
    <2> QED BY <2>2, <2>3
  <1> QED BY <1>1, <1>3, <1>4, <1>5, <1>6, AnswersAdd, Zenon

LEMMA RemovedGoals ==
    ASSUME NEW A, NEW n, NEW m, GoalsOK(server_goals, n, m),
           Hosted(server_goals, action_servers)
    PROVE  /\ GoalsOK(GoalsWithout(A), n, m)
           /\ Hosted(GoalsWithout(A), action_servers \ A)
           /\ GoalsWithout(A) \subseteq server_goals
  <1>1. GoalsWithout(A) \subseteq server_goals
    BY DEF GoalsWithout
  <1>2. GoalsOK(GoalsWithout(A), n, m)
    BY <1>1, Zenon DEF GoalsOK
  <1>3. Hosted(GoalsWithout(A), action_servers \ A)
    <2> SUFFICES ASSUME NEW g \in GoalsWithout(A)
                 PROVE  \E a \in action_servers \ A :
                           a.action = g.action /\ a.owner = g.owner
      BY DEF Hosted
    <2>1. PICK a \in action_servers : a.action = g.action /\ a.owner = g.owner
      BY <1>1 DEF Hosted
    <2>2. a \notin A
      BY <2>1 DEF GoalsWithout, GoalsOf
    <2> QED BY <2>1, <2>2
  <1> QED BY <1>1, <1>2, <1>3

-----------------------------------------------------------------------------
(* Steps.  Each keeps the invariant, and the goals live on. *)
Kept == ActionInv' /\ Lives(server_goals, server_goals')

LEMMA StatusNat ==
    ASSUME NEW n, NEW m, NEW g, GoalOK(g, n, m)
    PROVE  g.status \in Nat
  BY DEF GoalOK, GoalRec, EXECUTING, CANCELING, Terminal

LEMMA LivesFrom ==
    ASSUME NEW G, NEW H, NEW n, NEW m, GoalsOK(G, n, m),
           \A h \in H : \/ h \in G
                        \/ h.id \notin 1..n
                        \/ \E g \in G : /\ h.id = g.id /\ ~g.done
                                        /\ g.status <= h.status
    PROVE  Lives(G, H)
  <1> SUFFICES ASSUME NEW g \in G, NEW h \in H, g.id = h.id
               PROVE  (g.done => h = g) /\ g.status <= h.status
    BY DEF Lives
  <1>1. GoalOK(g, n, m) /\ g.id \in 1..n
    BY DEF GoalsOK, GoalOK
  <1>2. CASE h \in G
    <2>1. h = g
      BY <1>2, Zenon DEF GoalsOK
    <2>2. g.status <= g.status
      BY <1>1, StatusNat
    <2> QED BY <2>1, <2>2
  <1>3. ASSUME NEW f \in G, h.id = f.id /\ ~f.done /\ f.status <= h.status
        PROVE  (g.done => h = g) /\ g.status <= h.status
    <2>1. g = f
      BY <1>3, Zenon DEF GoalsOK
    <2> QED BY <1>3, <2>1, Zenon
  <1> QED BY <1>1, <1>2, <1>3, Zenon

LEMMA EmptyBatch ==
    ASSUME NEW p, NEW AS, NEW G, NEW m
    PROVE  BatchOK(<< >>, p, AS, G, m)
  <1>1. << >> \in Seq(EventRec) /\ 1..Len(<< >>) = {}
    OBVIOUS
  <1> QED BY <1>1, Zenon DEF BatchOK

LEMMA RemoveStep ==
    ASSUME ActionInv, NEW A \in SUBSET action_servers, RemoveActions(A),
           events = << >>, ClientsTypeOK',
           action_servers' = action_servers \ A, handles' = HandlesWithout(A),
           \A a \in action_servers \ A : a.owner \in outputs',
           UNCHANGED <<events, servers, accepted, arrived, torn>>
    PROVE  Kept
  <1>0. /\ Counters /\ ServersOK(action_servers, handles, servers, outputs)
        /\ GoalsOK(server_goals, accepted, arrived)
        /\ Hosted(server_goals, action_servers)
        /\ RequestsOK(requests, events, action_servers, server_goals)
        /\ AnswersOK(answers, torn, server_goals, accepted)
    BY DEF ActionInv
  <1>1. /\ servers' = servers /\ accepted' = accepted /\ arrived' = arrived
        /\ torn' = torn /\ events' = events
    OBVIOUS
  <1>2. /\ server_goals' = GoalsWithout(A) /\ requests' = RequestsWithout(A)
        /\ answers' = answers \cup Aborted(A)
    BY DEF RemoveActions
  <1>3. accepted \in Nat
    BY <1>0, CountersNat
  <1>4. ServersOK(action_servers', handles', servers', outputs')
    <2>1. ServersOK(action_servers \ A, HandlesWithout(A), servers, outputs')
      BY <1>0, KeepServers
    <2> QED BY <1>1, <2>1, Zenon
  <1>5. /\ GoalsOK(server_goals', accepted', arrived')
        /\ Hosted(server_goals', action_servers')
        /\ server_goals' \subseteq server_goals
    <2>1. /\ GoalsOK(GoalsWithout(A), accepted, arrived)
          /\ Hosted(GoalsWithout(A), action_servers \ A)
          /\ GoalsWithout(A) \subseteq server_goals
      BY <1>0, RemovedGoals
    <2> QED BY <1>1, <1>2, <2>1, Zenon
  <1>6. BatchOK(events', phase', action_servers', server_goals', arrived')
    BY <1>1, EmptyBatch
  <1>7. RequestsOK(requests', events', action_servers', server_goals')
    <2>1. RequestsOK(RequestsWithout(A), events, action_servers \ A,
                     GoalsWithout(A))
      BY <1>0, RemovedRequests
    <2> QED BY <1>1, <1>2, <2>1, Zenon
  <1>8. AnswersOK(answers', torn', server_goals', accepted')
    <2>1. AnswersOK(answers \cup Aborted(A), torn, GoalsWithout(A), accepted)
      BY <1>0, <1>3, RemovedAnswers
    <2> QED BY <1>1, <1>2, <2>1, Zenon
  <1>9. Lives(server_goals, server_goals')
    BY <1>0, <1>5, LivesFrom
  <1>10. Counters'
    BY <1>0, <1>1 DEF Counters
  <1> QED BY <1>4, <1>5, <1>6, <1>7, <1>8, <1>9, <1>10 DEF Kept, ActionInv

(* Commands come between two ticks. *)
LEMMA NoBatch ==
    ASSUME ActionInv, phase \notin {"poll", "events"}
    PROVE  events = << >>
  BY DEF ActionInv, BatchOK

LEMMA SendClients ==
    ASSUME ClientsTypeOK, NEW S, Send(S), UNCHANGED <<outputs, seen, phase>>
    PROVE  ClientsTypeOK'
  BY DEF ClientsTypeOK, Send

LEMMA ReleaseSteps ==
    ASSUME ActionInv,
           \/ Reap \/ Shutdown \/ \E c \in Conn : Disconnect(c)
    PROVE  Kept
  <1>0. ClientsTypeOK /\ ServersOK(action_servers, handles, servers, outputs)
    BY DEF ActionInv
  <1>1. PICK D : Release(D)
    BY Zenon DEF Reap, Shutdown, Disconnect
  <1>2. /\ UNCHANGED <<events, servers, accepted, arrived, torn>>
        /\ phase \notin {"poll", "events"}
    BY DEF Reap, Shutdown, Disconnect, Advance
  <1>3. ClientsTypeOK'
    <2>1. outputs' \subseteq outputs /\ seen' = seen
      BY <1>1 DEF Release, Reap, Shutdown, Disconnect
    <2>2. failed' \subseteq failed /\ closed' = closed /\ phase' \in Phases
      BY <1>0 DEF Reap, Shutdown, Disconnect, Advance, ClientsTypeOK, Phases
    <2> QED BY <1>0, <2>1, <2>2 DEF ClientsTypeOK
  <1>4. PICK A : A = {a \in action_servers : a.owner \in D}
    OBVIOUS
  <1>5. /\ outputs' = outputs \ D
        /\ action_servers' = action_servers \ A
        /\ handles' = HandlesWithout(A)
        /\ RemoveActions(A)
    BY <1>1, <1>4, Zenon DEF Release
  <1>6. \A a \in action_servers \ A : a.owner \in outputs'
    BY <1>0, <1>4, <1>5 DEF ServersOK
  <1>7. events = << >>
    BY <1>2, NoBatch
  <1>8. A \in SUBSET action_servers
    BY <1>4
  <1> QED BY <1>2, <1>3, <1>5, <1>6, <1>7, <1>8, RemoveStep

LEMMA UnadvertiseSteps ==
    ASSUME ActionInv, NEW c, NEW n, NEW t,
           AdvertiseActionFails(c, n, t) \/ UnadvertiseAction(c, n)
    PROVE  Kept
  <1>0. ClientsTypeOK /\ ServersOK(action_servers, handles, servers, outputs)
    BY DEF ActionInv
  <1>1. /\ action_servers' = action_servers \ Advertised(n)
        /\ handles' = HandlesWithout(Advertised(n))
        /\ RemoveActions(Advertised(n))
        /\ UNCHANGED <<events, servers, accepted, arrived, torn>>
        /\ outputs' = outputs
        /\ phase \notin {"poll", "events"}
    BY DEF AdvertiseActionFails, UnadvertiseAction, Commands, clientVars
  <1>2. ClientsTypeOK'
    <2>1. CASE AdvertiseActionFails(c, n, t)
      BY <1>0, <2>1, SendClients DEF AdvertiseActionFails
    <2>2. CASE UnadvertiseAction(c, n)
      BY <1>0, <2>2 DEF UnadvertiseAction, clientVars, ClientsTypeOK
    <2> QED BY <2>1, <2>2
  <1>3. PICK A : A = Advertised(n)
    OBVIOUS
  <1>4. A \in SUBSET action_servers
    BY <1>3 DEF Advertised
  <1>5. \A a \in action_servers \ A : a.owner \in outputs'
    BY <1>0, <1>1 DEF ServersOK
  <1>6. events = << >>
    BY <1>1, NoBatch
  <1> QED BY <1>1, <1>2, <1>3, <1>4, <1>5, <1>6, RemoveStep

LEMMA AddServer ==
    ASSUME NEW AS, NEW H, NEW n \in Nat, NEW O, ServersOK(AS, H, n, O),
           NEW b \in ServerRec, b.gen = n + 1, b.owner \in O,
           \A a \in AS : a.action # b.action
    PROVE  ServersOK(AS \cup {b}, H \cup ({n + 1} \X Kinds), n + 1, O)
  <1>1. \A a \in AS : a.gen \in 1..n /\ a.owner \in O /\ a \in ServerRec
    BY DEF ServersOK
  <1>2. AS \cup {b} \subseteq ServerRec
    BY <1>1
  <1>3. \A a \in AS \cup {b} : a.gen \in 1..n + 1 /\ a.owner \in O
    BY <1>1
  <1>4. \A a \in AS : a.gen # b.gen /\ a.action # b.action
    BY <1>1
  <1>5. \A a, d \in AS \cup {b} : a.action = d.action \/ a.gen = d.gen => a = d
    <2> SUFFICES ASSUME NEW a \in AS \cup {b}, NEW d \in AS \cup {b},
                        a.action = d.action \/ a.gen = d.gen
                 PROVE  a = d
      OBVIOUS
    <2>1. CASE a \in AS /\ d \in AS
      BY <2>1 DEF ServersOK
    <2> QED BY <1>4, <2>1
  <1>6. Gens(AS \cup {b}) = Gens(AS) \cup {n + 1}
    BY DEF Gens
  <1>7. H = Gens(AS) \X Kinds
    BY DEF ServersOK
  <1>8. H \cup ({n + 1} \X Kinds) = Gens(AS \cup {b}) \X Kinds
    BY <1>6, <1>7
  <1> QED BY <1>2, <1>3, <1>5, <1>8 DEF ServersOK

LEMMA HeldMore ==
    ASSUME NEW AS, NEW G, NEW b, Hosted(G, AS),
           \A a \in AS : a.action # b.action, NEW q
    PROVE  Held(q, AS \cup {b}, G) <=> Held(q, AS, G)
  <1>1. \A g \in G : g.action # b.action
    BY DEF Hosted
  <1>2. ASSUME Held(q, AS \cup {b}, G) PROVE Held(q, AS, G)
    <2>1. PICK a \in AS \cup {b}, g \in G :
             /\ a.action = g.action
             /\ \E r \in Range(g.requests) : q = Header(a, r)
      BY <1>2, Zenon DEF Held
    <2>2. a \in AS
      BY <1>1, <2>1
    <2> QED BY <2>1, <2>2, Zenon DEF Held
  <1>3. ASSUME Held(q, AS, G) PROVE Held(q, AS \cup {b}, G)
    <2>1. PICK a \in AS, g \in G :
             /\ a.action = g.action
             /\ \E r \in Range(g.requests) : q = Header(a, r)
      BY <1>3, Zenon DEF Held
    <2>2. a \in AS \cup {b}
      OBVIOUS
    <2> QED BY <2>1, <2>2, Zenon DEF Held
  <1> QED BY <1>2, <1>3

LEMMA AdvertiseStep ==
    ASSUME ActionInv, NEW c, NEW n \in Action, NEW t \in Type,
           AdvertiseAction(c, n, t)
    PROVE  Kept
  <1>0. /\ ClientsTypeOK /\ Counters
        /\ ServersOK(action_servers, handles, servers, outputs)
        /\ GoalsOK(server_goals, accepted, arrived)
        /\ Hosted(server_goals, action_servers)
        /\ RequestsOK(requests, events, action_servers, server_goals)
        /\ AnswersOK(answers, torn, server_goals, accepted)
    BY DEF ActionInv
  <1>1. PICK A, b, B : /\ A = Advertised(n)
                       /\ b = [action |-> n, owner |-> c, typ |-> t,
                               gen |-> servers + 1]
                       /\ B = action_servers \ A
    OBVIOUS
  <1>2. /\ c \in outputs /\ phase = "commands" /\ servers < MaxServers
        /\ servers' = servers + 1
        /\ action_servers' = B \cup {b}
        /\ handles' = HandlesWithout(A) \cup ({servers + 1} \X Kinds)
        /\ RemoveActions(A)
    BY <1>1 DEF AdvertiseAction, Commands
  <1>3. UNCHANGED <<clientVars, events, accepted, arrived, torn>>
    BY DEF AdvertiseAction
  <1>4. /\ outputs' = outputs /\ events' = events /\ accepted' = accepted
        /\ arrived' = arrived /\ torn' = torn /\ phase' = phase
        /\ ClientsTypeOK'
    BY <1>0, <1>3 DEF clientVars, ClientsTypeOK
  <1>5. A \in SUBSET action_servers /\ \A a \in B : a.action # n
    BY <1>1 DEF Advertised
  <1>6. servers \in Nat /\ accepted \in Nat /\ servers + 1 \in 0..MaxServers
    BY <1>0, <1>2, CountersNat, BoundsAssumption DEF Counters
  <1>7. /\ b \in ServerRec /\ b.gen = servers + 1 /\ b.owner = c
        /\ b.action = n
    <2>1. c \in Conn
      BY <1>0, <1>2 DEF ClientsTypeOK
    <2> QED BY <1>1, <1>6, <2>1 DEF ServerRec
  <1>8. /\ server_goals' = GoalsWithout(A) /\ requests' = RequestsWithout(A)
        /\ answers' = answers \cup Aborted(A)
    BY <1>2 DEF RemoveActions
  <1>9. ServersOK(action_servers', handles', servers', outputs')
    <2>1. \A a \in action_servers \ A : a.owner \in outputs
      BY <1>0 DEF ServersOK
    <2>2. ServersOK(action_servers \ A, HandlesWithout(A), servers, outputs)
      BY <1>0, <1>5, <2>1, KeepServers
    <2>3. PICK H : H = HandlesWithout(A)
      OBVIOUS
    <2>4. ServersOK(B, H, servers, outputs)
      BY <1>1, <2>2, <2>3, Zenon
    <2>5. \A a \in B : a.action # b.action
      BY <1>5, <1>7, Zenon
    <2>6. ServersOK(B \cup {b}, H \cup ({servers + 1} \X Kinds), servers + 1,
                    outputs)
      BY <1>2, <1>6, <1>7, <2>4, <2>5, AddServer
    <2> QED BY <1>2, <1>4, <2>3, <2>6, Zenon
  <1>10. /\ GoalsOK(server_goals', accepted', arrived')
         /\ Hosted(server_goals', B)
         /\ server_goals' \subseteq server_goals
    <2>1. /\ GoalsOK(GoalsWithout(A), accepted, arrived)
          /\ Hosted(GoalsWithout(A), action_servers \ A)
          /\ GoalsWithout(A) \subseteq server_goals
      BY <1>0, RemovedGoals
    <2> QED BY <1>1, <1>4, <1>8, <2>1, Zenon
  <1>11. Hosted(server_goals', action_servers')
    BY <1>2, <1>10 DEF Hosted
  <1>12. events = << >>
    BY <1>2, NoBatch
  <1>13. BatchOK(events', phase', action_servers', server_goals', arrived')
    BY <1>4, <1>12, EmptyBatch
  <1>14. RequestsOK(requests', events', action_servers', server_goals')
    <2>1. RequestsOK(RequestsWithout(A), events, action_servers \ A,
                     GoalsWithout(A))
      BY <1>0, <1>5, <1>12, RemovedRequests
    <2>2. PICK G : G = GoalsWithout(A)
      OBVIOUS
    <2>3. Hosted(G, B) /\ RequestsOK(RequestsWithout(A), events, B, G)
      BY <1>1, <1>8, <1>10, <2>1, <2>2, Zenon
    <2>4. \A a \in B : a.action # b.action
      BY <1>5, <1>7, Zenon
    <2>5. \A q : Held(q, B \cup {b}, G) <=> Held(q, B, G)
      BY <2>3, <2>4, HeldMore
    <2>6. RequestsOK(RequestsWithout(A), events, B \cup {b}, G)
      BY <2>3, <2>5, Zenon DEF RequestsOK
    <2> QED BY <1>2, <1>4, <1>8, <2>2, <2>6, Zenon
  <1>15. AnswersOK(answers', torn', server_goals', accepted')
    <2>1. AnswersOK(answers \cup Aborted(A), torn, GoalsWithout(A), accepted)
      BY <1>0, <1>5, <1>6, RemovedAnswers
    <2> QED BY <1>4, <1>8, <2>1, Zenon
  <1>16. Lives(server_goals, server_goals')
    BY <1>0, <1>10, LivesFrom
  <1>17. Counters'
    BY <1>0, <1>2, <1>4, <1>6 DEF Counters
  <1> QED BY <1>4, <1>9, <1>10, <1>11, <1>13, <1>14, <1>15, <1>16, <1>17
          DEF Kept, ActionInv

(* Nothing happens to servers, goals and requests. *)
LEMMA StayStep ==
    ASSUME ActionInv, UNCHANGED actionVars, ClientsTypeOK',
           outputs \subseteq outputs',
           phase' \notin {"poll", "events"} => events = << >>
    PROVE  Kept
  <1>0. /\ Counters /\ ServersOK(action_servers, handles, servers, outputs)
        /\ GoalsOK(server_goals, accepted, arrived)
        /\ Hosted(server_goals, action_servers)
        /\ BatchOK(events, phase, action_servers, server_goals, arrived)
        /\ RequestsOK(requests, events, action_servers, server_goals)
        /\ AnswersOK(answers, torn, server_goals, accepted)
    BY DEF ActionInv
  <1>1. /\ action_servers' = action_servers /\ server_goals' = server_goals
        /\ handles' = handles /\ requests' = requests /\ events' = events
        /\ servers' = servers /\ accepted' = accepted /\ arrived' = arrived
        /\ answers' = answers /\ torn' = torn
    BY DEF actionVars
  <1>2. ServersOK(action_servers, handles, servers, outputs')
    <2>1. \A a \in action_servers : a.owner \in outputs'
      BY <1>0 DEF ServersOK
    <2> QED BY <1>0, <2>1, Zenon DEF ServersOK
  <1>3. BatchOK(events, phase', action_servers, server_goals, arrived)
    BY <1>0, Zenon DEF BatchOK
  <1>4. Lives(server_goals, server_goals)
    BY <1>0, LivesFrom
  <1>5. Counters'
    BY <1>0, <1>1 DEF Counters
  <1> QED BY <1>0, <1>1, <1>2, <1>3, <1>4, <1>5, Zenon DEF Kept, ActionInv

LEMMA ClientSteps ==
    ASSUME ActionInv, NEW c \in Conn,
           \/ ClientConnect(c) /\ UNCHANGED actionVars
           \/ OutputCloses(c) /\ UNCHANGED actionVars
           \/ CommandRefused(c)
    PROVE  Kept
  <1>0. ClientsTypeOK
    BY DEF ActionInv
  <1>1. /\ UNCHANGED actionVars /\ phase' = phase /\ outputs \subseteq outputs'
    BY DEF ClientConnect, OutputCloses, CommandRefused
  <1>2. ClientsTypeOK'
    <2>1. CASE ClientConnect(c)
      BY <1>0, <2>1 DEF ClientConnect, ClientsTypeOK
    <2>2. CASE OutputCloses(c)
      BY <1>0, <2>2 DEF OutputCloses, ClientsTypeOK
    <2>3. CASE CommandRefused(c)
      BY <1>0, <2>3, SendClients DEF CommandRefused
    <2> QED BY <2>1, <2>2, <2>3
  <1>3. phase' \notin {"poll", "events"} => events = << >>
    BY <1>1, NoBatch
  <1> QED BY <1>1, <1>2, <1>3, StayStep

LEMMA TickSteps ==
    ASSUME ActionInv, StartTick \/ EndPoll \/ EndEvents \/ EndTimers
    PROVE  Kept
  <1>0. ClientsTypeOK
    BY DEF ActionInv
  <1>1. /\ UNCHANGED actionVars /\ outputs' = outputs
        /\ failed' = failed /\ closed' = closed /\ seen' = seen
    BY DEF StartTick, EndPoll, EndEvents, EndTimers
  <1>2. phase' \in Phases
    BY DEF StartTick, EndPoll, EndEvents, EndTimers, Advance, Phases
  <1>3. ClientsTypeOK'
    BY <1>0, <1>1, <1>2 DEF ClientsTypeOK
  <1>4. phase' \notin {"poll", "events"} => events = << >>
    BY NoBatch DEF StartTick, EndPoll, EndEvents, EndTimers, Advance
  <1> QED BY <1>1, <1>3, <1>4, StayStep

LEMMA FailStep ==
    ASSUME ActionInv, WorkerFails
    PROVE  Kept
  <1>0. /\ ClientsTypeOK /\ Counters
        /\ AnswersOK(answers, torn, server_goals, accepted)
    BY DEF ActionInv
  <1>1. /\ action_servers' = {} /\ server_goals' = {} /\ handles' = {}
        /\ requests' = {} /\ events' = << >> /\ outputs' = {}
        /\ servers' = servers /\ accepted' = accepted /\ arrived' = arrived
        /\ answers' = answers /\ torn' = torn
    BY DEF WorkerFails
  <1>2. ClientsTypeOK'
    BY <1>0 DEF WorkerFails, ClientsTypeOK, Phases
  <1>3. ServersOK({}, {}, servers, {})
    BY DEF ServersOK, Gens
  <1>4. GoalsOK({}, accepted, arrived) /\ Hosted({}, {})
    BY DEF GoalsOK, Hosted
  <1>5. BatchOK(<< >>, phase', {}, {}, arrived)
    BY EmptyBatch
  <1>6. RequestsOK({}, << >>, {}, {})
    BY DEF RequestsOK, InBatch, Held
  <1>7. AnswersOK(answers, torn, {}, accepted)
    BY <1>0 DEF AnswersOK
  <1>8. Lives(server_goals, {})
    BY DEF Lives
  <1>9. Counters'
    BY <1>0, <1>1 DEF Counters
  <1> QED BY <1>1, <1>2, <1>3, <1>4, <1>5, <1>6, <1>7, <1>8, <1>9, Zenon
          DEF Kept, ActionInv

-----------------------------------------------------------------------------
(* One goal g becomes h. *)
LEMMA ReplaceOne ==
    ASSUME NEW G, NEW n, NEW m, GoalsOK(G, n, m), NEW g \in G, NEW h,
           From(h, g), GoalOK(h, n, m), NEW H, H = (G \ {g}) \cup {h}
    PROVE  /\ GoalsOK(H, n, m)
           /\ \A x \in H : \E y \in G : From(x, y)
           /\ \A x \in H : x.id = h.id => x = h
  <1>1. \A x \in H : \E y \in G : From(x, y)
    BY FromSame
  <1>2. \A x \in H : GoalOK(x, n, m)
    BY DEF GoalsOK
  <1>3. \A x \in H : x.id = h.id => x = h
    <2> SUFFICES ASSUME NEW x \in H, x.id = h.id, x # h PROVE FALSE
      OBVIOUS
    <2>1. x \in G /\ x # g
      OBVIOUS
    <2>2. x.id = g.id
      BY DEF From
    <2> QED BY <2>1, <2>2, Zenon DEF GoalsOK
  <1>4. \A x, y \in H : x.id = y.id => x = y
    <2> SUFFICES ASSUME NEW x \in H, NEW y \in H, x.id = y.id PROVE x = y
      OBVIOUS
    <2>1. CASE x = h \/ y = h
      BY <1>3, <2>1
    <2>2. CASE x \in G /\ y \in G
      BY <2>2, Zenon DEF GoalsOK
    <2> QED BY <2>1, <2>2
  <1>5. GoalsOK(H, n, m)
    BY <1>1, <1>2, <1>4, GoalsFrom
  <1> QED BY <1>1, <1>3, <1>5

(* The requests R of goal g are answered by server a. *)
LEMMA DropRequests ==
    ASSUME NEW Q, NEW E, NEW AS, NEW G, RequestsOK(Q, E, AS, G),
           NEW n, NEW m, GoalsOK(G, n, m), NEW p, BatchOK(E, p, AS, G, m),
           NEW s, NEW W, NEW O, ServersOK(AS, W, s, O),
           NEW g \in G, NEW a \in AS, a.action = g.action, NEW h,
           h.action = g.action, NEW R, R \subseteq Range(g.requests),
           Range(h.requests) = Range(g.requests) \ R,
           NEW H, H = (G \ {g}) \cup {h},
           NEW P, P = Q \ {Header(a, r) : r \in R}
    PROVE  RequestsOK(P, E, AS, H)
  <1>1. ASSUME NEW q, q \in P PROVE InBatch(q, E) \/ Held(q, AS, H)
    <2>1. q \in Q /\ \A r \in R : q # Header(a, r)
      BY <1>1
    <2>2. InBatch(q, E) \/ Held(q, AS, G)
      BY <2>1, Zenon DEF RequestsOK
    <2>3. ASSUME Held(q, AS, G) PROVE Held(q, AS, H)
      <3>1. PICK b \in AS, f \in G :
               /\ b.action = f.action
               /\ \E r \in Range(f.requests) : q = Header(b, r)
        BY <2>3, Zenon DEF Held
      <3>2. PICK r \in Range(f.requests) : q = Header(b, r)
        BY <3>1
      <3>3. CASE f = g
        <4>1. b = a
          BY <3>1, <3>3 DEF ServersOK
        <4>2. r \notin R /\ r \in Range(h.requests)
          BY <2>1, <3>2, <3>3, <4>1
        <4>3. h \in H /\ b.action = h.action
          BY <3>1, <3>3
        <4> QED BY <3>2, <4>2, <4>3, Zenon DEF Held
      <3>4. CASE f # g
        <4>1. f \in H
          BY <3>4
        <4> QED BY <3>1, <4>1, Zenon DEF Held
      <3> QED BY <3>3, <3>4
    <2> QED BY <2>2, <2>3
  <1>2. ASSUME NEW q, InBatch(q, E) PROVE q \in P
    <2>1. q \in Q
      BY <1>2, Zenon DEF RequestsOK
    <2>2. PICK i \in 1..Len(E) : q = <<E[i].gen, E[i].kind, E[i].request>>
      BY <1>2 DEF InBatch
    <2>3. E[i].request \notin Range(g.requests)
      BY DEF BatchOK
    <2>4. \A r \in R : q # Header(a, r)
      BY <2>2, <2>3 DEF Header
    <2> QED BY <2>1, <2>4
  <1>3. ASSUME NEW q, Held(q, AS, H) PROVE q \in P
    <2>1. PICK b \in AS, f \in H :
             /\ b.action = f.action
             /\ \E r \in Range(f.requests) : q = Header(b, r)
      BY <1>3, Zenon DEF Held
    <2>2. PICK r \in Range(f.requests) : q = Header(b, r)
      BY <2>1
    <2>3. CASE f = h
      <3>1. r \in Range(g.requests) /\ r \notin R
        BY <2>2, <2>3
      <3>2. Held(q, AS, G)
        BY <2>1, <2>2, <2>3, <3>1 DEF Held
      <3>3. \A x \in R : q # Header(a, x)
        BY <2>2, <3>1 DEF Header
      <3> QED BY <3>2, <3>3 DEF RequestsOK
    <2>4. CASE f # h
      <3>1. f \in G /\ f # g
        BY <2>4
      <3>2. Range(f.requests) \cap Range(g.requests) = {}
        BY <3>1, Zenon DEF GoalsOK
      <3>3. \A x \in R : q # Header(a, x)
        BY <2>2, <3>2 DEF Header
      <3>4. Held(q, AS, G)
        BY <2>1, <3>1, Zenon DEF Held
      <3> QED BY <3>3, <3>4 DEF RequestsOK
    <2> QED BY <2>3, <2>4
  <1> QED BY <1>1, <1>2, <1>3, Zenon DEF RequestsOK

LEMMA TornMore ==
    ASSUME NEW X, NEW T, NEW G, NEW n, AnswersOK(X, T, G, n), NEW i \in 1..n
    PROVE  AnswersOK(X, T \cup {i}, G, n)
  <1>1. T \cup {i} \subseteq 1..n /\ \A x : x \notin T \cup {i} => x \notin T
    BY DEF AnswersOK
  <1> QED BY <1>1, Zenon DEF AnswersOK

(* A command about goals leaves the goals H, the requests Q, the answers X *)
(* and the torn goals T.                                                   *)
LEMMA GoalStep ==
    ASSUME ActionInv, ClientsTypeOK', outputs' = outputs, phase' = phase,
           UNCHANGED <<action_servers, handles, servers, accepted, arrived>>,
           BatchOK(events', phase, action_servers, server_goals', arrived),
           GoalsOK(server_goals', accepted, arrived),
           Hosted(server_goals', action_servers),
           RequestsOK(requests', events', action_servers, server_goals'),
           AnswersOK(answers', torn', server_goals', accepted),
           Lives(server_goals, server_goals')
    PROVE  Kept
  <1>1. /\ action_servers' = action_servers /\ handles' = handles
        /\ servers' = servers /\ accepted' = accepted /\ arrived' = arrived
    OBVIOUS
  <1>2. Counters /\ ServersOK(action_servers, handles, servers, outputs)
    BY DEF ActionInv
  <1>3. Counters'
    BY <1>1, <1>2 DEF Counters
  <1> QED BY <1>1, <1>2, <1>3, Zenon DEF Kept, ActionInv

LEMMA EmptyRange == Range(<< >>) = {} /\ IsInjective(<< >>)
  BY DEF Range, IsInjective

LEMMA ResultStep ==
    ASSUME ActionInv, NEW c, NEW g, NEW s \in Terminal, ActionResult(c, g, s)
    PROVE  Kept
  <1>0. /\ ClientsTypeOK /\ Counters
        /\ ServersOK(action_servers, handles, servers, outputs)
        /\ GoalsOK(server_goals, accepted, arrived)
        /\ Hosted(server_goals, action_servers)
        /\ BatchOK(events, phase, action_servers, server_goals, arrived)
        /\ RequestsOK(requests, events, action_servers, server_goals)
        /\ AnswersOK(answers, torn, server_goals, accepted)
    BY DEF ActionInv
  <1>1. accepted \in Nat
    BY <1>0, CountersNat
  <1>2. PICK h, Y : /\ h = [g EXCEPT !.status = s, !.done = TRUE,
                                     !.requests = << >>]
                    /\ Y = IF g.requests = << >> THEN {} ELSE {<<g.id, s>>}
    OBVIOUS
  <1>3. /\ g \in server_goals /\ ~g.done
        /\ answers' = answers \cup Y
        /\ server_goals' = (server_goals \ {g}) \cup {h}
        /\ torn' = torn /\ events' = events /\ outputs' = outputs
        /\ phase' = phase
    BY <1>2, Zenon DEF ActionResult
  <1>4. PICK a \in Advertised(g.action) :
           requests' = requests \ {Header(a, r) : r \in Range(g.requests)}
    BY DEF ActionResult
  <1>5. a \in action_servers /\ a.action = g.action
    BY DEF Advertised
  <1>6. GoalOK(g, accepted, arrived)
    BY <1>0, <1>3 DEF GoalsOK
  <1>7. /\ h.id = g.id /\ h.action = g.action /\ h.uuid = g.uuid
        /\ h.owner = g.owner /\ h.requests = << >> /\ h.status = s
        /\ h \in GoalRec
    <2>1. g \in GoalRec /\ h = [g EXCEPT !.status = s, !.done = TRUE,
                                         !.requests = << >>]
      BY <1>2, <1>6, Zenon DEF GoalOK
    <2>2. << >> \in Seq(Nat) /\ s \in {EXECUTING, CANCELING} \cup Terminal
      OBVIOUS
    <2> QED BY <2>1, <2>2 DEF GoalRec
  <1>8. h.done
    BY <1>2, <1>6 DEF GoalOK, GoalRec
  <1>9. GoalOK(h, accepted, arrived) /\ From(h, g)
    <2>1. << >> \in Seq(1..arrived) /\ g.id \in 1..accepted
      BY <1>6 DEF GoalOK
    <2>2. GoalOK(h, accepted, arrived)
      BY <1>7, <1>8, <2>1, EmptyRange, Zenon DEF GoalOK
    <2>3. From(h, g)
      BY <1>7, EmptyRange DEF From
    <2> QED BY <2>2, <2>3
  <1>10. /\ GoalsOK(server_goals', accepted, arrived)
         /\ \A x \in server_goals' : \E y \in server_goals : From(x, y)
         /\ \A x \in server_goals' : x.id = h.id => x = h
    BY <1>0, <1>3, <1>9, ReplaceOne
  <1>11. Hosted(server_goals', action_servers)
    BY <1>0, <1>10, HostedFrom
  <1>12. BatchOK(events', phase, action_servers, server_goals', arrived)
    <2>1. BatchOK(events, phase, action_servers, server_goals', arrived)
      BY <1>0, <1>10, BatchFrom
    <2> QED BY <1>3, <2>1
  <1>13. RequestsOK(requests', events', action_servers, server_goals')
    <2>1. PICK R : R = Range(g.requests)
      OBVIOUS
    <2>2. Range(h.requests) = R \ R
      BY <1>7, EmptyRange
    <2>3. requests' = requests \ {Header(a, r) : r \in R}
      BY <1>4, <2>1
    <2>4. RequestsOK(requests', events, action_servers, server_goals')
      BY <1>0, <1>3, <1>5, <1>7, <2>1, <2>2, <2>3, DropRequests
    <2> QED BY <1>3, <2>4
  <1>14. AnswersOK(answers', torn', server_goals', accepted)
    <2>1. AnswersOK(answers, torn, server_goals', accepted)
      <3>1. \A x \in server_goals' : \E y \in server_goals :
               y.id = x.id /\ (y.done => x = y)
        BY <1>3, <1>7, Zenon
      <3> QED BY <1>0, <1>1, <3>1, AnswersSame
    <2>2. \A y \in Y : y = <<g.id, s>>
      BY <1>2
    <2>3. Y \subseteq (1..accepted) \X Terminal
      BY <1>6, <2>2 DEF GoalOK
    <2>4. ASSUME NEW x \in answers, NEW y \in Y, x[1] = y[1] /\ x[1] \notin torn
          PROVE  FALSE
      <3>1. x[1] = g.id
        BY <2>2, <2>4
      <3> QED BY <1>0, <1>3, <2>4, <3>1, Zenon DEF AnswersOK
    <2>5. ASSUME NEW x \in server_goals', NEW y \in Y, y[1] = x.id
          PROVE  x.done /\ x.status = y[2]
      <3>1. x.id = h.id /\ y[2] = s
        BY <1>7, <2>2, <2>5
      <3>2. x = h
        BY <1>10, <3>1, Zenon
      <3> QED BY <1>7, <1>8, <3>1, <3>2, Zenon
    <2>6. AnswersOK(answers \cup Y, torn, server_goals', accepted)
      BY <2>1, <2>2, <2>3, <2>4, <2>5, AnswersAdd, Zenon
    <2> QED BY <1>3, <2>6, Zenon
  <1>15. Lives(server_goals, server_goals')
    <2>1. g.status <= s
      BY <1>3, <1>6 DEF GoalOK, GoalRec, Terminal, EXECUTING, CANCELING
    <2> QED BY <1>0, <1>3, <1>7, <2>1, LivesFrom
  <1>16. ClientsTypeOK'
    <2>1. UNCHANGED <<outputs, seen, phase>>
      BY DEF ActionResult
    <2>2. CASE UNCHANGED <<failed, closed>>
      BY <1>0, <2>1, <2>2 DEF ClientsTypeOK
    <2>3. CASE Send({c})
      BY <1>0, <2>1, <2>3, SendClients
    <2> QED BY <2>2, <2>3, Zenon DEF ActionResult
  <1>17. UNCHANGED <<action_servers, handles, servers, accepted, arrived>>
    BY DEF ActionResult
  <1> QED BY <1>3, <1>10, <1>11, <1>12, <1>13, <1>14, <1>15, <1>16, <1>17, GoalStep

(* The first k of the requests p are left. *)
Cut(S, p, k, u, R) ==
    /\ p \in Seq(S) /\ IsInjective(p) /\ k \in 1..Len(p) - 1
    /\ u = SubSeq(p, 1, k)
    /\ R = {p[i] : i \in k + 1..Len(p)}

LEMMA FirstOf ==
    ASSUME NEW S, NEW p, NEW k, NEW u, NEW R, Cut(S, p, k, u, R)
    PROVE  /\ u \in Seq(S) /\ IsInjective(u) /\ R \subseteq Range(p)
           /\ Range(u) = Range(p) \ R
  <1> p \in Seq(S) /\ IsInjective(p) /\ u = SubSeq(p, 1, k)
    BY DEF Cut
  <1>1. PICK l \in Nat : l = Len(p)
    OBVIOUS
  <1>2. k \in Nat /\ 1 <= k /\ k < l
    BY <1>1 DEF Cut
  <1>3. \A i \in 1..l : p[i] \in S
    BY <1>1
  <1>4. DOMAIN p = 1..l
    BY <1>1
  <1>5. u \in Seq(S) /\ Len(u) = k /\ \A i \in 1..k : u[i] = p[i]
    BY <1>1, <1>2
  <1>6. DOMAIN u = 1..k
    BY <1>5
  <1>7. \A i, j \in 1..l : p[i] = p[j] => i = j
    BY <1>4 DEF IsInjective
  <1>8. IsInjective(u)
    BY <1>2, <1>5, <1>6, <1>7 DEF IsInjective
  <1>0. R = {p[i] : i \in k + 1..l}
    BY <1>1 DEF Cut
  <1>9. R \subseteq Range(p)
    BY <1>0, <1>2, <1>4 DEF Range
  <1>10. Range(p) = {p[i] : i \in 1..l} /\ Range(u) = {p[i] : i \in 1..k}
    BY <1>4, <1>5, <1>6 DEF Range
  <1>11. ASSUME NEW i \in 1..k PROVE p[i] \in Range(p) \ R
    BY <1>0, <1>2, <1>7, <1>10
  <1>12. ASSUME NEW x \in Range(p) \ R PROVE x \in Range(u)
    BY <1>0, <1>2, <1>10
  <1>13. ASSUME NEW x \in Range(u) PROVE x \in Range(p) \ R
    <2>1. PICK i \in 1..k : x = p[i]
      BY <1>10
    <2> QED BY <1>11, <2>1
  <1>14. Range(u) = Range(p) \ R
    BY <1>12, <1>13
  <1> QED BY <1>5, <1>8, <1>9, <1>14

LEMMA TornStep ==
    ASSUME ActionInv, NEW c, NEW g, NEW s \in Terminal, NEW k,
           ActionResultTorn(c, g, s, k)
    PROVE  Kept
  <1>0. /\ ClientsTypeOK /\ Counters
        /\ ServersOK(action_servers, handles, servers, outputs)
        /\ GoalsOK(server_goals, accepted, arrived)
        /\ Hosted(server_goals, action_servers)
        /\ BatchOK(events, phase, action_servers, server_goals, arrived)
        /\ RequestsOK(requests, events, action_servers, server_goals)
        /\ AnswersOK(answers, torn, server_goals, accepted)
    BY DEF ActionInv
  <1>1. accepted \in Nat
    BY <1>0, CountersNat
  <1>2. PICK u, h, R : /\ u = SubSeq(g.requests, 1, k)
                       /\ h = [g EXCEPT !.requests = u]
                       /\ R = {g.requests[i] : i \in k + 1..Len(g.requests)}
    OBVIOUS
  <1>3. /\ g \in server_goals /\ ~g.done /\ k \in 1..Len(g.requests) - 1
        /\ answers' = answers \cup {<<g.id, s>>}
        /\ torn' = torn \cup {g.id}
        /\ server_goals' = (server_goals \ {g}) \cup {h}
        /\ events' = events /\ outputs' = outputs /\ phase' = phase
    BY <1>2, Zenon DEF ActionResultTorn, Unanswered
  <1>4. PICK a \in Advertised(g.action) :
           requests' = requests \ {Header(a, r) : r \in R}
    BY <1>2, Zenon DEF ActionResultTorn
  <1>5. a \in action_servers /\ a.action = g.action
    BY DEF Advertised
  <1>6. GoalOK(g, accepted, arrived)
    BY <1>0, <1>3 DEF GoalsOK
  <1>7. /\ u \in Seq(1..arrived) /\ IsInjective(u)
        /\ R \subseteq Range(g.requests)
        /\ Range(u) = Range(g.requests) \ R
    <2>1. g.requests \in Seq(1..arrived) /\ IsInjective(g.requests)
      BY <1>6, Zenon DEF GoalOK
    <2>2. PICK p, S : p = g.requests /\ S = 1..arrived
      OBVIOUS
    <2>3. Cut(S, p, k, u, R)
      BY <1>2, <1>3, <2>1, <2>2, Zenon DEF Cut
    <2>4. /\ u \in Seq(S) /\ IsInjective(u) /\ R \subseteq Range(p)
          /\ Range(u) = Range(p) \ R
      BY <2>3, FirstOf, Zenon
    <2> QED BY <2>2, <2>4, Zenon
  <1>8. /\ h.id = g.id /\ h.action = g.action /\ h.uuid = g.uuid
        /\ h.owner = g.owner /\ h.requests = u /\ h.status = g.status
        /\ h \in GoalRec
    <2>1. g \in GoalRec /\ h = [g EXCEPT !.requests = u]
      BY <1>2, <1>6, Zenon DEF GoalOK
    <2>2. u \in Seq(Nat)
      <3>1. PICK S : S = 1..arrived
        OBVIOUS
      <3>2. u \in Seq(S) /\ S \subseteq Nat
        BY <1>7, <3>1
      <3> QED BY <3>2, SeqMonotonic
    <2> QED BY <2>1, <2>2 DEF GoalRec
  <1>9. ~h.done
    BY <1>2, <1>3, <1>6 DEF GoalOK, GoalRec
  <1>10. GoalOK(h, accepted, arrived) /\ From(h, g)
    <2>1. g.id \in 1..accepted /\ g.status \notin Terminal
      BY <1>3, <1>6, Zenon DEF GoalOK
    <2>2. GoalOK(h, accepted, arrived)
      BY <1>7, <1>8, <1>9, <2>1, Zenon DEF GoalOK
    <2>3. From(h, g)
      BY <1>7, <1>8 DEF From
    <2> QED BY <2>2, <2>3
  <1>11. /\ GoalsOK(server_goals', accepted, arrived)
         /\ \A x \in server_goals' : \E y \in server_goals : From(x, y)
         /\ \A x \in server_goals' : x.id = h.id => x = h
    BY <1>0, <1>3, <1>10, ReplaceOne
  <1>12. Hosted(server_goals', action_servers)
    BY <1>0, <1>11, HostedFrom
  <1>13. BatchOK(events', phase, action_servers, server_goals', arrived)
    <2>1. BatchOK(events, phase, action_servers, server_goals', arrived)
      BY <1>0, <1>11, BatchFrom
    <2> QED BY <1>3, <2>1
  <1>14. RequestsOK(requests', events', action_servers, server_goals')
    <2>1. Range(h.requests) = Range(g.requests) \ R
      BY <1>7, <1>8
    <2>2. RequestsOK(requests', events, action_servers, server_goals')
      BY <1>0, <1>3, <1>4, <1>5, <1>7, <1>8, <2>1, DropRequests
    <2> QED BY <1>3, <2>2
  <1>15. AnswersOK(answers', torn', server_goals', accepted)
    <2>0. g.id \in 1..accepted
      BY <1>6 DEF GoalOK
    <2>1. AnswersOK(answers, torn, server_goals', accepted)
      <3>1. \A x \in server_goals' : \E y \in server_goals :
               y.id = x.id /\ (y.done => x = y)
        BY <1>3, <1>8, Zenon
      <3> QED BY <1>0, <1>1, <3>1, AnswersSame
    <2>2. PICK Y, T : Y = {<<g.id, s>>} /\ T = torn \cup {g.id}
      OBVIOUS
    <2>3. AnswersOK(answers, T, server_goals', accepted)
      BY <2>0, <2>1, <2>2, TornMore
    <2>4. Y \subseteq (1..accepted) \X Terminal
      BY <2>0, <2>2
    <2>5. \A y \in Y : y[1] \in T
      BY <2>2
    <2>6. AnswersOK(answers \cup Y, T, server_goals', accepted)
      <3>1. \A x \in answers, y \in Y : x[1] = y[1] /\ x[1] \notin T => x = y
        BY <2>5
      <3>2. \A x, y \in Y : x[1] = y[1] /\ x[1] \notin T => x = y
        BY <2>5
      <3>3. \A x \in server_goals', y \in Y :
               y[1] = x.id /\ x.id \notin T => x.done /\ x.status = y[2]
        BY <2>5
      <3> QED BY <2>3, <2>4, <3>1, <3>2, <3>3, AnswersAdd
    <2> QED BY <1>3, <2>2, <2>6, Zenon
  <1>16. Lives(server_goals, server_goals')
    <2>1. g.status <= h.status
      BY <1>6, <1>8, StatusNat
    <2> QED BY <1>0, <1>3, <1>8, <2>1, LivesFrom
  <1>17. ClientsTypeOK'
    BY <1>0, SendClients DEF ActionResultTorn
  <1>18. UNCHANGED <<action_servers, handles, servers, accepted, arrived>>
    BY DEF ActionResultTorn
  <1> QED BY <1>3, <1>11, <1>12, <1>13, <1>14, <1>15, <1>16, <1>17, <1>18, GoalStep

(* Goals are forgotten, without any request. *)
LEMMA ForgetStep ==
    ASSUME ActionInv, NEW g, ForgetGoal(g)
    PROVE  Kept
  <1>0. /\ ClientsTypeOK /\ Counters
        /\ GoalsOK(server_goals, accepted, arrived)
        /\ Hosted(server_goals, action_servers)
        /\ BatchOK(events, phase, action_servers, server_goals, arrived)
        /\ RequestsOK(requests, events, action_servers, server_goals)
        /\ AnswersOK(answers, torn, server_goals, accepted)
    BY DEF ActionInv
  <1>1. /\ g \in server_goals /\ g.done
        /\ server_goals' = server_goals \ {g}
        /\ UNCHANGED <<clientVars, action_servers, handles, requests, events,
                       servers, accepted, arrived, answers, torn>>
    BY DEF ForgetGoal
  <1>2. server_goals' \subseteq server_goals
    BY <1>1
  <1>3. GoalsOK(server_goals', accepted, arrived)
    BY <1>0, <1>2, Zenon DEF GoalsOK
  <1>4. Hosted(server_goals', action_servers)
    BY <1>0, <1>2, Zenon DEF Hosted
  <1>5. BatchOK(events, phase, action_servers, server_goals', arrived)
    BY <1>0, <1>2, Zenon DEF BatchOK
  <1>6. RequestsOK(requests, events, action_servers, server_goals')
    <2>1. Range(g.requests) = {}
      <3>1. g.requests = << >>
        BY <1>0, <1>1, Zenon DEF GoalsOK, GoalOK
      <3> QED BY <3>1, EmptyRange
    <2>2. ASSUME NEW q
          PROVE  Held(q, action_servers, server_goals)
                   <=> Held(q, action_servers, server_goals')
      <3>1. \A f \in server_goals : Range(f.requests) # {} => f \in server_goals'
        BY <1>1, <2>1
      <3>2. ASSUME Held(q, action_servers, server_goals)
            PROVE  Held(q, action_servers, server_goals')
        <4>1. PICK b \in action_servers, f \in server_goals :
                 /\ b.action = f.action
                 /\ \E r \in Range(f.requests) : q = Header(b, r)
          BY <3>2, Zenon DEF Held
        <4>2. f \in server_goals'
          BY <3>1, <4>1, Zenon
        <4> QED BY <4>1, <4>2, Zenon DEF Held
      <3>3. ASSUME Held(q, action_servers, server_goals')
            PROVE  Held(q, action_servers, server_goals)
        BY <1>2, <3>3, Zenon DEF Held
      <3> QED BY <3>2, <3>3
    <2> QED BY <1>0, <2>2, Zenon DEF RequestsOK
  <1>7. AnswersOK(answers, torn, server_goals', accepted)
    BY <1>0, <1>2, Zenon DEF AnswersOK
  <1>8. Lives(server_goals, server_goals')
    BY <1>0, <1>2, LivesFrom
  <1>9. ClientsTypeOK' /\ outputs' = outputs /\ phase' = phase
    BY <1>0, <1>1 DEF clientVars, ClientsTypeOK
  <1>10. events' = events /\ requests' = requests /\ answers' = answers /\ torn' = torn
    BY <1>1
  <1>11. UNCHANGED <<action_servers, handles, servers, accepted, arrived>>
    BY <1>1
  <1> QED BY <1>3, <1>4, <1>5, <1>6, <1>7, <1>8, <1>9, <1>10, <1>11, GoalStep

-----------------------------------------------------------------------------
(* The batch of requests. *)
LEMMA RangeIn ==
    ASSUME NEW S, NEW p \in Seq(S) PROVE Range(p) \subseteq S
  BY DEF Range

Of(v) == <<v.gen, v.kind, v.request>>

LEMMA TakeStep ==
    ASSUME ActionInv, NEW h, NEW u \in Uuid \cup {Zero}, NEW s \in 0..accepted,
           TakeRequest(h, u, s)
    PROVE  Kept
  <1>0. /\ ClientsTypeOK /\ Counters
        /\ ServersOK(action_servers, handles, servers, outputs)
        /\ GoalsOK(server_goals, accepted, arrived)
        /\ Hosted(server_goals, action_servers)
        /\ BatchOK(events, phase, action_servers, server_goals, arrived)
        /\ RequestsOK(requests, events, action_servers, server_goals)
        /\ AnswersOK(answers, torn, server_goals, accepted)
    BY DEF ActionInv
  <1>1. PICK v : v = [gen |-> h[1], kind |-> h[2], uuid |-> u,
                      request |-> arrived + 1, stamp |-> s]
    OBVIOUS
  <1>2. /\ h \in handles /\ h[2] \in Services /\ arrived < MaxRequests
        /\ phase = "poll" /\ arrived' = arrived + 1
        /\ requests' = requests \cup {<<h[1], h[2], arrived + 1>>}
        /\ events' = Append(events, v)
    BY <1>1 DEF TakeRequest
  <1>3. UNCHANGED <<clientVars, action_servers, server_goals, handles, servers,
                    accepted, answers, torn>>
    BY DEF TakeRequest
  <1>4. accepted \in Nat /\ arrived \in Nat /\ arrived + 1 \in 0..MaxRequests
    BY <1>0, <1>2, CountersNat, BoundsAssumption DEF Counters
  <1>5. PICK m \in Nat : m = arrived
    BY <1>4
  <1>6. h[1] \in Gens(action_servers) /\ h[1] \in Nat
    <2>1. h[1] \in Gens(action_servers)
      BY <1>0, <1>2 DEF ServersOK
    <2>2. PICK a \in action_servers : h[1] = a.gen
      BY <2>1 DEF Gens
    <2>3. a \in ServerRec
      BY <1>0 DEF ServersOK
    <2> QED BY <2>1, <2>2, <2>3 DEF ServerRec
  <1>7. v \in EventRec /\ v.request = m + 1 /\ v.gen = h[1] /\ v.kind = h[2]
    BY <1>1, <1>2, <1>4, <1>5, <1>6 DEF EventRec
  <1>8. GoalsOK(server_goals, accepted, m + 1)
    <2>1. \A g \in server_goals : GoalOK(g, accepted, m)
      BY <1>0, <1>5 DEF GoalsOK
    <2>2. m + 1 \in Nat /\ m <= m + 1 /\ accepted <= accepted
      BY <1>4
    <2>3. \A g \in server_goals : GoalOK(g, accepted, m + 1)
      BY <1>4, <2>1, <2>2, GoalMonotonic
    <2> QED BY <1>0, <2>3, Zenon DEF GoalsOK
  <1>9. \A g \in server_goals : m + 1 \notin Range(g.requests)
    <2> TAKE g \in server_goals
    <2>1. g.requests \in Seq(1..m)
      BY <1>0, <1>5 DEF GoalsOK, GoalOK
    <2>2. Range(g.requests) \subseteq 1..m
      BY <2>1, RangeIn
    <2> QED BY <2>2
  <1>10. PICK E, F : E = events /\ F = Append(E, v)
    OBVIOUS
  <1>11. PICK l \in Nat : l = Len(E)
    BY <1>0, <1>10 DEF BatchOK
  <1>12. /\ F \in Seq(EventRec) /\ Len(F) = l + 1 /\ F[l + 1] = v
         /\ \A i \in 1..l : F[i] = E[i]
    <2>1. E \in Seq(EventRec)
      BY <1>0, <1>10 DEF BatchOK
    <2> QED BY <1>7, <1>10, <1>11, <2>1, AppendProperties
  <1>13. /\ \A i \in 1..l : E[i].request \in 1..m /\ E[i].gen \in Gens(action_servers)
         /\ \A i \in 1..l : E[i].kind # "cancel" => E[i].uuid \in Uuid
         /\ \A i, j \in 1..l : E[i].request = E[j].request => i = j
         /\ \A i \in 1..l : \A g \in server_goals :
               E[i].request \notin Range(g.requests)
    BY <1>0, <1>5, <1>10, <1>11 DEF BatchOK
  <1>14. \A i \in 1..l + 1 : i \in 1..l \/ i = l + 1
    OBVIOUS
  <1>15. BatchOK(F, phase, action_servers, server_goals, m + 1)
    <2>1. \A i \in 1..Len(F) :
             F[i].request \in 1..m + 1 /\ F[i].gen \in Gens(action_servers)
      <3> SUFFICES ASSUME NEW i \in 1..l + 1
                   PROVE  F[i].request \in 1..m + 1
                          /\ F[i].gen \in Gens(action_servers)
        BY <1>12
      <3>1. CASE i \in 1..l
        BY <1>12, <1>13, <3>1
      <3>2. CASE i = l + 1
        BY <1>6, <1>7, <1>12, <3>2
      <3> QED BY <1>14, <3>1, <3>2
    <2>2. \A i, j \in 1..Len(F) : F[i].request = F[j].request => i = j
      <3> SUFFICES ASSUME NEW i \in 1..l + 1, NEW j \in 1..l + 1,
                          F[i].request = F[j].request
                   PROVE  i = j
        BY <1>12
      <3>1. \A x \in 1..l : F[x].request \in 1..m
        BY <1>12, <1>13
      <3>2. F[l + 1].request = m + 1
        BY <1>7, <1>12
      <3>3. CASE i \in 1..l /\ j \in 1..l
        BY <1>12, <1>13, <3>3
      <3> QED BY <1>14, <3>1, <3>2, <3>3
    <2>3. \A i \in 1..Len(F) : \A g \in server_goals :
             F[i].request \notin Range(g.requests)
      <3> SUFFICES ASSUME NEW i \in 1..l + 1, NEW g \in server_goals
                   PROVE  F[i].request \notin Range(g.requests)
        BY <1>12
      <3>1. CASE i \in 1..l
        BY <1>12, <1>13, <3>1
      <3>2. CASE i = l + 1
        BY <1>7, <1>9, <1>12, <3>2
      <3> QED BY <1>14, <3>1, <3>2
    <2>4. phase \notin {"poll", "events"} => F = << >>
      BY <1>2
    <2>5. \A i \in 1..Len(F) : F[i].kind # "cancel" => F[i].uuid \in Uuid
      <3> SUFFICES ASSUME NEW i \in 1..l + 1, F[i].kind # "cancel"
                   PROVE  F[i].uuid \in Uuid
        BY <1>12
      <3>1. CASE i \in 1..l
        BY <1>12, <1>13, <3>1
      <3>2. CASE i = l + 1
        <4>1. h[2] # "cancel" => u # Zero
          BY DEF TakeRequest
        <4> QED BY <1>1, <1>12, <3>2, <4>1
      <3> QED BY <1>14, <3>1, <3>2
    <2> QED BY <1>12, <2>1, <2>2, <2>3, <2>4, <2>5, Zenon DEF BatchOK
  <1>16. RequestsOK(requests', F, action_servers, server_goals)
    <2>1. ASSUME NEW q PROVE InBatch(q, F) <=> InBatch(q, E) \/ q = Of(v)
      <3>1. ASSUME InBatch(q, F) PROVE InBatch(q, E) \/ q = Of(v)
        <4>1. PICK i \in 1..l + 1 : q = <<F[i].gen, F[i].kind, F[i].request>>
          BY <1>12, <3>1 DEF InBatch
        <4>2. CASE i \in 1..l
          BY <1>11, <1>12, <4>1, <4>2 DEF InBatch
        <4>3. CASE i = l + 1
          BY <1>12, <4>1, <4>3 DEF Of
        <4> QED BY <1>14, <4>2, <4>3
      <3>2. ASSUME InBatch(q, E) PROVE InBatch(q, F)
        <4>1. PICK i \in 1..l : q = <<E[i].gen, E[i].kind, E[i].request>>
          BY <1>11, <3>2 DEF InBatch
        <4>2. i \in 1..Len(F) /\ F[i] = E[i]
          BY <1>12
        <4> QED BY <4>1, <4>2 DEF InBatch
      <3>3. ASSUME q = Of(v) PROVE InBatch(q, F)
        <4>1. l + 1 \in 1..Len(F) /\ F[l + 1] = v
          BY <1>12
        <4> QED BY <3>3, <4>1 DEF InBatch, Of
      <3> QED BY <3>1, <3>2, <3>3
    <2>2. requests' = requests \cup {Of(v)}
      BY <1>2, <1>5, <1>7 DEF Of
    <2>3. \A q : q \in requests <=> InBatch(q, E) \/ Held(q, action_servers, server_goals)
      BY <1>0, <1>10, Zenon DEF RequestsOK
    <2>4. \A q : q \in requests' <=> q \in requests \/ q = Of(v)
      BY <2>2
    <2> QED BY <2>1, <2>3, <2>4, Zenon DEF RequestsOK
  <1>17. ClientsTypeOK' /\ outputs' = outputs /\ phase' = phase
    BY <1>0, <1>3 DEF clientVars, ClientsTypeOK
  <1>18. /\ action_servers' = action_servers /\ server_goals' = server_goals
         /\ handles' = handles /\ servers' = servers /\ accepted' = accepted
         /\ answers' = answers /\ torn' = torn /\ arrived' = m + 1
         /\ events' = F
    BY <1>2, <1>3, <1>5, <1>10
  <1>19. Lives(server_goals, server_goals)
    BY <1>0, LivesFrom
  <1>20. Counters'
    BY <1>0, <1>2, <1>4, <1>18 DEF Counters
  <1> QED BY <1>0, <1>8, <1>15, <1>16, <1>17, <1>18, <1>19, <1>20, Zenon
          DEF Kept, ActionInv

(* The first request v of the batch is taken out; U are the others. *)
Rest(E, v, U) ==
    /\ E # << >> /\ v = Head(E) /\ U = Tail(E)

LEMMA RestFacts ==
    ASSUME NEW E, NEW v, NEW U, Rest(E, v, U), NEW AS, NEW G,
           NEW m, BatchOK(E, "events", AS, G, m)
    PROVE  /\ BatchOK(U, "events", AS, G, m)
           /\ v \in EventRec /\ v.request \in 1..m /\ v.gen \in Gens(AS)
           /\ v.kind # "cancel" => v.uuid \in Uuid
           /\ \A g \in G : v.request \notin Range(g.requests)
           /\ \A i \in 1..Len(U) : U[i].request # v.request
           /\ \A q : InBatch(q, E) <=> InBatch(q, U) \/ q = Of(v)
  <1>1. E \in Seq(EventRec) /\ E # << >> /\ v = Head(E) /\ U = Tail(E)
    BY DEF BatchOK, Rest
  <1>2. PICK l \in Nat : l = Len(E)
    BY <1>1
  <1>3. /\ U \in Seq(EventRec) /\ Len(U) = l - 1 /\ v = E[1] /\ l # 0
        /\ \A i \in 1..l - 1 : U[i] = E[i + 1]
    BY <1>1, <1>2, HeadTailProperties
  <1>4. /\ \A i \in 1..l : E[i].request \in 1..m /\ E[i].gen \in Gens(AS)
        /\ \A i \in 1..l : E[i].kind # "cancel" => E[i].uuid \in Uuid
        /\ \A i, j \in 1..l : E[i].request = E[j].request => i = j
        /\ \A i \in 1..l : \A g \in G : E[i].request \notin Range(g.requests)
    BY <1>2 DEF BatchOK
  <1>5. 1 \in 1..l /\ \A i \in 1..l - 1 : i + 1 \in 1..l /\ i + 1 # 1
    BY <1>3
  <1>6. v \in EventRec
    BY <1>1, <1>2, <1>3, <1>5
  <1>7. /\ v.request \in 1..m /\ v.gen \in Gens(AS)
        /\ v.kind # "cancel" => v.uuid \in Uuid
        /\ \A g \in G : v.request \notin Range(g.requests)
    BY <1>3, <1>4, <1>5
  <1>8. \A i \in 1..Len(U) : U[i].request # v.request
    BY <1>3, <1>4, <1>5
  <1>9. BatchOK(U, "events", AS, G, m)
    <2>1. \A i \in 1..Len(U) : U[i].request \in 1..m /\ U[i].gen \in Gens(AS)
      BY <1>3, <1>4, <1>5, Zenon
    <2>2. \A i, j \in 1..Len(U) : U[i].request = U[j].request => i = j
      <3> SUFFICES ASSUME NEW i \in 1..l - 1, NEW j \in 1..l - 1,
                          U[i].request = U[j].request
                   PROVE  i = j
        BY <1>3, Zenon
      <3>1. U[i] = E[i + 1] /\ U[j] = E[j + 1]
        BY <1>3, Zenon
      <3>2. i + 1 \in 1..l /\ j + 1 \in 1..l
        BY <1>5, Zenon
      <3>3. E[i + 1].request = E[j + 1].request
        BY <3>1
      <3>4. i + 1 = j + 1
        BY <1>4, <3>2, <3>3, Zenon
      <3> QED BY <3>4
    <2>3. \A i \in 1..Len(U) : \A g \in G : U[i].request \notin Range(g.requests)
      BY <1>3, <1>4, <1>5, Zenon
    <2>4. "events" \in {"poll", "events"}
      OBVIOUS
    <2>5. \A i \in 1..Len(U) : U[i].kind # "cancel" => U[i].uuid \in Uuid
      BY <1>3, <1>4, <1>5, Zenon
    <2> QED BY <1>3, <2>1, <2>2, <2>3, <2>4, <2>5, Zenon DEF BatchOK
  <1>10. ASSUME NEW q PROVE InBatch(q, E) <=> InBatch(q, U) \/ q = Of(v)
    <2>1. ASSUME InBatch(q, E) PROVE InBatch(q, U) \/ q = Of(v)
      <3>1. PICK i \in 1..l : q = <<E[i].gen, E[i].kind, E[i].request>>
        BY <1>2, <2>1 DEF InBatch
      <3>2. CASE i = 1
        BY <1>3, <3>1, <3>2 DEF Of
      <3>3. CASE i # 1
        <4>1. PICK j \in 1..l - 1 : i = j + 1
          <5>1. i - 1 \in 1..l - 1 /\ i = (i - 1) + 1
            BY <3>3
          <5> QED BY <5>1
        <4>2. j \in 1..Len(U) /\ U[j] = E[i]
          BY <1>3, <4>1
        <4> QED BY <3>1, <4>2 DEF InBatch
      <3> QED BY <3>2, <3>3
    <2>2. ASSUME InBatch(q, U) PROVE InBatch(q, E)
      <3>1. PICK i \in 1..l - 1 : q = <<U[i].gen, U[i].kind, U[i].request>>
        BY <1>3, <2>2 DEF InBatch
      <3>2. i + 1 \in 1..Len(E) /\ U[i] = E[i + 1]
        BY <1>2, <1>3, <1>5
      <3> QED BY <3>1, <3>2 DEF InBatch
    <2>3. ASSUME q = Of(v) PROVE InBatch(q, E)
      BY <1>2, <1>3, <1>5, <2>3 DEF InBatch, Of
    <2> QED BY <2>1, <2>2, <2>3
  <1> QED BY <1>6, <1>7, <1>8, <1>9, <1>10, Zenon

(* The request is answered or discarded. *)
LEMMA ConsumeRequest ==
    ASSUME NEW E, NEW v, NEW U, Rest(E, v, U), NEW AS, NEW G,
           NEW m, BatchOK(E, "events", AS, G, m),
           NEW Q, RequestsOK(Q, E, AS, G)
    PROVE  RequestsOK(Q \ {Of(v)}, U, AS, G)
  <1>1. /\ \A g \in G : v.request \notin Range(g.requests)
        /\ \A i \in 1..Len(U) : U[i].request # v.request
        /\ \A q : InBatch(q, E) <=> InBatch(q, U) \/ q = Of(v)
    BY RestFacts
  <1>2. ASSUME NEW q, InBatch(q, U) PROVE q # Of(v)
    <2>1. PICK i \in 1..Len(U) : q = <<U[i].gen, U[i].kind, U[i].request>>
      BY <1>2 DEF InBatch
    <2> QED BY <1>1, <2>1 DEF Of
  <1>3. ASSUME NEW q, Held(q, AS, G) PROVE q # Of(v)
    <2>1. PICK a \in AS, g \in G : \E r \in Range(g.requests) : q = Header(a, r)
      BY <1>3, Zenon DEF Held
    <2> QED BY <1>1, <2>1 DEF Of, Header
  <1>4. \A q : q \in Q <=> InBatch(q, E) \/ Held(q, AS, G)
    BY Zenon DEF RequestsOK
  <1>5. \A q : q \in Q \ {Of(v)} <=> q \in Q /\ q # Of(v)
    OBVIOUS
  <1>6. \A q : q \in Q \ {Of(v)} <=> InBatch(q, U) \/ Held(q, AS, G)
    BY <1>1, <1>2, <1>3, <1>4, <1>5, Zenon
  <1> QED BY <1>6, Zenon DEF RequestsOK

(* A request v for server a is handled, which leaves U. *)
Handles(kind, a, v, U) ==
    Arrives(kind, a) /\ v = Head(events) /\ U = Tail(events)

LEMMA Arriving ==
    ASSUME ActionInv, NEW kind, NEW a, NEW v, NEW U, Handles(kind, a, v, U)
    PROVE  /\ phase = "events"
           /\ Rest(events, v, U)
           /\ BatchOK(U, "events", action_servers, server_goals, arrived)
           /\ v \in EventRec /\ v.request \in 1..arrived
           /\ v.kind # "cancel" => v.uuid \in Uuid
           /\ \A g \in server_goals : v.request \notin Range(g.requests)
           /\ \A i \in 1..Len(U) : U[i].request # v.request
           /\ \A q : InBatch(q, events) <=> InBatch(q, U) \/ q = Of(v)
           /\ a \in action_servers /\ a.gen = v.gen /\ v.kind = kind
           /\ Consumed = requests \ {Of(v)}
           /\ RequestsOK(Consumed, U, action_servers, server_goals)
  <1>1. /\ phase = "events" /\ Rest(events, v, U)
        /\ a \in action_servers /\ a.gen = v.gen /\ v.kind = kind
    BY DEF Handles, Arrives, Rest
  <1>2. Consumed = requests \ {Of(v)}
    BY DEF Handles, Consumed, Of
  <1>3. /\ BatchOK(events, "events", action_servers, server_goals, arrived)
        /\ RequestsOK(requests, events, action_servers, server_goals)
    BY <1>1, Zenon DEF ActionInv
  <1>4. RequestsOK(Consumed, U, action_servers, server_goals)
    BY <1>1, <1>2, <1>3, ConsumeRequest
  <1>5. /\ BatchOK(U, "events", action_servers, server_goals, arrived)
        /\ v \in EventRec /\ v.request \in 1..arrived
        /\ v.kind # "cancel" => v.uuid \in Uuid
        /\ \A g \in server_goals : v.request \notin Range(g.requests)
        /\ \A i \in 1..Len(U) : U[i].request # v.request
        /\ \A q : InBatch(q, events) <=> InBatch(q, U) \/ q = Of(v)
    <2>1. PICK E, AS, G, m : /\ E = events /\ AS = action_servers
                             /\ G = server_goals /\ m = arrived
      OBVIOUS
    <2>2. Rest(E, v, U) /\ BatchOK(E, "events", AS, G, m)
      BY <1>1, <1>3, <2>1, Zenon
    <2>3. /\ BatchOK(U, "events", AS, G, m)
          /\ v \in EventRec /\ v.request \in 1..m
          /\ v.kind # "cancel" => v.uuid \in Uuid
          /\ \A g \in G : v.request \notin Range(g.requests)
          /\ \A i \in 1..Len(U) : U[i].request # v.request
          /\ \A q : InBatch(q, E) <=> InBatch(q, U) \/ q = Of(v)
      BY <2>2, RestFacts
    <2> QED BY <2>1, <2>3, Zenon
  <1> QED BY <1>1, <1>2, <1>4, <1>5, Zenon

-----------------------------------------------------------------------------
(* Bridge::action_request *)
LEMMA AcceptStep ==
    ASSUME ActionInv, NEW a, HandleGoal(a)
    PROVE  Kept
  <1>0. /\ ClientsTypeOK /\ Counters
        /\ ServersOK(action_servers, handles, servers, outputs)
        /\ GoalsOK(server_goals, accepted, arrived)
        /\ Hosted(server_goals, action_servers)
        /\ AnswersOK(answers, torn, server_goals, accepted)
    BY DEF ActionInv
  <1>1. PICK v, U : v = Head(events) /\ U = Tail(events)
    OBVIOUS
  <1>2. Handles("send", a, v, U)
    BY <1>1, Zenon DEF Handles, HandleGoal
  <1>a. events' = U
    BY <1>2 DEF Handles, Arrives
  <1>3. /\ phase = "events"
        /\ BatchOK(U, "events", action_servers, server_goals, arrived)
        /\ v.kind # "cancel" => v.uuid \in Uuid
        /\ a \in action_servers /\ v.kind = "send"
        /\ RequestsOK(Consumed, U, action_servers, server_goals)
    BY <1>2, Arriving, Zenon
  <1>4. PICK n \in Nat : n = accepted
    BY <1>0, CountersNat
  <1>5. PICK h : h = [action |-> a.action, uuid |-> v.uuid, owner |-> a.owner,
                      id |-> n + 1, status |-> EXECUTING, done |-> FALSE,
                      requests |-> << >>]
    OBVIOUS
  <1>6. /\ Known(a) = {} /\ n < MaxGoals /\ accepted' = n + 1
        /\ requests' = Consumed
        /\ server_goals' = server_goals \cup {h}
        /\ Send({a.owner})
    BY <1>1, <1>4, <1>5 DEF HandleGoal
  <1>7. UNCHANGED <<outputs, seen, phase, action_servers, handles, servers,
                    arrived, answers, torn>>
    BY DEF HandleGoal
  <1>8. a \in ServerRec
    BY <1>0, <1>3 DEF ServersOK
  <1>9. /\ h \in GoalRec /\ h.id = n + 1 /\ h.action = a.action
        /\ h.uuid = v.uuid /\ h.owner = a.owner /\ h.requests = << >>
        /\ h.status = EXECUTING
    <2>1. << >> \in Seq(Nat) /\ n + 1 \in Nat
      OBVIOUS
    <2>2. a.action \in Action /\ a.owner \in Conn
      BY <1>8 DEF ServerRec
    <2>3. v.uuid \in Uuid
      BY <1>3
    <2> QED BY <1>5, <2>1, <2>2, <2>3 DEF GoalRec
  <1>10. ~h.done
    BY <1>5
  <1>11. GoalOK(h, n + 1, arrived)
    <2>1. << >> \in Seq(1..arrived) /\ n + 1 \in 1..n + 1
          /\ EXECUTING \notin Terminal
      BY DEF EXECUTING, Terminal
    <2> QED BY <1>9, <1>10, <2>1, EmptyRange, Zenon DEF GoalOK
  <1>12. \A g \in server_goals : GoalOK(g, n, arrived) /\ g.id \in 1..n
    BY <1>0, <1>4 DEF GoalsOK, GoalOK
  <1>13. \A g \in server_goals : g.id # h.id /\ ~(g.action = h.action /\ g.uuid = h.uuid)
    <2>1. \A g \in server_goals : g.id # h.id
      BY <1>9, <1>12
    <2>2. \A g \in server_goals : ~(g.action = h.action /\ g.uuid = h.uuid)
      BY <1>1, <1>6, <1>9 DEF Known
    <2> QED BY <2>1, <2>2
  <1>14. GoalsOK(server_goals', n + 1, arrived)
    <2>1. \A g \in server_goals' : GoalOK(g, n + 1, arrived)
      <3>1. n + 1 \in Nat /\ n <= n + 1 /\ arrived \in Nat /\ arrived <= arrived
        BY <1>0, CountersNat
      <3>2. \A g \in server_goals : GoalOK(g, n + 1, arrived)
        BY <1>12, <3>1, GoalMonotonic
      <3> QED BY <1>6, <1>11, <3>2, Zenon
    <2>2. \A g, k \in server_goals' : g.id = k.id => g = k
      <3> SUFFICES ASSUME NEW g \in server_goals', NEW k \in server_goals',
                          g.id = k.id
                   PROVE  g = k
        OBVIOUS
      <3>1. CASE g \in server_goals /\ k \in server_goals
        BY <1>0, <3>1, Zenon DEF GoalsOK
      <3> QED BY <1>6, <1>13, <3>1
    <2>3. \A g, k \in server_goals' : g.action = k.action /\ g.uuid = k.uuid => g = k
      <3> SUFFICES ASSUME NEW g \in server_goals', NEW k \in server_goals',
                          g.action = k.action /\ g.uuid = k.uuid
                   PROVE  g = k
        OBVIOUS
      <3>1. CASE g \in server_goals /\ k \in server_goals
        BY <1>0, <3>1, Zenon DEF GoalsOK
      <3> QED BY <1>6, <1>13, <3>1
    <2>4. \A g, k \in server_goals' :
             g # k => Range(g.requests) \cap Range(k.requests) = {}
      <3> SUFFICES ASSUME NEW g \in server_goals', NEW k \in server_goals', g # k
                   PROVE  Range(g.requests) \cap Range(k.requests) = {}
        OBVIOUS
      <3>1. CASE g \in server_goals /\ k \in server_goals
        BY <1>0, <3>1, Zenon DEF GoalsOK
      <3>2. Range(h.requests) = {}
        BY <1>9, EmptyRange
      <3> QED BY <1>6, <3>1, <3>2
    <2> QED BY <2>1, <2>2, <2>3, <2>4, Zenon DEF GoalsOK
  <1>15. Hosted(server_goals', action_servers)
    BY <1>0, <1>3, <1>6, <1>9 DEF Hosted
  <1>16. BatchOK(U, "events", action_servers, server_goals', arrived)
    <2>1. \A i \in 1..Len(U) : \A g \in server_goals' : U[i].request \notin Range(g.requests)
      <3>1. Range(h.requests) = {}
        BY <1>9, EmptyRange
      <3>2. \A i \in 1..Len(U) : \A g \in server_goals :
               U[i].request \notin Range(g.requests)
        BY <1>3, Zenon DEF BatchOK
      <3> QED BY <1>6, <3>1, <3>2
    <2> QED BY <1>3, <2>1, Zenon DEF BatchOK
  <1>17. RequestsOK(Consumed, U, action_servers, server_goals')
    <2>1. ASSUME NEW q
          PROVE  Held(q, action_servers, server_goals)
                   <=> Held(q, action_servers, server_goals')
      <3>1. \A r : r \notin Range(h.requests)
        BY <1>9, EmptyRange
      <3>2. \A g \in server_goals' : g \in server_goals \/ g = h
        BY <1>6
      <3>3. \A g \in server_goals : g \in server_goals'
        BY <1>6
      <3> QED BY <3>1, <3>2, <3>3, Zenon DEF Held
    <2> QED BY <1>3, <2>1, Zenon DEF RequestsOK
  <1>18. AnswersOK(answers, torn, server_goals', n + 1)
    <2>1. n + 1 \in Nat /\ n <= n + 1 /\ n + 1 \notin 1..n
      OBVIOUS
    <2>2. \A x \in server_goals' : \/ x.id \notin 1..n
                                   \/ \E y \in server_goals :
                                         y.id = x.id /\ (y.done => x = y)
      BY <1>6, <1>9, <2>1, Zenon
    <2>3. AnswersOK(answers, torn, server_goals, n)
      BY <1>0, <1>4
    <2> QED BY <2>1, <2>2, <2>3, AnswersSame
  <1>19. Lives(server_goals, server_goals')
    <2>1. n + 1 \notin 1..n
      OBVIOUS
    <2>2. \A x \in server_goals' : x \in server_goals \/ x.id \notin 1..n
      BY <1>6, <1>9, <2>1, Zenon
    <2>3. GoalsOK(server_goals, n, arrived)
      BY <1>0, <1>4
    <2> QED BY <2>2, <2>3, LivesFrom
  <1>20. ClientsTypeOK'
    BY <1>0, <1>6, <1>7, SendClients
  <1>21. Counters'
    BY <1>0, <1>4, <1>6, <1>7, BoundsAssumption DEF Counters
  <1>22. /\ outputs' = outputs /\ phase' = "events" /\ handles' = handles
         /\ action_servers' = action_servers /\ servers' = servers
         /\ arrived' = arrived /\ answers' = answers /\ torn' = torn
    BY <1>3, <1>7
  <1> QED BY <1>0, <1>a, <1>3, <1>6, <1>14, <1>15, <1>16, <1>17, <1>18, <1>19, <1>20,
             <1>21, <1>22, Zenon DEF Kept, ActionInv

(* The request is answered, and nothing becomes of it. *)
LEMMA DiscardSteps ==
    ASSUME ActionInv, NEW a,
           \/ HandleDuplicateGoal(a) \/ HandleResultReady(a)
           \/ HandleRequestFails(a)
    PROVE  Kept
  <1>0. /\ ClientsTypeOK /\ Counters
        /\ GoalsOK(server_goals, accepted, arrived)
        /\ Hosted(server_goals, action_servers)
        /\ AnswersOK(answers, torn, server_goals, accepted)
    BY DEF ActionInv
  <1>1. PICK v, U : v = Head(events) /\ U = Tail(events)
    OBVIOUS
  <1>2. PICK kind : Handles(kind, a, v, U)
    BY <1>1, Zenon DEF Handles, HandleDuplicateGoal, HandleResultReady,
                       HandleRequestFails
  <1>a. events' = U
    BY <1>2 DEF Handles, Arrives
  <1>3. /\ phase = "events"
        /\ BatchOK(U, "events", action_servers, server_goals, arrived)
        /\ RequestsOK(Consumed, U, action_servers, server_goals)
    BY <1>2, Arriving, Zenon
  <1>4. /\ UNCHANGED <<clientVars, action_servers, server_goals, handles,
                       servers, accepted, arrived, torn>>
        /\ requests' = Consumed
    BY DEF HandleDuplicateGoal, HandleResultReady, HandleRequestFails
  <1>5. AnswersOK(answers', torn, server_goals, accepted)
    <2>1. CASE answers' = answers
      BY <1>0, <2>1
    <2>2. CASE HandleResultReady(a)
      <3>1. PICK Y : Y = {<<g.id, g.status>> : g \in Known(a)}
        OBVIOUS
      <3>2. answers' = answers \cup Y /\ \A g \in Known(a) : g.done
        BY <2>2, <3>1 DEF HandleResultReady
      <3>3. \A y \in Y : \E g \in server_goals : g.done /\ y = <<g.id, g.status>>
        BY <3>1, <3>2 DEF Known
      <3>4. \A g \in server_goals : GoalOK(g, accepted, arrived)
        BY <1>0 DEF GoalsOK
      <3>5. Y \subseteq (1..accepted) \X Terminal
        <4> SUFFICES ASSUME NEW y \in Y PROVE y \in (1..accepted) \X Terminal
          OBVIOUS
        <4>1. PICK g \in server_goals : g.done /\ y = <<g.id, g.status>>
          BY <3>3, Zenon
        <4>2. g.id \in 1..accepted /\ g.status \in Terminal
          BY <3>4, <4>1, Zenon DEF GoalOK
        <4> QED BY <4>1, <4>2
      <3>6. ASSUME NEW h \in server_goals, NEW y \in Y, y[1] = h.id
            PROVE  h.done /\ h.status = y[2]
        <4>1. PICK g \in server_goals : g.done /\ y = <<g.id, g.status>>
          BY <3>3, Zenon
        <4>2. y[1] = g.id /\ y[2] = g.status
          BY <4>1
        <4>3. g = h
          BY <1>0, <3>6, <4>2 DEF GoalsOK
        <4> QED BY <4>1, <4>2, <4>3, Zenon
      <3>7. ASSUME NEW x \in answers, NEW y \in Y, x[1] = y[1] /\ x[1] \notin torn
            PROVE  x = y
        <4>1. PICK g \in server_goals : g.done /\ y = <<g.id, g.status>>
          BY <3>3, Zenon
        <4>2. x[1] = g.id
          BY <3>7, <4>1
        <4>3. g.status = x[2]
          BY <1>0, <3>7, <4>2, Zenon DEF AnswersOK
        <4>4. x \in (1..accepted) \X Terminal
          BY <1>0 DEF AnswersOK
        <4> QED BY <4>1, <4>2, <4>3, <4>4
      <3>8. ASSUME NEW x \in Y, NEW y \in Y, x[1] = y[1]
            PROVE  x = y
        <4>1. PICK g \in server_goals : x = <<g.id, g.status>>
          BY <3>3, Zenon
        <4>2. PICK h \in server_goals : y = <<h.id, h.status>>
          BY <3>3, Zenon
        <4>3. g.id = h.id
          BY <3>8, <4>1, <4>2
        <4>4. g = h
          BY <1>0, <4>3, Zenon DEF GoalsOK
        <4> QED BY <4>1, <4>2, <4>4
      <3>9. AnswersOK(answers \cup Y, torn, server_goals, accepted)
        BY <1>0, <3>5, <3>6, <3>7, <3>8, AnswersAdd, Zenon
      <3> QED BY <3>2, <3>9, Zenon
    <2> QED BY <2>1, <2>2 DEF HandleDuplicateGoal, HandleRequestFails
  <1>6. Lives(server_goals, server_goals)
    BY <1>0, LivesFrom
  <1>7. ClientsTypeOK' /\ outputs' = outputs /\ phase' = phase
    BY <1>0, <1>4 DEF clientVars, ClientsTypeOK
  <1>8. /\ server_goals' = server_goals /\ torn' = torn
        /\ UNCHANGED <<action_servers, handles, servers, accepted, arrived>>
    BY <1>4
  <1>9. /\ BatchOK(events', phase, action_servers, server_goals', arrived)
        /\ GoalsOK(server_goals', accepted, arrived)
        /\ Hosted(server_goals', action_servers)
        /\ RequestsOK(requests', events', action_servers, server_goals')
        /\ AnswersOK(answers', torn', server_goals', accepted)
        /\ Lives(server_goals, server_goals')
    BY <1>0, <1>a, <1>3, <1>4, <1>5, <1>6, <1>8, Zenon
  <1> QED BY <1>7, <1>8, <1>9, GoalStep

(* A request for a result that is not there yet waits with its goal. *)
LEMMA AppendRange ==
    ASSUME NEW m, NEW s \in Seq(1..m), IsInjective(s), NEW r \in 1..m,
           r \notin Range(s)
    PROVE  /\ Append(s, r) \in Seq(1..m)
           /\ Range(Append(s, r)) = Range(s) \cup {r}
           /\ IsInjective(Append(s, r))
  <1>1. PICK t, k : t = Append(s, r) /\ k = Len(s)
    OBVIOUS
  <1>2. /\ t \in Seq(1..m) /\ k \in Nat /\ Len(t) = k + 1 /\ t[k + 1] = r
        /\ \A i \in 1..k : t[i] = s[i]
        /\ DOMAIN t = 1..k + 1 /\ DOMAIN s = 1..k
    BY <1>1
  <1>3. Range(t) = Range(s) \cup {r}
    <2>1. ASSUME NEW x \in Range(t) PROVE x \in Range(s) \cup {r}
      <3>1. PICK i \in 1..k + 1 : x = t[i]
        BY <1>2 DEF Range
      <3>2. CASE i = k + 1
        BY <1>2, <3>1, <3>2
      <3>3. CASE i # k + 1
        <4>1. i \in 1..k
          BY <1>2, <3>3
        <4> QED BY <1>2, <3>1, <4>1 DEF Range
      <3> QED BY <3>2, <3>3
    <2>2. ASSUME NEW x \in Range(s) PROVE x \in Range(t)
      <3>1. PICK i \in 1..k : x = s[i]
        BY <1>2 DEF Range
      <3>2. i \in 1..k + 1 /\ x = t[i]
        BY <1>2, <3>1
      <3> QED BY <1>2, <3>2 DEF Range
    <2>3. r \in Range(t)
      <3>1. k + 1 \in 1..k + 1
        BY <1>2
      <3> QED BY <1>2, <3>1 DEF Range
    <2> QED BY <2>1, <2>2, <2>3
  <1>4. IsInjective(t)
    <2> SUFFICES ASSUME NEW i \in 1..k + 1, NEW j \in 1..k + 1, t[i] = t[j]
                 PROVE  i = j
      BY <1>2 DEF IsInjective
    <2>1. \A x \in 1..k : t[x] # r
      BY <1>2 DEF Range
    <2>2. CASE i \in 1..k /\ j \in 1..k
      BY <1>2, <2>2 DEF IsInjective
    <2>3. CASE i = k + 1 \/ j = k + 1
      BY <1>2, <2>1, <2>3
    <2> QED BY <1>2, <2>2, <2>3
  <1> QED BY <1>1, <1>2, <1>3, <1>4, Zenon

LEMMA AddRequest ==
    ASSUME NEW AS, NEW G, NEW s, NEW W, NEW O, ServersOK(AS, W, s, O),
           NEW g \in G, NEW a \in AS, a.action = g.action, NEW h,
           h.action = g.action, NEW r,
           Range(h.requests) = Range(g.requests) \cup {r},
           NEW H, H = (G \ {g}) \cup {h}, NEW q
    PROVE  Held(q, AS, H) <=> Held(q, AS, G) \/ q = Header(a, r)
  <1>1. ASSUME Held(q, AS, H) PROVE Held(q, AS, G) \/ q = Header(a, r)
    <2>1. PICK b \in AS, f \in H :
             /\ b.action = f.action
             /\ \E x \in Range(f.requests) : q = Header(b, x)
      BY <1>1, Zenon DEF Held
    <2>2. PICK x \in Range(f.requests) : q = Header(b, x)
      BY <2>1
    <2>3. CASE f = h
      <3>1. b = a
        BY <2>1, <2>3 DEF ServersOK
      <3>2. CASE x = r
        BY <2>2, <3>1, <3>2
      <3>3. CASE x # r
        <4>1. x \in Range(g.requests) /\ b.action = g.action
          BY <2>1, <2>3, <3>3
        <4> QED BY <2>2, <4>1, Zenon DEF Held
      <3> QED BY <3>2, <3>3
    <2>4. CASE f # h
      <3>1. f \in G
        BY <2>4
      <3> QED BY <2>1, <3>1, Zenon DEF Held
    <2> QED BY <2>3, <2>4
  <1>2. ASSUME Held(q, AS, G) PROVE Held(q, AS, H)
    <2>1. PICK b \in AS, f \in G :
             /\ b.action = f.action
             /\ \E x \in Range(f.requests) : q = Header(b, x)
      BY <1>2, Zenon DEF Held
    <2>2. PICK x \in Range(f.requests) : q = Header(b, x)
      BY <2>1
    <2>3. CASE f = g
      <3>1. h \in H /\ b.action = h.action /\ x \in Range(h.requests)
        BY <2>1, <2>2, <2>3
      <3> QED BY <2>2, <3>1, Zenon DEF Held
    <2>4. CASE f # g
      <3>1. f \in H
        BY <2>4
      <3> QED BY <2>1, <3>1, Zenon DEF Held
    <2> QED BY <2>3, <2>4
  <1>3. ASSUME q = Header(a, r) PROVE Held(q, AS, H)
    <2>1. h \in H /\ a.action = h.action /\ r \in Range(h.requests)
      OBVIOUS
    <2> QED BY <1>3, <2>1, Zenon DEF Held
  <1> QED BY <1>1, <1>2, <1>3

LEMMA WaitGoals ==
    ASSUME NEW G, NEW n, NEW m, GoalsOK(G, n, m), NEW g \in G, NEW h,
           GoalOK(h, n, m), h.id = g.id, h.action = g.action, h.uuid = g.uuid,
           NEW r, Range(h.requests) = Range(g.requests) \cup {r},
           \A x \in G : r \notin Range(x.requests),
           NEW H, H = (G \ {g}) \cup {h}
    PROVE  GoalsOK(H, n, m)
  <1>0. \A x \in H : x = h \/ (x \in G /\ x # g)
    OBVIOUS
  <1>1. \A x \in H : GoalOK(x, n, m)
    BY DEF GoalsOK
  <1>2. \A x, y \in H : x.id = y.id => x = y
    <2>1. \A x, y \in G : x.id = y.id => x = y
      BY Zenon DEF GoalsOK
    <2> QED BY <1>0, <2>1
  <1>3. \A x, y \in H : x.action = y.action /\ x.uuid = y.uuid => x = y
    <2>1. \A x, y \in G : x.action = y.action /\ x.uuid = y.uuid => x = y
      BY Zenon DEF GoalsOK
    <2> QED BY <1>0, <2>1
  <1>4. ASSUME NEW x \in H, NEW y \in H, x # y
        PROVE  Range(x.requests) \cap Range(y.requests) = {}
    <2>1. \A u, w \in G : u # w => Range(u.requests) \cap Range(w.requests) = {}
      BY Zenon DEF GoalsOK
    <2>2. CASE x = h
      <3>1. y \in G /\ y # g
        BY <1>4, <2>2
      <3>2. Range(g.requests) \cap Range(y.requests) = {}
        BY <2>1, <3>1, Zenon
      <3> QED BY <2>2, <3>1, <3>2
    <2>3. CASE y = h
      <3>1. x \in G /\ x # g
        BY <1>4, <2>3
      <3>2. Range(x.requests) \cap Range(g.requests) = {}
        BY <2>1, <3>1, Zenon
      <3> QED BY <2>3, <3>1, <3>2
    <2>4. CASE x # h /\ y # h
      <3>1. x \in G /\ y \in G
        BY <2>4
      <3> QED BY <1>4, <2>1, <3>1, Zenon
    <2> QED BY <2>2, <2>3, <2>4
  <1> QED BY <1>1, <1>2, <1>3, <1>4, Zenon DEF GoalsOK

LEMMA WaitStep ==
    ASSUME ActionInv, NEW a, HandleResultWaits(a)
    PROVE  Kept
  <1>0. /\ ClientsTypeOK /\ Counters
        /\ ServersOK(action_servers, handles, servers, outputs)
        /\ GoalsOK(server_goals, accepted, arrived)
        /\ Hosted(server_goals, action_servers)
        /\ RequestsOK(requests, events, action_servers, server_goals)
        /\ AnswersOK(answers, torn, server_goals, accepted)
    BY DEF ActionInv
  <1>1. PICK v, U : v = Head(events) /\ U = Tail(events)
    OBVIOUS
  <1>2. PICK kind : kind = "result" /\ Handles(kind, a, v, U)
    BY <1>1, Zenon DEF Handles, HandleResultWaits
  <1>a. events' = U
    BY <1>2 DEF Handles, Arrives
  <1>3. /\ phase = "events"
        /\ BatchOK(U, "events", action_servers, server_goals, arrived)
        /\ v.request \in 1..arrived
        /\ a \in action_servers /\ a.gen = v.gen /\ v.kind = kind
    BY <1>2, Arriving
  <1>b. /\ \A g \in server_goals : v.request \notin Range(g.requests)
        /\ \A i \in 1..Len(U) : U[i].request # v.request
    BY <1>2, Arriving
  <1>c. ASSUME NEW q PROVE InBatch(q, events) <=> InBatch(q, U) \/ q = Of(v)
    BY <1>2, Arriving
  <1>4. PICK g \in Known(a) :
           /\ ~g.done
           /\ server_goals' = (server_goals \ {g}) \cup
                 {[g EXCEPT !.requests = Append(@, v.request)]}
    BY <1>1, Zenon DEF HandleResultWaits
  <1>5. PICK h, r : /\ h = [g EXCEPT !.requests = Append(@, r)]
                    /\ r = v.request
    OBVIOUS
  <1>6. /\ g \in server_goals /\ a.action = g.action
        /\ server_goals' = (server_goals \ {g}) \cup {h}
    BY <1>4, <1>5 DEF Known
  <1>7. GoalOK(g, accepted, arrived)
    BY <1>0, <1>6, Zenon DEF GoalsOK
  <1>8. /\ Append(g.requests, r) \in Seq(1..arrived)
        /\ Range(Append(g.requests, r)) = Range(g.requests) \cup {r}
        /\ IsInjective(Append(g.requests, r))
    <2>1. /\ g.requests \in Seq(1..arrived) /\ IsInjective(g.requests)
          /\ r \in 1..arrived /\ r \notin Range(g.requests)
      BY <1>3, <1>b, <1>5, <1>6, <1>7, Zenon DEF GoalOK
    <2> QED BY <2>1, AppendRange
  <1>9. /\ h.id = g.id /\ h.action = g.action /\ h.uuid = g.uuid
        /\ h.owner = g.owner /\ h.requests = Append(g.requests, r)
        /\ h.status = g.status /\ h.done = g.done /\ h \in GoalRec
    <2>1. g \in GoalRec /\ h = [g EXCEPT !.requests = Append(@, r)]
      BY <1>5, <1>7, Zenon DEF GoalOK
    <2>3. PICK t : t = Append(g.requests, r)
      OBVIOUS
    <2>2. t \in Seq(Nat)
      <3>1. 1..arrived \subseteq Nat /\ t \in Seq(1..arrived)
        BY <1>0, <1>8, <2>3, CountersNat
      <3> QED BY <3>1, SeqMonotonic, Zenon
    <2>4. h = [g EXCEPT !.requests = t] /\ t \in Seq(Nat)
      BY <2>1, <2>2, <2>3
    <2>5. /\ h.id = g.id /\ h.action = g.action /\ h.uuid = g.uuid
          /\ h.owner = g.owner /\ h.requests = t
          /\ h.status = g.status /\ h \in GoalRec
      BY <2>1, <2>4 DEF GoalRec
    <2>6. h.done = g.done
      BY <2>1, <2>4, Zenon DEF GoalRec
    <2> QED BY <2>3, <2>5, <2>6, Zenon
  <1>10. GoalOK(h, accepted, arrived)
    BY <1>4, <1>7, <1>8, <1>9, Zenon DEF GoalOK
  <1>11. Range(h.requests) = Range(g.requests) \cup {r}
    BY <1>8, <1>9
  <1>12. GoalsOK(server_goals', accepted, arrived)
    <2>1. \A x \in server_goals : r \notin Range(x.requests)
      BY <1>b, <1>5
    <2> QED BY <1>0, <1>6, <1>9, <1>10, <1>11, <2>1, WaitGoals
  <1>13. Hosted(server_goals', action_servers)
    BY <1>0, <1>6, <1>9 DEF Hosted
  <1>14. BatchOK(events', phase, action_servers, server_goals', arrived)
    <2>1. \A i \in 1..Len(U) : \A x \in server_goals' :
             U[i].request \notin Range(x.requests)
      <3>1. \A i \in 1..Len(U) : \A x \in server_goals :
               U[i].request \notin Range(x.requests)
        BY <1>3, Zenon DEF BatchOK
      <3> SUFFICES ASSUME NEW i \in 1..Len(U), NEW x \in server_goals'
                   PROVE  U[i].request \notin Range(x.requests)
        OBVIOUS
      <3>2. CASE x = h
        BY <1>b, <1>5, <1>6, <1>11, <3>1, <3>2
      <3>3. CASE x # h
        BY <1>6, <3>1, <3>3
      <3> QED BY <3>2, <3>3
    <2>2. BatchOK(U, "events", action_servers, server_goals', arrived)
      BY <1>3, <2>1, Zenon DEF BatchOK
    <2> QED BY <1>a, <1>3, <2>2, Zenon
  <1>15. requests' = requests /\ answers' = answers /\ torn' = torn
    BY DEF HandleResultWaits
  <1>16. RequestsOK(requests', events', action_servers, server_goals')
    <2>1. Of(v) = Header(a, r)
      BY <1>2, <1>3, <1>5 DEF Of, Header
    <2>2. ASSUME NEW q
          PROVE  Held(q, action_servers, server_goals')
                   <=> Held(q, action_servers, server_goals) \/ q = Header(a, r)
      <3>1. PICK H : H = server_goals'
        OBVIOUS
      <3>2. H = (server_goals \ {g}) \cup {h}
        BY <1>6, <3>1
      <3>3. Held(q, action_servers, H)
              <=> Held(q, action_servers, server_goals) \/ q = Header(a, r)
        <4>1. PICK AS, G : AS = action_servers /\ G = server_goals
          OBVIOUS
        <4>2. /\ ServersOK(AS, handles, servers, outputs) /\ g \in G
              /\ a \in AS /\ a.action = g.action /\ h.action = g.action
              /\ Range(h.requests) = Range(g.requests) \cup {r}
              /\ H = (G \ {g}) \cup {h}
          BY <1>0, <1>3, <1>6, <1>9, <1>11, <3>2, <4>1, Zenon
        <4>3. Held(q, AS, H) <=> Held(q, AS, G) \/ q = Header(a, r)
          BY <4>2, AddRequest
        <4> QED BY <4>1, <4>3, Zenon
      <3> QED BY <3>1, <3>3, Zenon
    <2>3. RequestsOK(requests, U, action_servers, server_goals')
      BY <1>0, <1>c, <2>1, <2>2, Zenon DEF RequestsOK
    <2> QED BY <1>a, <1>15, <2>3, Zenon
  <1>17. AnswersOK(answers', torn', server_goals', accepted)
    <2>1. \A x \in server_goals' : \E y \in server_goals :
             y.id = x.id /\ (y.done => x = y)
      BY <1>4, <1>6, <1>9, Zenon
    <2>2. AnswersOK(answers, torn, server_goals', accepted)
      BY <1>0, <2>1, CountersNat, AnswersSame
    <2> QED BY <1>15, <2>2
  <1>18. Lives(server_goals, server_goals')
    <2>1. g.status <= h.status
      BY <1>7, <1>9, StatusNat
    <2> QED BY <1>0, <1>4, <1>6, <1>9, <2>1, LivesFrom
  <1>19. ClientsTypeOK' /\ outputs' = outputs /\ phase' = phase
    BY <1>0 DEF HandleResultWaits, clientVars, ClientsTypeOK
  <1>20. UNCHANGED <<action_servers, handles, servers, accepted, arrived>>
    BY DEF HandleResultWaits
  <1> QED BY <1>12, <1>13, <1>14, <1>16, <1>17, <1>18, <1>19, <1>20, GoalStep

(* A cancel request marks the goals it selects. *)
LEMMA HeldSame ==
    ASSUME NEW AS, NEW G, NEW H,
           \A x \in H : \E y \in G : y.action = x.action /\ y.requests = x.requests,
           \A x \in G : \E y \in H : y.action = x.action /\ y.requests = x.requests,
           NEW q
    PROVE  Held(q, AS, G) <=> Held(q, AS, H)
  <1>1. ASSUME NEW A, NEW B,
               \A x \in A : \E y \in B : y.action = x.action /\ y.requests = x.requests,
               Held(q, AS, A)
        PROVE  Held(q, AS, B)
    <2>1. PICK a \in AS, g \in A : /\ a.action = g.action
                                   /\ \E r \in Range(g.requests) : q = Header(a, r)
      BY <1>1, Zenon DEF Held
    <2>2. PICK h \in B : h.action = g.action /\ h.requests = g.requests
      BY <1>1
    <2>3. a.action = h.action /\ \E r \in Range(h.requests) : q = Header(a, r)
      BY <2>1, <2>2
    <2> QED BY <2>3, Zenon DEF Held
  <1> QED BY <1>1, Zenon

Marked(g) == [g EXCEPT !.status = CANCELING]

LEMMA MarkedGoal ==
    ASSUME NEW n, NEW m, NEW g, GoalOK(g, n, m), ~g.done
    PROVE  /\ GoalOK(Marked(g), n, m) /\ From(Marked(g), g)
           /\ Marked(g).action = g.action /\ Marked(g).requests = g.requests
           /\ Marked(g).id = g.id /\ g.status <= Marked(g).status
  <1>1. PICK h : h = Marked(g)
    OBVIOUS
  <1>2. g \in GoalRec /\ h = [g EXCEPT !.status = CANCELING]
    BY <1>1 DEF GoalOK, Marked
  <1>3. /\ h.id = g.id /\ h.action = g.action /\ h.uuid = g.uuid
        /\ h.owner = g.owner /\ h.requests = g.requests
        /\ h.status = CANCELING /\ h \in GoalRec
    BY <1>2 DEF GoalRec
  <1>4. h.done = g.done
    BY <1>2, Zenon DEF GoalRec
  <1>5. CANCELING \notin Terminal
    BY DEF CANCELING, Terminal
  <1>6. GoalOK(h, n, m)
    BY <1>3, <1>4, <1>5, Zenon DEF GoalOK
  <1>7. From(h, g)
    BY <1>3 DEF From
  <1>8. g.status <= h.status
    <2>1. g.status \notin Terminal
      BY Zenon DEF GoalOK
    <2> QED BY <1>2, <1>3, <2>1 DEF GoalRec, EXECUTING, CANCELING, Terminal
  <1> QED BY <1>1, <1>3, <1>6, <1>7, <1>8, Zenon

Marking(G, S, H) ==
    /\ S \subseteq G
    /\ \A g \in S : ~g.done
    /\ H = (G \ S) \cup {Marked(g) : g \in S}

LEMMA MarkGoals ==
    ASSUME NEW G, NEW n, NEW m, GoalsOK(G, n, m),
           NEW S, NEW H, Marking(G, S, H)
    PROVE  /\ GoalsOK(H, n, m)
           /\ \A x \in H : \E y \in G : From(x, y)
           /\ \A x \in H : \E y \in G : y.action = x.action /\ y.requests = x.requests
           /\ \A x \in G : \E y \in H : y.action = x.action /\ y.requests = x.requests
           /\ \A x \in H : \E y \in G : y.id = x.id /\ (y.done => x = y)
           /\ Lives(G, H)
  <1>0. \A g \in G : GoalOK(g, n, m)
    BY DEF GoalsOK
  <1>a. /\ S \subseteq G /\ H = (G \ S) \cup {Marked(g) : g \in S}
        /\ \A g \in S : ~g.done
    BY Zenon DEF Marking
  <1>1. ASSUME NEW g \in S
        PROVE  /\ GoalOK(Marked(g), n, m) /\ From(Marked(g), g)
               /\ Marked(g).action = g.action /\ Marked(g).requests = g.requests
               /\ Marked(g).id = g.id /\ g.status <= Marked(g).status
    <2>1. GoalOK(g, n, m) /\ ~g.done
      BY <1>0, <1>a, Zenon
    <2> QED BY <2>1, MarkedGoal
  <1>2. \A x \in H : x \in G \ S \/ \E g \in S : x = Marked(g)
    BY <1>a
  <1>3. \A x \in H : \E y \in G : From(x, y)
    BY <1>a, <1>1, <1>2, FromSame
  <1>4. \A x \in H : \E y \in G : y.action = x.action /\ y.requests = x.requests
    BY <1>a, <1>1, <1>2
  <1>5. \A x \in G : \E y \in H : y.action = x.action /\ y.requests = x.requests
    BY <1>a, <1>1
  <1>6. \A x \in H : \E y \in G : y.id = x.id /\ (y.done => x = y)
    BY <1>a, <1>1, <1>2, Zenon
  <1>7. \A x \in H : GoalOK(x, n, m)
    BY <1>0, <1>a, <1>1, <1>2
  <1>8. \A x, y \in H : x.id = y.id => x = y
    <2>1. \A x, y \in G : x.id = y.id => x = y
      BY Zenon DEF GoalsOK
    <2> SUFFICES ASSUME NEW x \in H, NEW y \in H, x.id = y.id PROVE x = y
      OBVIOUS
    <2>2. CASE x \in G \ S /\ y \in G \ S
      BY <2>1, <2>2
    <2>3. CASE x \in G \ S /\ \E g \in S : y = Marked(g)
      BY <1>a, <1>1, <2>1, <2>3
    <2>4. CASE y \in G \ S /\ \E g \in S : x = Marked(g)
      BY <1>a, <1>1, <2>1, <2>4
    <2>5. CASE (\E g \in S : x = Marked(g)) /\ \E g \in S : y = Marked(g)
      <3>1. PICK g \in S : x = Marked(g)
        BY <2>5
      <3>2. PICK f \in S : y = Marked(f)
        BY <2>5
      <3>3. g.id = f.id
        BY <1>1, <3>1, <3>2
      <3>4. g = f
        BY <1>a, <2>1, <3>3
      <3> QED BY <3>1, <3>2, <3>4
    <2> QED BY <1>2, <2>2, <2>3, <2>4, <2>5
  <1>9. GoalsOK(H, n, m)
    BY <1>3, <1>7, <1>8, GoalsFrom
  <1>10. Lives(G, H)
    <2>1. \A x \in H : \/ x \in G
                       \/ \E g \in G : x.id = g.id /\ ~g.done /\ g.status <= x.status
      BY <1>a, <1>1, <1>2, Zenon
    <2> QED BY <2>1, LivesFrom, Zenon
  <1> QED BY <1>3, <1>4, <1>5, <1>6, <1>9, <1>10, Zenon

LEMMA CancelStep ==
    ASSUME ActionInv, NEW a, HandleCancel(a)
    PROVE  Kept
  <1>0. /\ ClientsTypeOK /\ Counters
        /\ GoalsOK(server_goals, accepted, arrived)
        /\ Hosted(server_goals, action_servers)
        /\ AnswersOK(answers, torn, server_goals, accepted)
    BY DEF ActionInv
  <1>1. PICK v, U : v = Head(events) /\ U = Tail(events)
    OBVIOUS
  <1>2. PICK kind : Handles(kind, a, v, U)
    BY <1>1, Zenon DEF Handles, HandleCancel
  <1>a. events' = U
    BY <1>2 DEF Handles, Arrives
  <1>3. /\ phase = "events"
        /\ BatchOK(U, "events", action_servers, server_goals, arrived)
        /\ RequestsOK(Consumed, U, action_servers, server_goals)
    BY <1>2, Arriving, Zenon
  <1>4. PICK S : S = {g \in GoalsOf({a}) : Selected(g, v)}
    OBVIOUS
  <1>5. S \subseteq server_goals /\ \A g \in S : ~g.done
    <2>1. S \subseteq server_goals
      BY <1>4 DEF GoalsOf
    <2>2. \A g \in S : ~g.done
      BY <1>4, Zenon DEF Selected
    <2> QED BY <2>1, <2>2
  <1>6. /\ server_goals' = (server_goals \ S) \cup {Marked(g) : g \in S}
        /\ requests' = Consumed
        /\ UNCHANGED <<outputs, seen, phase, action_servers, handles, servers,
                       accepted, arrived, answers, torn>>
    BY <1>1, <1>4 DEF HandleCancel, Marked
  <1>7. ClientsTypeOK'
    <2>1. \/ \E X \in SUBSET {a.owner} : Send(X)
          \/ UNCHANGED <<failed, closed>>
      <3>1. PICK X : X = IF S = {} THEN {} ELSE {a.owner}
        OBVIOUS
      <3>2. X \in SUBSET {a.owner}
        BY <3>1
      <3>3. Send(X) \/ UNCHANGED <<failed, closed>>
        BY <1>1, <1>4, <3>1, Zenon DEF HandleCancel
      <3> QED BY <3>2, <3>3, Zenon
    <2>2. CASE UNCHANGED <<failed, closed>>
      BY <1>0, <1>6, <2>2 DEF ClientsTypeOK
    <2>3. ASSUME NEW X, Send(X) PROVE ClientsTypeOK'
      BY <1>0, <1>6, <2>3, SendClients
    <2> QED BY <2>1, <2>2, <2>3, Zenon
  <1>8. PICK H : H = server_goals'
    OBVIOUS
  <1>9. /\ GoalsOK(H, accepted, arrived)
        /\ \A x \in H : \E y \in server_goals : From(x, y)
        /\ \A x \in H : \E y \in server_goals :
              y.action = x.action /\ y.requests = x.requests
        /\ \A x \in server_goals : \E y \in H :
              y.action = x.action /\ y.requests = x.requests
        /\ \A x \in H : \E y \in server_goals : y.id = x.id /\ (y.done => x = y)
        /\ Lives(server_goals, H)
    <2>1. H = (server_goals \ S) \cup {Marked(g) : g \in S}
      BY <1>6, <1>8
    <2>2. Marking(server_goals, S, H)
      BY <1>5, <2>1, Zenon DEF Marking
    <2> QED BY <1>0, <2>2, MarkGoals, Zenon
  <1>10. Hosted(H, action_servers)
    BY <1>0, <1>9, HostedFrom
  <1>11. BatchOK(U, "events", action_servers, H, arrived)
    BY <1>3, <1>9, BatchFrom
  <1>12. RequestsOK(Consumed, U, action_servers, H)
    <2>1. \A q : Held(q, action_servers, server_goals) <=> Held(q, action_servers, H)
      BY <1>9, HeldSame
    <2> QED BY <1>3, <2>1, Zenon DEF RequestsOK
  <1>13. AnswersOK(answers, torn, H, accepted)
    BY <1>0, <1>9, CountersNat, AnswersSame
  <1>14. /\ BatchOK(events', phase, action_servers, server_goals', arrived)
         /\ GoalsOK(server_goals', accepted, arrived)
         /\ Hosted(server_goals', action_servers)
         /\ RequestsOK(requests', events', action_servers, server_goals')
         /\ AnswersOK(answers', torn', server_goals', accepted)
         /\ Lives(server_goals, server_goals')
    <2>1. answers' = answers /\ torn' = torn
      BY <1>6
    <2> QED BY <1>a, <1>3, <1>6, <1>8, <1>9, <1>10, <1>11, <1>12, <1>13, <2>1,
               Zenon
  <1> QED BY <1>6, <1>7, <1>14, GoalStep

-----------------------------------------------------------------------------
LEMMA InitActions == Init => ActionInv
  <1> SUFFICES ASSUME Init PROVE ActionInv
    OBVIOUS
  <1>1. ClientsTypeOK
    BY DEF Init, ClientsInit, ClientsTypeOK, Phases
  <1>2. Counters
    BY BoundsAssumption DEF Init, Counters
  <1>3. ServersOK(action_servers, handles, servers, outputs)
    BY DEF Init, ServersOK, Gens
  <1>4. GoalsOK(server_goals, accepted, arrived)
    BY DEF Init, GoalsOK
  <1>5. Hosted(server_goals, action_servers)
    BY DEF Init, Hosted
  <1>6. BatchOK(events, phase, action_servers, server_goals, arrived)
    <2>1. events = << >> /\ Len(events) = 0 /\ events \in Seq(EventRec)
      BY DEF Init
    <2> QED BY <2>1 DEF BatchOK
  <1>7. RequestsOK(requests, events, action_servers, server_goals)
    <2>1. Len(events) = 0 /\ requests = {} /\ server_goals = {}
      BY DEF Init
    <2> QED BY <2>1 DEF RequestsOK, InBatch, Held
  <1>8. AnswersOK(answers, torn, server_goals, accepted)
    BY DEF Init, AnswersOK
  <1> QED BY <1>1, <1>2, <1>3, <1>4, <1>5, <1>6, <1>7, <1>8 DEF ActionInv

LEMMA NextActions == ActionInv /\ [Next]_vars => Kept
  <1> SUFFICES ASSUME ActionInv, [Next]_vars PROVE Kept
    OBVIOUS
  <1>1. CASE UNCHANGED vars
    <2>1. UNCHANGED actionVars /\ UNCHANGED clientVars
      BY <1>1 DEF vars
    <2>2. ClientsTypeOK /\ (events = << >> \/ phase \in {"poll", "events"})
      BY DEF ActionInv, BatchOK
    <2>3. /\ ClientsTypeOK' /\ outputs \subseteq outputs'
          /\ phase' \notin {"poll", "events"} => events = << >>
      BY <2>1, <2>2 DEF clientVars, ClientsTypeOK, ActionInv
    <2> QED BY <2>1, <2>3, StayStep
  <1>2. ASSUME NEW c \in Conn,
               \/ ClientConnect(c) /\ UNCHANGED actionVars
               \/ OutputCloses(c) /\ UNCHANGED actionVars
               \/ Client(c)
        PROVE  Kept
    <2>1. CASE \/ ClientConnect(c) /\ UNCHANGED actionVars
               \/ OutputCloses(c) /\ UNCHANGED actionVars
               \/ CommandRefused(c)
      BY <2>1, ClientSteps
    <2>2. ASSUME NEW n \in Action, NEW t \in Type, AdvertiseAction(c, n, t)
          PROVE  Kept
      BY <2>2, AdvertiseStep
    <2>3. ASSUME NEW n, NEW t,
                 AdvertiseActionFails(c, n, t) \/ UnadvertiseAction(c, n)
          PROVE  Kept
      BY <2>3, UnadvertiseSteps
    <2>4. ASSUME NEW g, NEW s \in Terminal, ActionResult(c, g, s) PROVE Kept
      BY <2>4, ResultStep
    <2>5. ASSUME NEW g, NEW s \in Terminal, NEW k, ActionResultTorn(c, g, s, k)
          PROVE  Kept
      BY <2>5, TornStep
    <2>6. CASE Disconnect(c)
      BY <2>6, ReleaseSteps
    <2> QED BY <1>2, <2>1, <2>2, <2>3, <2>4, <2>5, <2>6, Zenon DEF Client
  <1>3. ASSUME NEW h, NEW u \in Uuid \cup {Zero}, NEW s \in 0..accepted,
               TakeRequest(h, u, s)
        PROVE  Kept
    BY <1>3, TakeStep
  <1>4. ASSUME NEW a, Server(a) PROVE Kept
    <2>1. CASE HandleGoal(a)
      BY <2>1, AcceptStep
    <2>2. CASE \/ HandleDuplicateGoal(a) \/ HandleResultReady(a)
               \/ HandleRequestFails(a)
      BY <2>2, DiscardSteps
    <2>3. CASE HandleResultWaits(a)
      BY <2>3, WaitStep
    <2>4. CASE HandleCancel(a)
      BY <2>4, CancelStep
    <2> QED BY <1>4, <2>1, <2>2, <2>3, <2>4, Zenon DEF Server
  <1>5. ASSUME NEW g, ForgetGoal(g) PROVE Kept
    BY <1>5, ForgetStep
  <1>6. CASE StartTick \/ EndPoll \/ EndEvents \/ EndTimers
    BY <1>6, TickSteps
  <1>7. CASE Reap \/ Shutdown
    BY <1>7, ReleaseSteps
  <1>8. CASE WorkerFails
    BY <1>8, FailStep
  <1>9. Next \/ UNCHANGED vars
    BY Zenon
  <1> QED BY <1>1, <1>2, <1>3, <1>4, <1>5, <1>6, <1>7, <1>8, <1>9, Zenon DEF Next

(* The inductive invariant holds, whatever the clients and ROS do, also    *)
(* when answers are rejected and servers replaced or withdrawn.            *)
THEOREM ActionInvariance == Spec => []ActionInv
  <1>1. Init => ActionInv
    BY InitActions
  <1>2. ActionInv /\ [Next]_vars => ActionInv'
    BY NextActions, Zenon DEF Kept
  <1> QED BY <1>1, <1>2, PTL DEF Spec

LEMMA TrackedTypes == ActionInv => TypeOK
  <1> SUFFICES ASSUME ActionInv PROVE TypeOK
    OBVIOUS
  <1>0. /\ ClientsTypeOK /\ Counters
        /\ ServersOK(action_servers, handles, servers, outputs)
        /\ GoalsOK(server_goals, accepted, arrived)
        /\ BatchOK(events, phase, action_servers, server_goals, arrived)
        /\ RequestsOK(requests, events, action_servers, server_goals)
        /\ AnswersOK(answers, torn, server_goals, accepted)
    BY DEF ActionInv
  <1>1. /\ action_servers \subseteq ServerRec
        /\ \A a, b \in action_servers : a.action = b.action => a = b
    BY <1>0, Zenon DEF ServersOK
  <1>2. /\ server_goals \subseteq GoalRec
        /\ \A g, h \in server_goals :
              g.id = h.id \/ (g.action = h.action /\ g.uuid = h.uuid) => g = h
    BY <1>0, Zenon DEF GoalsOK, GoalOK
  <1>3. \A a \in action_servers : a.gen \in Nat
    BY <1>1 DEF ServerRec
  <1>4. handles \subseteq Nat \X Kinds
    <2>1. handles = Gens(action_servers) \X Kinds
      BY <1>0 DEF ServersOK
    <2> QED BY <1>3, <2>1 DEF Gens
  <1>5. events \in Seq(EventRec)
    BY <1>0 DEF BatchOK
  <1>6. requests \subseteq Nat \X Services \X Nat
    <2> SUFFICES ASSUME NEW q \in requests PROVE q \in Nat \X Services \X Nat
      OBVIOUS
    <2>1. InBatch(q, events) \/ Held(q, action_servers, server_goals)
      BY <1>0, Zenon DEF RequestsOK
    <2>2. CASE InBatch(q, events)
      <3>1. PICK i \in 1..Len(events) :
               q = <<events[i].gen, events[i].kind, events[i].request>>
        BY <2>2 DEF InBatch
      <3>2. events[i] \in EventRec
        BY <1>5
      <3> QED BY <3>1, <3>2 DEF EventRec
    <2>3. CASE Held(q, action_servers, server_goals)
      <3>1. PICK a \in action_servers, g \in server_goals :
               \E r \in Range(g.requests) : q = Header(a, r)
        BY <2>3, Zenon DEF Held
      <3>2. PICK r \in Range(g.requests) : q = Header(a, r)
        BY <3>1
      <3>3. r \in Nat
        <4>1. g.requests \in Seq(Nat)
          BY <1>2 DEF GoalRec
        <4> QED BY <4>1 DEF Range
      <3> QED BY <1>3, <3>2, <3>3 DEF Header, Services
    <2> QED BY <2>1, <2>2, <2>3
  <1>7. answers \subseteq Nat \X Terminal /\ torn \subseteq Nat
    <2>1. 1..accepted \subseteq Nat
      OBVIOUS
    <2> QED BY <1>0, <2>1 DEF AnswersOK
  <1> QED BY <1>0, <1>1, <1>2, <1>4, <1>5, <1>6, <1>7, Zenon DEF TypeOK, Counters

LEMMA TrackedRequests == ActionInv => RequestsTracked
  <1> SUFFICES ASSUME ActionInv PROVE RequestsTracked
    OBVIOUS
  <1>0. /\ GoalsOK(server_goals, accepted, arrived)
        /\ BatchOK(events, phase, action_servers, server_goals, arrived)
        /\ RequestsOK(requests, events, action_servers, server_goals)
    BY DEF ActionInv
  <1>1. ASSUME NEW q PROVE q \in Unhandled <=> InBatch(q, events)
    <2>1. DOMAIN events = 1..Len(events)
      BY <1>0 DEF BatchOK
    <2> QED BY <2>1 DEF Unhandled, InBatch, Range
  <1>2. ASSUME NEW q
        PROVE  q \in UNION {Waiting(a) : a \in action_servers}
                 <=> Held(q, action_servers, server_goals)
    <2>1. ASSUME NEW a \in action_servers
          PROVE  q \in Waiting(a) <=>
                    \E g \in server_goals :
                       /\ a.action = g.action
                       /\ \E r \in Range(g.requests) : q = Header(a, r)
      <3>1. GoalsOf({a}) = {g \in server_goals : a.action = g.action}
        BY DEF GoalsOf
      <3> QED BY <3>1 DEF Waiting
    <2>2. q \in UNION {Waiting(a) : a \in action_servers}
            <=> \E a \in action_servers : q \in Waiting(a)
      OBVIOUS
    <2> QED BY <2>1, <2>2, Zenon DEF Held
  <1>3. requests = Unhandled \cup UNION {Waiting(a) : a \in action_servers}
    <2>1. PICK W : W = UNION {Waiting(a) : a \in action_servers}
      OBVIOUS
    <2>2. \A q : q \in requests <=> q \in Unhandled \/ q \in W
      BY <1>0, <1>1, <1>2, <2>1, Zenon DEF RequestsOK
    <2>3. requests = Unhandled \cup W
      BY <2>2
    <2> QED BY <2>1, <2>3
  <1> QED BY <1>0, <1>3, Zenon DEF RequestsTracked, GoalsOK, GoalOK

(* No index of action_servers panics and no request of Ros.requests is     *)
(* leaked or answered twice: servers, their ROS entities, their goals and  *)
(* the requests that wait refer to each other without gaps, for any number *)
(* of each.                                                                *)
THEOREM ServersAreTracked == Spec => []ServersTracked
  <1>1. ActionInv => GoalsHosted
    BY Zenon DEF ActionInv, ServersOK, Hosted, GoalsHosted
  <1>2. ActionInv => ServersTracked
    BY <1>1, TrackedTypes, TrackedRequests DEF ServersTracked
  <1> QED BY <1>2, ActionInvariance, PTL

(* All who ask for the result of a goal, before or after action_result,    *)
(* are told the same, unless ROS rejected one answer of several.           *)
THEOREM ResultsAgree == Spec => []SameResult
  <1>1. ActionInv => SameResult
    BY Zenon DEF ActionInv, AnswersOK, SameResult
  <1> QED BY <1>1, ActionInvariance, PTL

(* A goal's status only goes forward and a terminal one is final, whatever *)
(* cancel requests and action_results come late.                           *)
THEOREM GoalsLive == Spec => GoalLife
  <1> DEFINE Life == \A g \in server_goals, h \in server_goals' :
                        g.id = h.id => /\ g.done => h = g
                                       /\ h.done <=> h.status \in Terminal
                                       /\ h.status >= g.status
  <1>1. ActionInv /\ [Next]_vars => [Life]_vars
    <2> SUFFICES ASSUME ActionInv, [Next]_vars,
                        NEW g \in server_goals, NEW h \in server_goals', g.id = h.id
                 PROVE  /\ g.done => h = g
                        /\ h.done <=> h.status \in Terminal
                        /\ h.status >= g.status
      BY Zenon
    <2>1. ActionInv' /\ Lives(server_goals, server_goals')
      BY NextActions, Zenon DEF Kept
    <2>2. GoalsOK(server_goals', accepted', arrived')
      BY <2>1 DEF ActionInv
    <2>3. GoalsOK(server_goals, accepted, arrived)
      BY DEF ActionInv
    <2>4. h.done <=> h.status \in Terminal
      BY <2>2, Zenon DEF GoalsOK, GoalOK
    <2>5. (g.done => h = g) /\ g.status <= h.status
      BY <2>1, Zenon DEF Lives
    <2>6. g.status \in Nat /\ h.status \in Nat
      <3>1. GoalOK(g, accepted, arrived)
        BY <2>3, Zenon DEF GoalsOK
      <3>2. PICK n, m : n = accepted' /\ m = arrived'
        OBVIOUS
      <3>3. GoalOK(h, n, m)
        BY <2>2, <3>2, Zenon DEF GoalsOK
      <3> QED BY <3>1, <3>3, StatusNat
    <2>7. h.status >= g.status
      BY <2>5, <2>6
    <2> QED BY <2>4, <2>5, <2>7, Zenon
  <1> QED BY <1>1, ActionInvariance, PTL DEF Spec, GoalLife
=============================================================================

---------------------------- MODULE BridgeTopics ----------------------------
(***************************************************************************)
(* Topics of the bridge (src/src/bridge/topics.rs and the delivery step of *)
(* Bridge::tick in bridge/mod.rs).                                         *)
(*                                                                         *)
(* All clients that advertise a topic share one ROS publisher and all that *)
(* subscribe to it one ROS subscription; the entity lives as long as some  *)
(* client holds a registration.  A message is handed to every subscribed   *)
(* client, at once or, when the client's throttle holds it back, through a *)
(* bounded queue that a tick empties one message at a time.  The newest    *)
(* message of a transient-local topic is kept for clients that join later. *)
(*                                                                         *)
(* Types, QoS and payloads are abstracted: a command they make fail is     *)
(* refused.  Messages are numbered in the order the worker takes them.     *)
(* Time is abstracted: a positive throttle may or may not have elapsed.    *)
(***************************************************************************)
EXTENDS BridgeClients, SequencesExt

CONSTANTS
    Topic,              \* topic names
    Id, NoId,           \* registration ids; NoId when the command has none
    Queues,             \* values of queue_length
    MaxPublishers,      \* bound: ROS publishers created
    MaxSubscriptions,   \* bound: ROS subscriptions created
    MaxMessages,        \* bound: messages taken from ROS
    MaxBatch            \* bound: messages taken by one poll

ASSUME QueuesAssumption == Queues \subseteq Nat
ASSUME BoundsAssumption ==
    {MaxPublishers, MaxSubscriptions, MaxMessages, MaxBatch} \subseteq Nat

VARIABLES
    publishers,         \* Bridge.publishers
    subscriptions,      \* Bridge.subscriptions
    pubs, subs,         \* live ROS publishers and subscriptions (Ros.handles)
    events,             \* what poll returned and tick has not handled yet
    advertised,         \* ROS publishers created so far
    subscribed,         \* ROS subscriptions created so far
    taken               \* messages taken so far

topicVars == <<publishers, subscriptions, pubs, subs, events, advertised,
               subscribed, taken>>
vars == <<clientVars, topicVars>>

Ids == Id \cup {NoId}

(* Options: does it throttle at all, and its queue length. *)
Options == [throttled : BOOLEAN, queue : Queues]

(* A HashMap from a subset of K to V. *)
Table(K, V) == UNION {[S -> V] : S \in SUBSET K}

Without(f, S) == Restrict(f, DOMAIN f \ S)

(* HashMap::insert *)
With(f, k, v) == [x \in DOMAIN f \cup {k} |-> IF x = k THEN v ELSE f[x]]

(* A client of a subscription.  registrations maps an id to its options;   *)
(* last is whether anything was delivered yet; sent, the newest message    *)
(* handed to deliver_topic since the client joined, is history.            *)
NewClient == [registrations |-> << >>, last |-> FALSE, pending |-> << >>,
              sent |-> 0]

ClientOK(c) ==
    /\ DOMAIN c.registrations \subseteq Ids
    /\ \A i \in DOMAIN c.registrations : c.registrations[i] \in Options
    /\ c.last \in BOOLEAN
    /\ c.pending \in Seq(1..taken)
    /\ c.sent \in 0..taken

(* The shape of the state. *)
TypeOK ==
    /\ ClientsTypeOK
    /\ DOMAIN publishers \subseteq Topic
    /\ \A t \in DOMAIN publishers :
          /\ publishers[t].entity \in 1..advertised
          /\ publishers[t].owners \in Table(Conn, (SUBSET Ids) \ {{}})
    /\ DOMAIN subscriptions \subseteq Topic
    /\ \A t \in DOMAIN subscriptions :
          /\ subscriptions[t].entity \in 1..subscribed
          /\ subscriptions[t].transient_local \in BOOLEAN
          /\ subscriptions[t].retained \in 0..taken
          /\ DOMAIN subscriptions[t].clients \subseteq Conn
          /\ \A c \in DOMAIN subscriptions[t].clients :
                ClientOK(subscriptions[t].clients[c])
    /\ pubs \subseteq 1..advertised
    /\ subs \subseteq 1..subscribed
    /\ events \in Seq([entity : 1..subscribed, message : 1..taken])
    /\ advertised \in 0..MaxPublishers
    /\ subscribed \in 0..MaxSubscriptions
    /\ taken \in 0..MaxMessages

Init ==
    /\ ClientsInit
    /\ publishers = << >>
    /\ subscriptions = << >>
    /\ pubs = {}
    /\ subs = {}
    /\ events = << >>
    /\ advertised = 0
    /\ subscribed = 0
    /\ taken = 0

-----------------------------------------------------------------------------
(* Publishers.  Bridge::advertise: the first registration creates the ROS  *)
(* publisher, later ones only register.                                    *)
Register(c, t, i) ==
    IF t \in DOMAIN publishers
    THEN LET old == publishers[t].owners
             ids == IF c \in DOMAIN old THEN old[c] ELSE {}
         IN  /\ publishers' = [publishers EXCEPT ![t].owners =
                                 With(old, c, ids \cup {i})]
             /\ UNCHANGED <<pubs, advertised>>
    ELSE /\ advertised < MaxPublishers
         /\ advertised' = advertised + 1
         /\ pubs' = pubs \cup {advertised'}
         /\ publishers' = With(publishers, t, [entity |-> advertised',
                                                owners |-> [x \in {c} |-> {i}]])

Advertise(c, t, i) ==
    /\ Commands(c)
    /\ Register(c, t, i)
    /\ UNCHANGED <<clientVars, subscriptions, subs, events, subscribed, taken>>

(* "publish" registers like advertise, with the id of the publish command. *)
(* When ROS then takes the message that is all it changes (Advertise);     *)
(* when ROS rejects it, the registration stays.                            *)
PublishFails(c, t, i) ==
    /\ Commands(c)
    /\ Register(c, t, i)
    /\ Send({c})
    /\ UNCHANGED <<outputs, seen, phase, subscriptions, subs, events,
                   subscribed, taken>>

KeepPublishersLeaks(table) ==                   \* mutant
    /\ publishers' = RestrictValues(table, LAMBDA p : DOMAIN p.owners # {})
    /\ UNCHANGED pubs

(* The end of Bridge::unadvertise: a publisher nobody owns is destroyed. *)
KeepPublishers(table) ==
    LET Unowned == {t \in DOMAIN table : DOMAIN table[t].owners = {}}
    IN  /\ publishers' = Without(table, Unowned)
        /\ pubs' = pubs \ {table[t].entity : t \in Unowned}

(* The owners when c has only the registrations left. *)
Registered(owners, c, left) ==
    IF left = {} THEN Without(owners, {c}) ELSE [owners EXCEPT ![c] = left]

(* Without an id every registration of the client goes. *)
Unadvertise(c, t, i) ==
    /\ Commands(c)
    /\ t \in DOMAIN publishers
    /\ c \in DOMAIN publishers[t].owners
    /\ i # NoId => i \in publishers[t].owners[c]
    /\ LET old == publishers[t].owners
           left == IF i = NoId THEN {} ELSE old[c] \ {i}
       IN  KeepPublishers([publishers EXCEPT ![t].owners =
                             Registered(old, c, left)])
    /\ UNCHANGED <<clientVars, subscriptions, subs, events, advertised,
                   subscribed, taken>>

-----------------------------------------------------------------------------
(* Subscriptions. *)

(* ClientSubscription::options: the least throttle and the least queue.    *)
Throttled(k) ==
    \A i \in DOMAIN k.registrations : k.registrations[i].throttled

Queue(k) == Min({k.registrations[i].queue : i \in DOMAIN k.registrations})

(* The throttle of k may hold a message back.                              *)
MayHold(k) == k.last /\ Throttled(k)

(* k after a message is handed to deliver_topic. *)
Hand(k, m) == [k EXCEPT !.last = TRUE, !.sent = m]

(* subscribe of c gets the retained message of subscription s. *)
ReplaysNever(s, c) == FALSE                     \* mutant

Replays(s, c) == c \notin DOMAIN s.clients /\ s.retained # 0

(* Bridge::subscribe.  A client that joins gets the retained message, an   *)
(* existing one only adds or replaces a registration.                      *)
Subscribe(c, t, i, o) ==
    /\ Commands(c)
    /\ \E local \in BOOLEAN :
          LET fresh == [entity |-> subscribed + 1, transient_local |-> local,
                        retained |-> 0, clients |-> << >>]
              s == IF t \in DOMAIN subscriptions THEN subscriptions[t]
                   ELSE fresh
              old == IF c \in DOMAIN s.clients THEN s.clients[c]
                     ELSE NewClient
              registered == [old EXCEPT !.registrations = With(@, i, o)]
              new == IF Replays(s, c) THEN Hand(registered, s.retained)
                     ELSE registered
          IN  /\ IF t \in DOMAIN subscriptions
                 THEN /\ local = s.transient_local
                      /\ UNCHANGED <<subs, subscribed>>
                 ELSE /\ subscribed < MaxSubscriptions
                      /\ subscribed' = subscribed + 1
                      /\ subs' = subs \cup {subscribed'}
              /\ subscriptions' = With(subscriptions, t,
                                       [s EXCEPT !.clients = With(@, c, new)])
              /\ SendTopic(IF Replays(s, c) THEN {c} ELSE {})
    /\ UNCHANGED <<outputs, seen, phase, publishers, pubs, events, advertised,
                   taken>>

(* The end of Bridge::unsubscribe: a subscription nobody uses is destroyed.*)
KeepSubscriptions(table) ==
    LET Unused == {t \in DOMAIN table : DOMAIN table[t].clients = {}}
    IN  /\ subscriptions' = Without(table, Unused)
        /\ subs' = subs \ {table[t].entity : t \in Unused}

Unsubscribe(c, t, i) ==
    /\ Commands(c)
    /\ t \in DOMAIN subscriptions
    /\ c \in DOMAIN subscriptions[t].clients
    /\ i # NoId => i \in DOMAIN subscriptions[t].clients[c].registrations
    /\ LET old == subscriptions[t].clients
           left == IF i = NoId THEN << >>
                   ELSE Without(old[c].registrations, {i})
           new == IF DOMAIN left = {} THEN Without(old, {c})
                  ELSE [old EXCEPT ![c].registrations = left]
       IN  KeepSubscriptions([subscriptions EXCEPT ![t].clients = new])
    /\ UNCHANGED <<clientVars, publishers, pubs, events, advertised,
                   subscribed, taken>>

(* Any command that ends in an error: a status message. *)
CommandRefused(c) ==
    /\ Commands(c)
    /\ Send({c})
    /\ UNCHANGED <<outputs, seen, phase, topicVars>>

-----------------------------------------------------------------------------
(* Bridge::tick: poll, *)
StartTick ==
    /\ Advance("commands", "poll")
    /\ UNCHANGED <<outputs, failed, closed, seen, topicVars>>

TakeMessage(e) ==
    /\ phase = "poll"
    /\ e \in subs
    /\ Len(events) < MaxBatch
    /\ taken < MaxMessages
    /\ taken' = taken + 1
    /\ events' = Append(events, [entity |-> e, message |-> taken'])
    /\ UNCHANGED <<clientVars, publishers, subscriptions, pubs, subs,
                   advertised, subscribed>>

EndPoll ==
    /\ Advance("poll", "events")
    /\ UNCHANGED <<outputs, failed, closed, seen, topicVars>>

(* handle the messages: Bridge::topic_message hands a message to a client  *)
(* if nothing waits before it and the throttle allows, and queues it       *)
(* otherwise, at the expense of the oldest that wait;                      *)
EnqueueOffByOne(k, m) ==                        \* mutant
    LET q == Queue(k)
        n == Len(k.pending)
        room == IF n <= q THEN k.pending
                ELSE SubSeq(k.pending, n - q + 1, n)
    IN  IF q = 0 THEN k ELSE [k EXCEPT !.pending = Append(room, m)]
Enqueue(k, m) ==
    LET q == Queue(k)
        n == Len(k.pending)
        room == IF n < q THEN k.pending
                ELSE SubSeq(k.pending, n - q + 2, n)
    IN  IF q = 0 THEN k ELSE [k EXCEPT !.pending = Append(room, m)]

OvertakesPending(k) == TRUE                     \* mutant

NothingWaits(k) == k.pending = << >>

(* Client k gets message m; hold if its throttle has not elapsed. *)
Receive(k, hold, m) ==
    IF NothingWaits(k) /\ ~hold THEN Hand(k, m) ELSE Enqueue(k, m)

(* Subscription s gets message m; held are the clients that hold it back.  *)
Received(s, held, m) ==
    [s EXCEPT !.retained = IF s.transient_local THEN m ELSE @,
              !.clients = [c \in DOMAIN @ |-> Receive(@[c], c \in held, m)]]

HandleMessage ==
    /\ phase = "events"
    /\ events # << >>
    /\ events' = Tail(events)
    /\ LET m == Head(events).message
           found == {t \in DOMAIN subscriptions :
                       subscriptions[t].entity = Head(events).entity}
           all == UNION {DOMAIN subscriptions[t].clients : t \in found}
       IN  \E held \in SUBSET all :
             /\ \A t \in found : \A c \in held :
                   MayHold(subscriptions[t].clients[c])
             /\ subscriptions' = [t \in DOMAIN subscriptions |->
                  IF t \in found THEN Received(subscriptions[t], held, m)
                  ELSE subscriptions[t]]
             /\ SendTopic({c \in all \ held : \A t \in found :
                             NothingWaits(subscriptions[t].clients[c])})
    /\ UNCHANGED <<outputs, seen, phase, publishers, pubs, subs, advertised,
                   subscribed, taken>>

(* then hand over at most one waiting message per client. *)
ClientsWhere(Test(_)) ==
    {x \in (DOMAIN subscriptions) \X Conn :
        /\ x[2] \in DOMAIN subscriptions[x[1]].clients
        /\ Test(subscriptions[x[1]].clients[x[2]])}

WaitingWithQueue ==                             \* mutant
    ClientsWhere(LAMBDA k : k.pending # << >> /\ Queue(k) > 0)

Waiting == ClientsWhere(LAMBDA k : k.pending # << >>)

(* Client k gets what waits longest. *)
Deliver(k) == [Hand(k, Head(k.pending)) EXCEPT !.pending = Tail(@)]

DeliverPending ==
    /\ events = << >>
    /\ Advance("events", "reap")
    /\ \E held \in SUBSET Waiting :
          /\ \A x \in held : MayHold(subscriptions[x[1]].clients[x[2]])
          /\ subscriptions' = [t \in DOMAIN subscriptions |->
               [subscriptions[t] EXCEPT !.clients = [c \in DOMAIN @ |->
                  IF <<t, c>> \in Waiting \ held THEN Deliver(@[c]) ELSE @[c]]]]
          /\ SendTopic({x[2] : x \in Waiting \ held})
    /\ UNCHANGED <<outputs, seen, publishers, pubs, subs, events, advertised,
                   subscribed, taken>>

(* Bridge::disconnect of every client in D. *)
Release(D) ==
    /\ outputs' = outputs \ D
    /\ KeepPublishers([t \in DOMAIN publishers |->
          [publishers[t] EXCEPT !.owners = Without(@, D)]])
    /\ KeepSubscriptions([t \in DOMAIN subscriptions |->
          [subscriptions[t] EXCEPT !.clients = Without(@, D)]])

Reap ==
    /\ Advance("reap", "commands")
    /\ Release(Reaped)
    /\ failed' = {}
    /\ UNCHANGED <<closed, seen, events, advertised, subscribed, taken>>

(* Command::Disconnect, when the session has ended. *)
Disconnect(c) ==
    /\ phase = "commands"
    /\ c \in seen
    /\ Release({c})
    /\ UNCHANGED <<failed, closed, seen, phase, events, advertised,
                   subscribed, taken>>

(* Command::Shutdown: Bridge::shutdown. *)
Shutdown ==
    /\ Advance("commands", "stopped")
    /\ Release(outputs)
    /\ UNCHANGED <<failed, closed, seen, events, advertised, subscribed, taken>>

(* Backend::wait or Backend::poll fails: the worker returns the error and  *)
(* drops the bridge with all its tables and ROS handles.                   *)
WorkerFails ==
    /\ phase \in {"commands", "poll"}
    /\ phase' = "broken"
    /\ outputs' = {}
    /\ publishers' = << >> /\ subscriptions' = << >>
    /\ pubs' = {} /\ subs' = {}
    /\ events' = << >>
    /\ UNCHANGED <<failed, closed, seen, advertised, subscribed, taken>>

Tick ==
    \/ StartTick \/ EndPoll \/ HandleMessage \/ DeliverPending \/ Reap

Next ==
    \/ \E c \in Conn :
          \/ ClientConnect(c) /\ UNCHANGED topicVars
          \/ OutputCloses(c) /\ UNCHANGED topicVars
          \/ CommandRefused(c)
          \/ Disconnect(c)
          \/ \E t \in Topic, i \in Ids :
                \/ Advertise(c, t, i)
                \/ PublishFails(c, t, i)
                \/ Unadvertise(c, t, i)
                \/ Unsubscribe(c, t, i)
                \/ \E o \in Options : Subscribe(c, t, i, o)
    \/ \E e \in subs : TakeMessage(e)
    \/ Tick
    \/ Shutdown
    \/ WorkerFails

Spec == Init /\ [][Next]_vars

(* The worker never stops ticking, and a throttle elapses: a client that   *)
(* has something waiting in tick after tick is handed it in one of them.   *)
Delivers(t, c) ==
    /\ <<t, c>> \in Waiting
    /\ DeliverPending
    /\ subscriptions'[t].clients[c].pending # subscriptions[t].clients[c].pending

FairSpec ==
    /\ Spec
    /\ WF_vars(Tick)
    /\ \A t \in Topic, c \in Conn : SF_vars(Delivers(t, c))

-----------------------------------------------------------------------------
(* Properties. *)

(* The shared ROS entities live exactly as long as a connected client is    *)
(* registered: the live publishers and subscriptions are those of the      *)
(* tables, one per topic, and each is held by at least one registration.   *)
(* Only connected clients hold any: a disconnect, a failed send or a       *)
(* shutdown leaves nothing behind, whatever commands were still queued.    *)
SharedEntities ==
    /\ TypeOK
    /\ pubs = {publishers[t].entity : t \in DOMAIN publishers}
    /\ subs = {subscriptions[t].entity : t \in DOMAIN subscriptions}
    /\ Cardinality(pubs) = Cardinality(DOMAIN publishers)
    /\ Cardinality(subs) = Cardinality(DOMAIN subscriptions)
    /\ \A t \in DOMAIN publishers :
          DOMAIN publishers[t].owners \in (SUBSET outputs) \ {{}}
    /\ \A t \in DOMAIN subscriptions :
          /\ DOMAIN subscriptions[t].clients \in (SUBSET outputs) \ {{}}
          /\ \A c \in DOMAIN subscriptions[t].clients :
                DOMAIN subscriptions[t].clients[c].registrations # {}

(* A client gets the messages of a topic in the order ROS delivered them   *)
(* and none twice, through direct delivery, the throttle queue, replays of *)
(* the retained message and changes of its registrations.                  *)
InOrder ==
    \A t \in DOMAIN subscriptions : \A c \in DOMAIN subscriptions[t].clients :
        LET k == subscriptions[t].clients[c]
            line == <<k.sent>> \o k.pending
        IN  \A i, j \in 1..Len(line) : i < j => line[i] < line[j]

(* A client of a transient-local topic never waits for a first message     *)
(* that the bridge has: once a message is retained, every client, however  *)
(* late it joined, has been handed one, and none is newer than the one     *)
(* retained for the next to join.                                          *)
LateJoiner ==
    \A t \in DOMAIN subscriptions : \A c \in DOMAIN subscriptions[t].clients :
        LET s == subscriptions[t]
            k == s.clients[c]
        IN  s.transient_local =>
              /\ s.retained # 0 => k.sent # 0
              /\ Max({k.sent} \cup Range(k.pending)) <= s.retained

(* A throttled client's queue never grows past the shortest queue_length   *)
(* it asked for, also when registrations come and go while messages wait.  *)
QueueBounded ==
    [][\A x \in ClientsWhere(LAMBDA k : TRUE) :
          LET old == subscriptions[x[1]].clients[x[2]]
              new == subscriptions'[x[1]].clients[x[2]]
          IN  /\ x[1] \in DOMAIN subscriptions'
              /\ x[2] \in DOMAIN subscriptions'[x[1]].clients
              => Len(new.pending) <= Max({Len(old.pending), Queue(old)})]_vars

(* A message that waits for its client's throttle does not wait for ever:  *)
(* it is handed over, displaced by newer ones, or its client is gone.      *)
PendingDrains ==
    \A t \in Topic, c \in Conn :
        LET behind == /\ t \in DOMAIN subscriptions
                      /\ c \in DOMAIN subscriptions[t].clients
                      /\ subscriptions[t].clients[c].pending # << >>
        IN  behind ~> ~behind
=============================================================================

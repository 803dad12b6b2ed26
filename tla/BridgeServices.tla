--------------------------- MODULE BridgeServices ---------------------------
(***************************************************************************)
(* Services of the bridge (src/src/bridge/services.rs, the call and        *)
(* request tables of bridge/mod.rs, and the handle and request tables of   *)
(* src/src/ros/mod.rs they must agree with).                               *)
(*                                                                         *)
(* Calls go from a WebSocket client to ROS: each has a ROS client of its   *)
(* own, and is answered by the ROS response, by a timeout or by an error.  *)
(* Requests go from ROS to a WebSocket client that advertises a service:   *)
(* each is kept in Bridge.external until the client answers, the request   *)
(* expires or the service goes away.                                       *)
(*                                                                         *)
(* Time is abstracted: a deadline may pass whenever the timers run.        *)
(***************************************************************************)
EXTENDS BridgeClients, SequencesExt

CONSTANTS
    Service,            \* service names
    Type,               \* service types
    NoService,          \* a name nobody advertises
    MaxCalls,           \* bound: call_service commands
    MaxAdverts,         \* bound: service entities created
    MaxRequests,        \* bound: requests that arrive from ROS
    MaxBatch            \* bound: events taken by one poll

VARIABLES
    services,           \* Bridge.services
    calls,              \* Bridge.calls: [entity, owner]
    external,           \* Bridge.external: [name, n, owner, entity, request]
    clients,            \* live ROS clients (Ros.handles)
    servers,            \* live ROS services (Ros.handles)
    requests,           \* Ros.requests: <<entity, request>>
    events,             \* what poll returned and tick has not handled yet
    adverts,            \* service entities created so far
    arrived,            \* requests taken from ROS so far
    (* History.  The n-th call_service command uses ROS client n. *)
    asker,              \* asker[n]: who issued call n
    replies,            \* replies[n]: service_response messages for call n
    told,               \* the requests forwarded so far, as call_service messages
    answers             \* [asked, given]: a response meant for request asked
                        \* that ROS was given for request given

answerVars == <<told, answers>>
serviceVars == <<services, calls, external, clients, servers, requests,
                 events, adverts, arrived, asker, replies, answerVars>>
vars == <<clientVars, serviceVars>>

asked == Len(asker)

ServiceRec == [owner : Conn, entity : Nat, typ : Type, next : Nat]
CallRec == [entity : Nat, owner : Conn]
ExternalRec == [name : Service, n : Nat, owner : Conn, entity : Nat,
                request : Nat]
EventRec == [kind : {"response", "request"}, entity : Nat, request : Nat]

ASSUME NoServiceAssumption == NoService \notin ServiceRec
ASSUME MaxCallsAssumption == MaxCalls \in Nat

(* The shape of the state. *)
TypeOK ==
    /\ ClientsTypeOK
    /\ services \in [Service -> ServiceRec \cup {NoService}]
    /\ calls \subseteq CallRec
    /\ external \subseteq ExternalRec
    /\ clients \subseteq Nat
    /\ servers \subseteq Nat
    /\ requests \subseteq Nat \X Nat
    /\ events \in Seq(EventRec)
    /\ adverts \in Nat
    /\ arrived \in Nat
    /\ asker \in Seq(Conn)
    /\ replies \in [1..MaxCalls -> 0..1]
    /\ told \subseteq ExternalRec
    /\ answers \subseteq [asked : ExternalRec, given : ExternalRec]

Init ==
    /\ ClientsInit
    /\ services = [n \in Service |-> NoService]
    /\ calls = {}
    /\ external = {}
    /\ clients = {}
    /\ servers = {}
    /\ requests = {}
    /\ events = << >>
    /\ adverts = 0
    /\ arrived = 0
    /\ asker = << >>
    /\ replies = [n \in 1..MaxCalls |-> 0]
    /\ told = {}
    /\ answers = {}

(* A command that ends in an error is answered with a status message. *)
Refuse(c) ==
    /\ Send({c})
    /\ UNCHANGED <<outputs, seen, phase, serviceVars>>

-----------------------------------------------------------------------------
(* Bridge::call_service.  A call that is refused, that finds no type or    *)
(* whose request cannot be sent leaves no ROS client behind and is         *)
(* answered at once (Bridge::error).                                       *)
CallService(c) ==
    /\ Commands(c)
    /\ asked < MaxCalls
    /\ asker' = Append(asker, c)
    /\ calls' = calls \cup {[entity |-> asked + 1, owner |-> c]}
    /\ clients' = clients \cup {asked + 1}
    /\ UNCHANGED <<clientVars, services, external, servers, requests,
                   events, adverts, arrived, replies, answerVars>>

CallServiceFails(c) ==
    /\ Commands(c)
    /\ asked < MaxCalls
    /\ asker' = Append(asker, c)
    /\ replies' = [replies EXCEPT ![asked + 1] = @ + 1]
    /\ Send({c})
    /\ UNCHANGED <<outputs, seen, phase, services, calls, external, clients,
                   servers, requests, events, adverts, arrived,
                   answerVars>>

(* The ROS entities of the services in N. *)
Gone(N) == {services[n].entity : n \in N}

(* What Bridge::remove_service of the services in N leaves.  Destroying    *)
(* the ROS service also forgets its unanswered requests (Ros::destroy).    *)
RequestsWithout(N) == {q \in requests : q[1] \notin Gone(N)}
ExternalWithout(N) == {x \in external : x.entity \notin Gone(N)}

RemoveServices(N) ==
    /\ servers' = servers \ Gone(N)
    /\ requests' = RequestsWithout(N)
    /\ external' = ExternalWithout(N)

Owned(D) == {n \in Service : services[n] # NoService /\ services[n].owner \in D}

(* Bridge::advertise_service.  The same type again changes nothing; another*)
(* type replaces the service, and if the new one cannot be created the old *)
(* one is gone all the same.                                               *)
AdvertiseService(c, n, t) ==
    /\ Commands(c)
    /\ adverts < MaxAdverts
    /\ services[n] # NoService =>
          services[n].owner = c /\ services[n].typ # t
    /\ LET e == adverts + 1
           old == IF services[n] = NoService THEN {} ELSE {n}
       IN  /\ services' = [services EXCEPT ![n] =
                             [owner |-> c, entity |-> e, typ |-> t, next |-> 0]]
           /\ servers' = (servers \ Gone(old)) \cup {e}
           /\ requests' = RequestsWithout(old)
           /\ external' = ExternalWithout(old)
           /\ adverts' = e
    /\ UNCHANGED <<clientVars, calls, clients, events, arrived, asker,
                   replies, answerVars>>

AdvertiseServiceFails(c, n, t) ==
    /\ Commands(c)
    /\ services[n] # NoService
    /\ services[n].owner = c
    /\ services[n].typ # t
    /\ services' = [services EXCEPT ![n] = NoService]
    /\ RemoveServices({n})
    /\ Send({c})
    /\ UNCHANGED <<outputs, seen, phase, calls, clients, events, adverts,
                   arrived, asker, replies, answerVars>>

UnadvertiseService(c, n) ==
    /\ Commands(c)
    /\ n \in Owned({c})
    /\ services' = [services EXCEPT ![n] = NoService]
    /\ RemoveServices({n})
    /\ UNCHANGED <<clientVars, calls, clients, events, adverts, arrived,
                   asker, replies, answerVars>>

FoundOfAnyOwner(c, k) ==                        \* mutant
    {x \in external : x.name = k.name /\ x.n = k.n}

(* The pending request that a response of c to message k names: the        *)
(* response carries the name and the identifier, and only the owner of the *)
(* request may answer.                                                     *)
FoundByOwner(c, k) ==
    {x \in external : x.name = k.name /\ x.n = k.n /\ x.owner = c}

(* Bridge::service_response.  The client may answer any request it was     *)
(* ever told of, however late or often.  A response ROS rejects leaves the *)
(* request pending.                                                        *)
ServiceResponse(c, k) ==
    /\ Commands(c)
    /\ k.owner = c
    /\ \E x \in FoundByOwner(c, k) :
          /\ x.entity \in servers
          /\ <<x.entity, x.request>> \in requests
          /\ requests' = requests \ {<<x.entity, x.request>>}
          /\ external' = external \ {x}
          /\ answers' = answers \cup {[asked |-> k, given |-> x]}
    /\ UNCHANGED <<clientVars, services, calls, clients, servers, events,
                   adverts, arrived, asker, replies, told>>

(* Every other outcome of the commands above: another client's service, an *)
(* unknown id, an error result, a response ROS rejects.                    *)
CommandRefused(c) ==
    /\ Commands(c)
    /\ Refuse(c)

-----------------------------------------------------------------------------
(* Bridge::tick: Backend::poll takes responses and requests ... *)
StartTick ==
    /\ Advance("commands", "poll")
    /\ UNCHANGED <<outputs, failed, closed, seen, serviceVars>>

TakeResponse(e) ==
    /\ phase = "poll"
    /\ e \in clients
    /\ Len(events) < MaxBatch
    /\ events' = Append(events, [kind |-> "response", entity |-> e,
                                 request |-> 0])
    /\ UNCHANGED <<clientVars, services, calls, external, clients, servers,
                   requests, adverts, arrived, asker, replies,
                   answerVars>>

TakeRequest(e) ==
    /\ phase = "poll"
    /\ e \in servers
    /\ Len(events) < MaxBatch
    /\ arrived < MaxRequests
    /\ arrived' = arrived + 1
    /\ requests' = requests \cup {<<e, arrived + 1>>}
    /\ events' = Append(events, [kind |-> "request", entity |-> e,
                                 request |-> arrived + 1])
    /\ UNCHANGED <<clientVars, services, calls, external, clients, servers,
                   adverts, asker, replies, answerVars>>

EndPoll ==
    /\ Advance("poll", "events")
    /\ UNCHANGED <<outputs, failed, closed, seen, serviceVars>>

(* The calls in S get a service_response each. *)
Answer(S) ==
    [n \in 1..MaxCalls |->
        IF \E x \in S : x.entity = n THEN replies[n] + 1 ELSE replies[n]]

(* They leave Bridge.calls and their ROS clients are destroyed. *)
SettleSilently(S) ==                            \* mutant
    /\ calls' = calls \ S
    /\ clients' = clients \ {x.entity : x \in S}
    /\ UNCHANGED replies

Settle(S) ==
    /\ calls' = calls \ S
    /\ clients' = clients \ {x.entity : x \in S}
    /\ replies' = Answer(S)

(* ... which are handled one by one.  Bridge::response: a response to a    *)
(* call that is gone is ignored.                                           *)
HandleResponse ==
    /\ phase = "events"
    /\ events # << >>
    /\ Head(events).kind = "response"
    /\ events' = Tail(events)
    /\ LET found == {x \in calls : x.entity = Head(events).entity}
       IN  /\ Settle(found)
           /\ Send({x.owner : x \in found})
    /\ UNCHANGED <<outputs, seen, phase, services, external, servers,
                   requests, adverts, arrived, asker, answerVars>>

(* Bridge::service_request: the request gets the next identifier of its    *)
(* service, replaces a pending request with that identifier and is         *)
(* forwarded to the owner.  A request for no service stays in Ros.requests.*)
HandleRequest ==
    /\ phase = "events"
    /\ events # << >>
    /\ Head(events).kind = "request"
    /\ events' = Tail(events)
    /\ LET found == {n \in Service :
                       /\ services[n] # NoService
                       /\ services[n].entity = Head(events).entity}
           new(n) == [name |-> n, n |-> services[n].next + 1,
                      owner |-> services[n].owner,
                      entity |-> services[n].entity,
                      request |-> Head(events).request]
       IN  /\ services' = [n \in Service |->
                             IF n \in found
                             THEN [services[n] EXCEPT !.next = @ + 1]
                             ELSE services[n]]
           /\ external' = {x \in external : \A n \in found :
                              x.name # n \/ x.n # services[n].next + 1}
                           \cup {new(n) : n \in found}
           /\ told' = told \cup {new(n) : n \in found}
           /\ Send({services[n].owner : n \in found})
    /\ UNCHANGED <<outputs, seen, phase, calls, clients, servers, requests,
                   adverts, arrived, asker, replies, answers>>

EndEvents ==
    /\ events = << >>
    /\ Advance("events", "timers")
    /\ UNCHANGED <<outputs, failed, closed, seen, serviceVars>>

(* Calls and requests whose deadline has passed. *)
ExpireCall(x) ==
    /\ phase = "timers"
    /\ x \in calls
    /\ Settle({x})
    /\ Send({x.owner})
    /\ UNCHANGED <<outputs, seen, phase, services, external, servers,
                   requests, events, adverts, arrived, asker,
                   answerVars>>

ExpireExternal(x) ==
    /\ phase = "timers"
    /\ x \in external
    /\ external' = external \ {x}
    /\ requests' = requests \ {<<x.entity, x.request>>}
    /\ UNCHANGED <<clientVars, services, calls, clients, servers, events,
                   adverts, arrived, asker, replies, answerVars>>

EndTimers ==
    /\ Advance("timers", "reap")
    /\ UNCHANGED <<outputs, failed, closed, seen, serviceVars>>

(* Bridge::disconnect of every client in D. *)
ReleaseServices(D) ==
    /\ outputs' = outputs \ D
    /\ services' = [n \in Service |-> IF n \in Owned(D) THEN NoService
                                      ELSE services[n]]
    /\ servers' = servers \ Gone(Owned(D))
    /\ requests' = RequestsWithout(Owned(D))
    /\ external' = {x \in ExternalWithout(Owned(D)) : x.owner \notin D}

ReleaseKeepsCalls(D) ==                         \* mutant
    /\ ReleaseServices(D)
    /\ UNCHANGED <<calls, clients>>

Release(D) ==
    /\ ReleaseServices(D)
    /\ calls' = {x \in calls : x.owner \notin D}
    /\ clients' = clients \ {x.entity : x \in {y \in calls : y.owner \in D}}

Reap ==
    /\ Advance("reap", "commands")
    /\ Release(Reaped)
    /\ failed' = {}
    /\ UNCHANGED <<closed, seen, events, adverts, arrived, asker, replies,
                   answerVars>>

(* Command::Disconnect, when the session has ended. *)
Disconnect(c) ==
    /\ phase = "commands"
    /\ c \in seen
    /\ Release({c})
    /\ UNCHANGED <<failed, closed, seen, phase, events, adverts, arrived,
                   asker, replies, answerVars>>

(* Command::Shutdown: Bridge::shutdown. *)
Shutdown ==
    /\ Advance("commands", "stopped")
    /\ Release(outputs)
    /\ UNCHANGED <<failed, closed, seen, events, adverts, arrived, asker,
                   replies, answerVars>>

(* Backend::wait or Backend::poll fails: the worker returns the error and  *)
(* drops the bridge with all its tables and ROS handles.                   *)
WorkerFails ==
    /\ phase \in {"commands", "poll"}
    /\ phase' = "broken"
    /\ outputs' = {}
    /\ services' = [n \in Service |-> NoService]
    /\ calls' = {} /\ external' = {} /\ requests' = {}
    /\ clients' = {} /\ servers' = {}
    /\ events' = << >>
    /\ UNCHANGED <<failed, closed, seen, adverts, arrived, asker, replies,
                   answerVars>>

Tick ==
    \/ StartTick \/ EndPoll \/ EndEvents \/ EndTimers \/ Reap
    \/ HandleResponse \/ HandleRequest

Client(c) ==
    \/ CallService(c) \/ CallServiceFails(c)
    \/ \E n \in Service :
          \/ \E t \in Type : \/ AdvertiseService(c, n, t)
                             \/ AdvertiseServiceFails(c, n, t)
          \/ UnadvertiseService(c, n)
    \/ \E k \in told : ServiceResponse(c, k)
    \/ CommandRefused(c)

Next ==
    \/ \E c \in Conn :
          \/ ClientConnect(c) /\ UNCHANGED serviceVars
          \/ OutputCloses(c) /\ UNCHANGED serviceVars
          \/ Client(c)
          \/ Disconnect(c)
    \/ \E e \in clients : TakeResponse(e)
    \/ \E e \in servers : TakeRequest(e)
    \/ \E x \in calls : ExpireCall(x)
    \/ \E x \in external : ExpireExternal(x)
    \/ Tick
    \/ Shutdown
    \/ WorkerFails

Spec == Init /\ [][Next]_vars

(* The worker never stops ticking, and time passes: a call that stays      *)
(* through infinitely many runs of the timers is overdue in one of them.   *)
FairSpec ==
    /\ Spec
    /\ WF_vars(Tick)
    /\ \A n \in 1..MaxCalls :
          SF_vars(\E x \in calls : x.entity = n /\ ExpireCall(x))

-----------------------------------------------------------------------------
(* Properties. *)

(* Every table entry belongs to a client that is still connected: after a  *)
(* disconnect, a failed send or a shutdown, no service, call or forwarded  *)
(* request of that client is left in Bridge.services, calls or external.   *)
NoOrphans ==
    /\ \A n \in Service :
          services[n] # NoService => services[n].owner \in outputs
    /\ \A x \in calls \cup external : x.owner \in outputs

(* The ROS handles are exactly those the tables refer to: each pending     *)
(* call has a live ROS client and each advertised service a live ROS       *)
(* service of its own, and no other handle of either kind is left alive.   *)
HandlesOwned ==
    /\ clients = {x.entity : x \in calls}
    /\ servers = Gone({n \in Service : services[n] # NoService})
    /\ \A x, y \in calls : x.entity = y.entity => x = y
    /\ \A n, m \in Service :
          /\ services[n] # NoService
          /\ services[m] # NoService
          /\ services[n].entity = services[m].entity
          => n = m

(* Whoever is gone owns nothing, in the bridge's tables or in ROS.         *)
ResourcesOwned == NoOrphans /\ HandlesOwned

(* What tick has still to hand to Bridge::service_request. *)
Unhandled == {<<v.entity, v.request>> : v \in {w \in Range(events) :
                                                w.kind = "request"}}

(* Ros.requests and Bridge.external agree: a request header is kept as     *)
(* long as, and no longer than, the request waits in the current batch or  *)
(* for its client's answer, and each waits once.                           *)
RequestsTracked ==
    /\ requests = Unhandled \cup {<<x.entity, x.request>> : x \in external}
    /\ \A x, y \in external : x.request = y.request => x = y
    /\ \A x \in external : <<x.entity, x.request>> \notin Unhandled

(* A forwarded request can be answered: the service it names is the one    *)
(* advertised now, by the client that was asked, and no other pending      *)
(* request has its identifier, which the service has handed out.           *)
Answerable ==
    \A x \in external :
        /\ services[x.name] # NoService
        /\ services[x.name].entity = x.entity
        /\ services[x.name].owner = x.owner
        /\ x.n \in 1..services[x.name].next
        /\ \A y \in external : x.name = y.name /\ x.n = y.n => x = y

(* However late a client answers, and whoever has advertised the service   *)
(* in between: ROS is given the answer for a request that this client was  *)
(* asked, and for the very request unless the service has been advertised  *)
(* anew since, whose identifiers begin at 1 again.                         *)
AnswersMeet ==
    \A a \in answers :
        /\ a.asked.owner = a.given.owner
        /\ a.asked.entity = a.given.entity => a.asked.request = a.given.request

(* Every request that waits is known to both tables and can be answered by *)
(* the client that was asked, whose service is still the one it came from; *)
(* and an answer reaches no other client's request, nor another request of *)
(* the same advertisement.                                                 *)
RequestsAnswerable == TypeOK /\ RequestsTracked /\ Answerable /\ AnswersMeet

(* call_service is answered exactly once: by the response, the timeout or  *)
(* the error, whichever the worker meets first.  Until then it is pending, *)
(* and only the end of the connection can cancel it.                       *)
AnsweredOnce ==
    \A n \in 1..asked :
        LET pending == \E x \in calls : x.entity = n /\ x.owner = asker[n]
        IN  /\ pending => replies[n] = 0
            /\ asker[n] \in outputs => (pending \/ replies[n] = 1)

(* Every call ends, whatever ROS does: an answer, the timeout, or the end  *)
(* of its client or of the server.                                         *)
CallsEnd ==
    \A n \in 1..MaxCalls :
        (\E x \in calls : x.entity = n) ~> ~(\E x \in calls : x.entity = n)

(* A client that failed to take a message, or whose socket is gone, is     *)
(* disconnected by the worker even if its session never says so.           *)
FailedReaped ==
    \A c \in Conn : (c \in failed \cup closed) ~> (c \notin outputs)
=============================================================================

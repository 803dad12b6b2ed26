------------------------- MODULE BridgeActionServers -------------------------
(***************************************************************************)
(* Action servers that WebSocket clients advertise to ROS                  *)
(* (src/src/bridge/actions.rs: advertise_action, remove_action,            *)
(* action_feedback, action_result, action_request; the server goals of     *)
(* Bridge::tick and disconnect; the request table of src/src/ros/mod.rs).  *)
(*                                                                         *)
(* An action server is five ROS entities: the services send, cancel and    *)
(* result and the publishers feedback and status.  A goal that arrives on  *)
(* send is accepted and forwarded to the client; requests for its result   *)
(* wait until the client gives one, and are answered from the stored       *)
(* result afterwards, until the goal is forgotten.                         *)
(*                                                                         *)
(* Goals are numbered in the order of acceptance, which also stands for    *)
(* their time stamps.  Time is abstracted: a completed goal may be old     *)
(* enough to be forgotten whenever the timers run.                         *)
(***************************************************************************)
EXTENDS BridgeClients, SequencesExt

CONSTANTS
    Action,             \* action names
    Type,               \* action types
    Uuid, Zero,         \* goal UUIDs, and the all-zero one of a cancel request
    MaxServers,         \* bound: action servers created
    MaxGoals,           \* bound: goals accepted
    MaxRequests,        \* bound: requests that arrive from ROS
    MaxBatch            \* bound: events taken by one poll

ASSUME BoundsAssumption ==
    {MaxServers, MaxGoals, MaxRequests, MaxBatch} \subseteq Nat

VARIABLES
    action_servers,     \* Bridge.action_servers: [action, owner, typ, gen]
    server_goals,       \* Bridge.server_goals
    handles,            \* live ROS entities of action servers: <<gen, kind>>
    requests,           \* Ros.requests: <<gen, kind, request>>
    events,             \* what poll returned and tick has not handled yet
    servers,            \* action servers created so far
    accepted,           \* goals accepted so far
    arrived,            \* requests taken from ROS so far
    (* History. *)
    answers,            \* <<id, status>>: answers to requests for a result
    torn                \* goals some of whose requests could not be answered

actionVars == <<action_servers, server_goals, handles, requests, events,
                servers, accepted, arrived, answers, torn>>
vars == <<clientVars, actionVars>>

Services == {"send", "cancel", "result"}
Kinds == Services \cup {"feedback", "status"}

EXECUTING == 2
CANCELING == 3
Terminal == 4..6
ABORTED == 6

ServerRec == [action : Action, owner : Conn, typ : Type, gen : Nat]
GoalRec == [action : Action, uuid : Uuid, owner : Conn, id : Nat,
            status : {EXECUTING, CANCELING} \cup Terminal, done : BOOLEAN,
            requests : Seq(Nat)]
EventRec == [gen : Nat, kind : Services, request : Nat,
             uuid : Uuid \cup {Zero}, stamp : Nat]

(* The shape of the state. *)
TypeOK ==
    /\ ClientsTypeOK
    /\ action_servers \subseteq ServerRec
    /\ server_goals \subseteq GoalRec
    /\ \A a, b \in action_servers : a.action = b.action => a = b
    /\ \A g, h \in server_goals :
          g.id = h.id \/ (g.action = h.action /\ g.uuid = h.uuid) => g = h
    /\ handles \subseteq Nat \X Kinds
    /\ requests \subseteq Nat \X Services \X Nat
    /\ events \in Seq(EventRec)
    /\ servers \in 0..MaxServers
    /\ accepted \in 0..MaxGoals
    /\ arrived \in 0..MaxRequests
    /\ answers \subseteq Nat \X Terminal
    /\ torn \subseteq Nat

Init ==
    /\ ClientsInit
    /\ action_servers = {}
    /\ server_goals = {}
    /\ handles = {}
    /\ requests = {}
    /\ events = << >>
    /\ servers = 0
    /\ accepted = 0
    /\ arrived = 0
    /\ answers = {}
    /\ torn = {}

GoalsOf(A) == {g \in server_goals : \E a \in A : a.action = g.action}

-----------------------------------------------------------------------------
(* What Bridge::remove_action of the servers in A leaves: their goals are  *)
(* gone, requests that waited for a result are answered "aborted", and     *)
(* destroying the ROS services forgets every other request to them.        *)
Gens(A) == {a.gen : a \in A}

GoalsWithout(A) == server_goals \ GoalsOf(A)

RequestsWithout(A) == {q \in requests : q[1] \notin Gens(A)}

HandlesWithout(A) == {h \in handles : h[1] \notin Gens(A)}

Aborted(A) == {<<g.id, ABORTED>> : g \in {h \in GoalsOf(A) : h.requests # << >>}}

RemoveActions(A) ==
    /\ server_goals' = GoalsWithout(A)
    /\ requests' = RequestsWithout(A)
    /\ answers' = answers \cup Aborted(A)

(* Bridge::advertise_action.  The same type again changes nothing; another *)
(* type replaces the server, and if the new one cannot be created the old  *)
(* one is gone all the same.                                               *)
Advertised(n) == {a \in action_servers : a.action = n}

AdvertiseAction(c, n, t) ==
    /\ Commands(c)
    /\ servers < MaxServers
    /\ \A a \in Advertised(n) : a.owner = c /\ a.typ # t
    /\ servers' = servers + 1
    /\ action_servers' = (action_servers \ Advertised(n)) \cup
          {[action |-> n, owner |-> c, typ |-> t, gen |-> servers']}
    /\ handles' = HandlesWithout(Advertised(n)) \cup ({servers'} \X Kinds)
    /\ RemoveActions(Advertised(n))
    /\ UNCHANGED <<clientVars, events, accepted, arrived, torn>>

AdvertiseActionFails(c, n, t) ==
    /\ Commands(c)
    /\ Advertised(n) # {}
    /\ \A a \in Advertised(n) : a.owner = c /\ a.typ # t
    /\ action_servers' = action_servers \ Advertised(n)
    /\ handles' = HandlesWithout(Advertised(n))
    /\ RemoveActions(Advertised(n))
    /\ Send({c})
    /\ UNCHANGED <<outputs, seen, phase, events, servers, accepted, arrived,
                   torn>>

UnadvertiseAction(c, n) ==
    /\ Commands(c)
    /\ \E a \in Advertised(n) : a.owner = c
    /\ action_servers' = action_servers \ Advertised(n)
    /\ handles' = HandlesWithout(Advertised(n))
    /\ RemoveActions(Advertised(n))
    /\ UNCHANGED <<clientVars, events, servers, accepted, arrived, torn>>

-----------------------------------------------------------------------------
(* Bridge::action_result: every request that waits is answered, the last   *)
(* first, and the result is kept.  Publishing the new status may fail,     *)
(* which the client is told.                                               *)
Header(a, r) == <<a.gen, "result", r>>

ActionResult(c, g, s) ==
    /\ Commands(c)
    /\ g \in server_goals
    /\ g.owner = c
    /\ ~g.done
    /\ \E a \in Advertised(g.action) :
          /\ \A r \in Range(g.requests) : Header(a, r) \in requests
          /\ requests' = requests \ {Header(a, r) : r \in Range(g.requests)}
    /\ answers' = answers \cup (IF g.requests = << >> THEN {}
                                ELSE {<<g.id, s>>})
    /\ server_goals' = (server_goals \ {g}) \cup
          {[g EXCEPT !.status = s, !.done = TRUE, !.requests = << >>]}
    /\ \/ UNCHANGED <<failed, closed>>
       \/ Send({c})
    /\ UNCHANGED <<outputs, seen, phase, action_servers, handles, events,
                   servers, accepted, arrived, torn>>

(* ROS takes some of the answers and then rejects one: the answered        *)
(* requests are gone, the others keep waiting, and there is no result yet. *)
TornKeepsRequests(g, k) == g.requests           \* mutant
Unanswered(g, k) == SubSeq(g.requests, 1, k)

ActionResultTorn(c, g, s, k) ==
    /\ Commands(c)
    /\ g \in server_goals
    /\ g.owner = c
    /\ ~g.done
    /\ k \in 1..Len(g.requests) - 1
    /\ \E a \in Advertised(g.action) :
          LET got == {g.requests[i] : i \in k + 1..Len(g.requests)}
          IN  /\ \A r \in got : Header(a, r) \in requests
              /\ requests' = requests \ {Header(a, r) : r \in got}
    /\ answers' = answers \cup {<<g.id, s>>}
    /\ torn' = torn \cup {g.id}
    /\ server_goals' = (server_goals \ {g}) \cup
          {[g EXCEPT !.requests = Unanswered(g, k)]}
    /\ Send({c})
    /\ UNCHANGED <<outputs, seen, phase, action_servers, handles, events,
                   servers, accepted, arrived>>

(* Any other outcome of these commands: a status message.  action_feedback *)
(* that succeeds only publishes.                                           *)
CommandRefused(c) ==
    /\ Commands(c)
    /\ Send({c})
    /\ UNCHANGED <<outputs, seen, phase, actionVars>>

-----------------------------------------------------------------------------
(* Bridge::tick: poll takes requests to the three services ... *)
StartTick ==
    /\ Advance("commands", "poll")
    /\ UNCHANGED <<outputs, failed, closed, seen, actionVars>>

TakeRequest(h, u, s) ==
    /\ phase = "poll"
    /\ h \in handles
    /\ h[2] \in Services
    /\ h[2] # "cancel" => u # Zero /\ s = 0
    /\ Len(events) < MaxBatch
    /\ arrived < MaxRequests
    /\ arrived' = arrived + 1
    /\ requests' = requests \cup {<<h[1], h[2], arrived'>>}
    /\ events' = Append(events, [gen |-> h[1], kind |-> h[2], uuid |-> u,
                                 request |-> arrived', stamp |-> s])
    /\ UNCHANGED <<clientVars, action_servers, server_goals, handles, servers,
                   accepted, answers, torn>>

EndPoll ==
    /\ Advance("poll", "events")
    /\ UNCHANGED <<outputs, failed, closed, seen, actionVars>>

(* ... which Bridge::action_request handles for server a.  Each outcome    *)
(* but one answers the request or, after an error, discards it.            *)
Arrives(kind, a) ==
    /\ phase = "events"
    /\ events # << >>
    /\ Head(events).kind = kind
    /\ a \in action_servers
    /\ a.gen = Head(events).gen
    /\ events' = Tail(events)

Consumed == requests \ {<<Head(events).gen, Head(events).kind,
                          Head(events).request>>}

Known(a) == {g \in server_goals : /\ g.action = a.action
                                  /\ g.uuid = Head(events).uuid}

(* A goal: accepted unless its UUID is already known. *)
HandleGoal(a) ==
    /\ Arrives("send", a)
    /\ Known(a) = {}
    /\ accepted < MaxGoals
    /\ accepted' = accepted + 1
    /\ requests' = Consumed
    /\ server_goals' = server_goals \cup
          {[action |-> a.action, uuid |-> Head(events).uuid,
            owner |-> a.owner, id |-> accepted', status |-> EXECUTING,
            done |-> FALSE, requests |-> << >>]}
    /\ Send({a.owner})
    /\ UNCHANGED <<outputs, seen, phase, action_servers, handles, servers,
                   arrived, answers, torn>>

HandleDuplicateGoal(a) ==
    /\ Arrives("send", a)
    /\ Known(a) # {}
    /\ requests' = Consumed
    /\ UNCHANGED <<clientVars, action_servers, server_goals, handles, servers,
                   accepted, arrived, answers, torn>>

(* A request for a result: answered if there is one or the goal is not     *)
(* known, kept with the goal otherwise.                                    *)
HandleResultReady(a) ==
    /\ Arrives("result", a)
    /\ \A g \in Known(a) : g.done
    /\ requests' = Consumed
    /\ answers' = answers \cup {<<g.id, g.status>> : g \in Known(a)}
    /\ UNCHANGED <<clientVars, action_servers, server_goals, handles, servers,
                   accepted, arrived, torn>>

HandleResultWaits(a) ==
    /\ Arrives("result", a)
    /\ \E g \in Known(a) :
          /\ ~g.done
          /\ server_goals' = (server_goals \ {g}) \cup
                {[g EXCEPT !.requests = Append(@, Head(events).request)]}
    /\ UNCHANGED <<clientVars, action_servers, handles, requests, servers,
                   accepted, arrived, answers, torn>>

(* A cancel request selects running goals by UUID, all of them, or those   *)
(* accepted up to a time stamp.  They are marked even when the answer then *)
(* fails; otherwise the client is asked to cancel each of them.            *)
SelectedAny(g, v) ==                            \* mutant
    \/ g.uuid = v.uuid
    \/ v.uuid = Zero /\ v.stamp = 0
    \/ v.stamp # 0 /\ g.id <= v.stamp

Selected(g, v) ==
    /\ ~g.done
    /\ \/ g.uuid = v.uuid
       \/ v.uuid = Zero /\ v.stamp = 0
       \/ v.stamp # 0 /\ g.id <= v.stamp

HandleCancel(a) ==
    /\ Arrives("cancel", a)
    /\ requests' = Consumed
    /\ LET G == {g \in GoalsOf({a}) : Selected(g, Head(events))}
       IN  /\ server_goals' = (server_goals \ G) \cup
                {[g EXCEPT !.status = CANCELING] : g \in G}
           /\ \/ Send(IF G = {} THEN {} ELSE {a.owner})
              \/ UNCHANGED <<failed, closed>>
    /\ UNCHANGED <<outputs, seen, phase, action_servers, handles, servers,
                   accepted, arrived, answers, torn>>

(* An error before anything changed: the UUID is malformed or ROS rejects  *)
(* the answer; tick discards the request.                                  *)
HandleRequestFails(a) ==
    /\ \E kind \in Services : Arrives(kind, a)
    /\ requests' = Consumed
    /\ UNCHANGED <<clientVars, action_servers, server_goals, handles, servers,
                   accepted, arrived, answers, torn>>

EndEvents ==
    /\ events = << >>
    /\ Advance("events", "timers")
    /\ UNCHANGED <<outputs, failed, closed, seen, actionVars>>

(* Completed goals are forgotten after a minute. *)
ForgetGoal(g) ==
    /\ phase = "timers"
    /\ g \in server_goals
    /\ g.done
    /\ server_goals' = server_goals \ {g}
    /\ UNCHANGED <<clientVars, action_servers, handles, requests, events,
                   servers, accepted, arrived, answers, torn>>

EndTimers ==
    /\ Advance("timers", "reap")
    /\ UNCHANGED <<outputs, failed, closed, seen, actionVars>>

(* Bridge::disconnect of every client in D. *)
Release(D) ==
    LET A == {a \in action_servers : a.owner \in D}
    IN  /\ outputs' = outputs \ D
        /\ action_servers' = action_servers \ A
        /\ handles' = HandlesWithout(A)
        /\ RemoveActions(A)

Reap ==
    /\ Advance("reap", "commands")
    /\ Release(Reaped)
    /\ failed' = {}
    /\ UNCHANGED <<closed, seen, events, servers, accepted, arrived, torn>>

(* Command::Disconnect, when the session has ended. *)
Disconnect(c) ==
    /\ phase = "commands"
    /\ c \in seen
    /\ Release({c})
    /\ UNCHANGED <<failed, closed, seen, phase, events, servers, accepted,
                   arrived, torn>>

(* Command::Shutdown: Bridge::shutdown. *)
Shutdown ==
    /\ Advance("commands", "stopped")
    /\ Release(outputs)
    /\ UNCHANGED <<failed, closed, seen, events, servers, accepted, arrived,
                   torn>>

(* Backend::wait or Backend::poll fails: the worker returns the error and  *)
(* drops the bridge with all its tables and ROS handles.                   *)
WorkerFails ==
    /\ phase \in {"commands", "poll"}
    /\ phase' = "broken"
    /\ outputs' = {}
    /\ action_servers' = {} /\ server_goals' = {}
    /\ handles' = {} /\ requests' = {}
    /\ events' = << >>
    /\ UNCHANGED <<failed, closed, seen, servers, accepted, arrived, answers,
                   torn>>

Client(c) ==
    \/ \E n \in Action :
          \/ \E t \in Type : \/ AdvertiseAction(c, n, t)
                             \/ AdvertiseActionFails(c, n, t)
          \/ UnadvertiseAction(c, n)
    \/ \E g \in server_goals, s \in Terminal :
          \/ ActionResult(c, g, s)
          \/ \E k \in 1..MaxRequests : ActionResultTorn(c, g, s, k)
    \/ CommandRefused(c)
    \/ Disconnect(c)

Server(a) ==
    \/ HandleGoal(a) \/ HandleDuplicateGoal(a)
    \/ HandleResultReady(a) \/ HandleResultWaits(a)
    \/ HandleCancel(a) \/ HandleRequestFails(a)

Next ==
    \/ \E c \in Conn :
          \/ ClientConnect(c) /\ UNCHANGED actionVars
          \/ OutputCloses(c) /\ UNCHANGED actionVars
          \/ Client(c)
    \/ \E h \in handles, u \in Uuid \cup {Zero}, s \in 0..accepted :
          TakeRequest(h, u, s)
    \/ \E a \in action_servers : Server(a)
    \/ \E g \in server_goals : ForgetGoal(g)
    \/ StartTick \/ EndPoll \/ EndEvents \/ EndTimers \/ Reap
    \/ Shutdown
    \/ WorkerFails

Spec == Init /\ [][Next]_vars

-----------------------------------------------------------------------------
(* Properties. *)

(* action_feedback, action_result and publish_status index action_servers  *)
(* with the action of a goal, which panics if there is no such entry: every*)
(* goal's action is advertised, by the client the goal was forwarded to,   *)
(* that client is connected, and the ROS entities are exactly the five of  *)
(* each advertised action.                                                 *)
GoalsHosted ==
    /\ \A g \in server_goals :
          \E a \in action_servers : a.action = g.action /\ a.owner = g.owner
    /\ \A a \in action_servers : a.owner \in outputs
    /\ handles = Gens(action_servers) \X Kinds
    /\ \A a, b \in action_servers : a.gen = b.gen => a = b

(* What tick has still to hand to Bridge::action_request. *)
Unhandled == {<<v.gen, v.kind, v.request>> : v \in Range(events)}

(* What the goals of server a hold on to. *)
Waiting(a) == {Header(a, r) : r \in UNION {Range(g.requests) : g \in GoalsOf({a})}}

(* Ros.requests holds exactly the requests in the current batch and those  *)
(* that wait with a goal for its result, so every one of them can still be *)
(* answered and none is leaked; a request waits once, for one goal, and    *)
(* not for a goal that has its result.                                     *)
RequestsTracked ==
    /\ requests = Unhandled \cup UNION {Waiting(a) : a \in action_servers}
    /\ \A g \in server_goals : g.done => g.requests = << >>
    /\ \A g, h \in server_goals :
          g # h => Range(g.requests) \cap Range(h.requests) = {}
    /\ \A g \in server_goals : IsInjective(g.requests)

(* Servers, their goals and the requests that wait with them refer to each *)
(* other without gaps: no index panics, no request is leaked.              *)
ServersTracked == TypeOK /\ GoalsHosted /\ RequestsTracked

(* The life of a goal: executing, perhaps cancelling, then a terminal      *)
(* status which nothing changes any more, not even a late cancel request   *)
(* or a second action_result.                                              *)
GoalLife ==
    [][\A g \in server_goals, h \in server_goals' :
          g.id = h.id =>
             /\ g.done => h = g
             /\ h.done <=> h.status \in Terminal
             /\ h.status >= g.status]_vars

(* All who ask for the result of a goal are told the same, before and      *)
(* after it is stored, unless ROS rejected one answer of several.          *)
SameResult ==
    /\ \A x, y \in answers : x[1] = y[1] /\ x[1] \notin torn => x = y
    /\ \A g \in server_goals, x \in answers :
          x[1] = g.id /\ g.id \notin torn => g.done /\ g.status = x[2]
=============================================================================

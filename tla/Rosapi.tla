------------------------------- MODULE Rosapi -------------------------------
(***************************************************************************)
(* The rosapi services that the ROS worker answers itself:                 *)
(* src/src/ros/api.rs and src/src/ros/parameters.rs.  A graph request is   *)
(* answered at once.  A parameter request becomes a group that calls the   *)
(* parameter services of one node, of every node (get_param_names), or of  *)
(* one node twice (delete_param), each with a ROS client of its own, and   *)
(* that ends with the last response or at its deadline.                    *)
(*                                                                         *)
(* poll takes a batch of events and hands it to Api::process, which        *)
(* handles them one by one, passes on the ones that are not its own, and   *)
(* then ends the groups that are past their deadline.  Any call into rcl   *)
(* may fail.                                                               *)
(***************************************************************************)
EXTENDS Naturals, FiniteSets, Functions

CONSTANTS
    MaxNodes,       \* bound: nodes with parameter services
    MaxRequests,    \* bound: requests taken (Ros.next_request)
    MaxClients,     \* bound: parameter clients ever created
    MaxBatch        \* bound: events of one poll

ASSUME BoundsAssumption == {MaxNodes, MaxRequests, MaxClients, MaxBatch} \subseteq Nat

VARIABLES
    phase,          \* "idle", "events" and "expire" of one poll, or "ended"
    events,         \* events of this poll that are still to be handled
    requests,       \* headers that wait for a response: Ros.requests
    taken,          \* requests taken so far
    clients,        \* the parameter clients that exist in ROS
    created,        \* clients ever created
    groups,         \* Api.groups: request to operation and calls remaining
    pending,        \* Api.pending: client, its group and delete_check
    expired,        \* groups past their deadline, of this poll
    answers         \* how often each request has been answered or discarded

apiVars == <<groups, pending, clients, created, requests, answers>>
rosapiVars == <<apiVars, phase, events, taken, expired>>

Ops == {"graph", "names", "one", "delete"}
Requests == 1 .. MaxRequests
Foreign == 0        \* an entity of the bridge
PerRequest(g) == {x \in pending : x.group = g}

RosapiInit ==
    /\ phase = "idle" /\ events = {} /\ expired = {}
    /\ requests = {} /\ taken = 0 /\ answers = [r \in Requests |-> 0]
    /\ clients = {} /\ created = 0
    /\ groups = <<>> /\ pending = {}

--------------------------------------------------------------------------------
(* Ros::poll: take requests, and responses of any clients. *)
Poll(n, ops, S) ==
    LET new == {[kind |-> "request", id |-> r, op |-> ops[r]] : r \in taken + 1 .. taken + n} IN
    /\ phase = "idle"
    /\ taken + n <= MaxRequests /\ n + Cardinality(S) <= MaxBatch
    /\ taken' = taken + n
    /\ requests' = requests \cup {e.id : e \in new}
    /\ events' = new \cup {[kind |-> "response", id |-> c, op |-> "none"] : c \in S}
    /\ phase' = "events"
    /\ UNCHANGED <<groups, pending, clients, created, answers, expired>>

(* A take or a conversion fails: what was taken is lost with the worker. *)
PollFails ==
    /\ phase = "idle"
    /\ phase' = "ended"
    /\ UNCHANGED <<apiVars, events, taken, expired>>

(* One event is handled; an error that process does not catch is returned  *)
(* by poll and tick and ends the worker.                                   *)
Handled(e) == events' = events \ {e} /\ UNCHANGED <<phase, taken, expired>>
WorkerFails == phase' = "ended" /\ UNCHANGED <<events, taken, expired>>

(* Ros::respond, which may fail, and discard_request. *)
Responded(r) == requests' = requests \ {r} /\ answers' = [answers EXCEPT ![r] = @ + 1]
NotResponded == UNCHANGED <<requests, answers>>

(* mutant: the failed request keeps its header *)
DiscardNot(r) == NotResponded

(* process: warn and discard_request. *)
Discard(r) == Responded(r)

(* reply, every operation on the graph: compute the value and respond. *)
GraphReply(e) ==
    /\ e.op = "graph"
    /\ Responded(e.id) \/ Discard(e.id)
    /\ Handled(e)
    /\ UNCHANGED <<groups, pending, clients, created>>

(* mutant: finish forgets ros.destroy *)
FinishLeaks(g, P, C) ==
    /\ groups' = Restrict(groups, DOMAIN groups \ {g})
    /\ pending' = {x \in P : x.group # g}
    /\ clients' = C

(* finish, when the calls are P and the clients C: remove the group with   *)
(* the calls it still has, and destroy their clients.                      *)
Finish(g, P, C) ==
    /\ groups' = Restrict(groups, DOMAIN groups \ {g})
    /\ pending' = {x \in P : x.group # g}
    /\ clients' = C \ {x.client : x \in {y \in P : y.group = g}}

Finished(g) == Finish(g, pending, clients)

(* parameter: make the calls, one by one, and stop at the first that       *)
(* cannot be made; n are made.  After such a failure, or if there is none  *)
(* to make, finish answers at once and takes back those already made; an   *)
(* error of that answer is discarded by process.                           *)
Made(op, ok) == IF op = "names" THEN 0 .. MaxNodes ELSE IF ok THEN {1} ELSE {0}
New(g, n, check) == {[client |-> created + i, group |-> g, check |-> check] : i \in 1 .. n}
Parameter(e, n, ok) ==
    LET N == New(e.id, n, e.op = "delete")
        P == pending \cup N
        C == clients \cup {x.client : x \in N}
    IN
    /\ e.op # "graph" /\ n \in Made(e.op, ok)
    /\ created + n <= MaxClients
    /\ created' = created + n
    /\ IF ok /\ n > 0
       THEN /\ groups' = [g \in DOMAIN groups \cup {e.id} |->
                            IF g = e.id THEN [op |-> e.op, remaining |-> n] ELSE groups[g]]
            /\ pending' = P /\ clients' = C
            /\ NotResponded
       ELSE /\ Finish(e.id, P, C)
            /\ Responded(e.id) \/ Discard(e.id)
    /\ Handled(e)

Request(e) ==
    /\ e.kind = "request"
    /\ GraphReply(e) \/ \E n \in 0 .. MaxNodes, ok \in BOOLEAN : Parameter(e, n, ok)

(* process: an event that is not rosapi's is passed on to the bridge. *)
PassOn(e) ==
    /\ e.kind = "response" /\ ~\E x \in pending : x.client = e.id
    /\ Handled(e)
    /\ UNCHANGED apiVars

(* parameter_response: the response x ends its group when it is the last   *)
(* one, when the operation makes one call, or when there is nothing to     *)
(* delete; an error of the answer ends the worker.                         *)
LastResponse(x) ==
    /\ groups[x.group].op = "names" => groups[x.group].remaining = 1
    /\ Finished(x.group)
    /\ UNCHANGED created

(* parameter_response: one of the list_parameters answers. *)
NamesResponse(x) ==
    /\ groups[x.group].op = "names" /\ groups[x.group].remaining > 1
    /\ groups' = [groups EXCEPT ![x.group].remaining = @ - 1]
    /\ pending' = pending \ {x}
    /\ clients' = clients \ {x.client}
    /\ UNCHANGED created

(* parameter_response: the parameter to delete exists, so set it. *)
DeleteCall(x) ==
    /\ x.check /\ created < MaxClients
    /\ created' = created + 1
    /\ pending' = (pending \ {x}) \cup New(x.group, 1, FALSE)
    /\ clients' = (clients \ {x.client}) \cup {created + 1}
    /\ UNCHANGED groups

(* parameter_response: the client for that call cannot be created. *)
DeleteFails(x) ==
    /\ x.check
    /\ groups' = [groups EXCEPT ![x.group].remaining = @ - 1]
    /\ pending' = pending \ {x}
    /\ clients' = clients \ {x.client}
    /\ UNCHANGED created

Response(e) ==
    /\ e.kind = "response"
    /\ \E x \in pending :
        /\ x.client = e.id
        /\ \/ LastResponse(x) /\ Responded(x.group) /\ Handled(e)
           \/ LastResponse(x) /\ NotResponded /\ WorkerFails
           \/ (NamesResponse(x) \/ DeleteCall(x)) /\ NotResponded /\ Handled(e)
           \/ DeleteFails(x) /\ NotResponded /\ WorkerFails

(* mutant: no group ever expires *)
StartExpiryNone(S) ==
    /\ phase = "events" /\ events = {} /\ S = {}
    /\ phase' = "expire"
    /\ UNCHANGED <<apiVars, events, taken, expired>>

(* process: the batch is handled; collect the groups past their deadline,  *)
(* each compared with a clock that moves on.                               *)
StartExpiry(S) ==
    /\ phase = "events" /\ events = {}
    /\ phase' = "expire"
    /\ expired' = S
    /\ UNCHANGED <<apiVars, events, taken>>

Expire(g) ==
    /\ phase = "expire"
    /\ Finished(g)
    /\ UNCHANGED created
    /\ \/ /\ Responded(g)
          /\ expired' = expired \ {g}
          /\ UNCHANGED <<phase, events, taken>>
       \/ NotResponded /\ WorkerFails

EndPoll ==
    /\ phase = "expire" /\ expired = {}
    /\ phase' = "idle"
    /\ UNCHANGED <<apiVars, events, taken, expired>>

Take ==
    \E n \in 0 .. MaxBatch : \E ops \in [taken + 1 .. taken + n -> Ops] :
        \E S \in SUBSET (clients \cup {Foreign}) : Poll(n, ops, S)
HandleEvent == phase = "events" /\ \E e \in events : Request(e) \/ PassOn(e) \/ Response(e)
Expiry == \E g \in expired : Expire(g)

RosapiNext ==
    \/ Take \/ PollFails \/ HandleEvent
    \/ \E S \in SUBSET DOMAIN groups : StartExpiry(S)
    \/ Expiry \/ EndPoll

RosapiSpec == RosapiInit /\ [][RosapiNext]_rosapiVars

(* The worker loop never stops by itself, and time passes: a group is past *)
(* its deadline from some poll on.                                         *)
RosapiFairSpec ==
    /\ RosapiSpec
    /\ WF_rosapiVars(Take) /\ WF_rosapiVars(HandleEvent)
    /\ WF_rosapiVars(\E S \in SUBSET DOMAIN groups : StartExpiry(S))
    /\ \A g \in Requests : SF_rosapiVars(\E S \in SUBSET DOMAIN groups : g \in S /\ StartExpiry(S))
    /\ WF_rosapiVars(Expiry) /\ WF_rosapiVars(EndPoll)

--------------------------------------------------------------------------------
(* The types of the state. *)
RosapiTypeOK ==
    /\ phase \in {"idle", "events", "expire", "ended"}
    /\ requests \subseteq 1 .. taken /\ taken \in 0 .. MaxRequests
    /\ clients \subseteq 1 .. created /\ created \in 0 .. MaxClients
    /\ DOMAIN groups \subseteq Requests
    /\ \A x \in pending : x.client \in 1 .. MaxClients

(* While the worker runs, every call waits for a group that exists, so     *)
(* parameter_response's unwrap cannot panic; a group waits for at least    *)
(* one call and counts its calls; and the ROS clients are exactly those of *)
(* the calls: none is left behind and none is answered after destroy.      *)
GroupsMatchCalls ==
    phase # "ended" =>
        /\ {x.group : x \in pending} = DOMAIN groups
        /\ \A g \in DOMAIN groups : groups[g].remaining = Cardinality(PerRequest(g))
        /\ clients = {x.client : x \in pending}

(* While the worker runs, the headers kept are those of the requests still *)
(* to be handled and of the groups: every other one taken has been         *)
(* answered or discarded exactly once.                                     *)
HeadersTracked ==
    RosapiTypeOK /\ (phase # "ended" =>
        /\ requests = {e.id : e \in {x \in events : x.kind = "request"}} \cup DOMAIN groups
        /\ \A r \in 1 .. taken : answers[r] = IF r \in requests THEN 0 ELSE 1)

(* Every request is answered or discarded in the end, even if a node never *)
(* responds, unless the worker ends.                                       *)
EveryRequestEnds ==
    \A r \in Requests : r \in requests ~> r \notin requests \/ phase = "ended"
=============================================================================

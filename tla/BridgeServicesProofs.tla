------------------------ MODULE BridgeServicesProofs ------------------------
(***************************************************************************)
(* Proofs about BridgeServices, for any number of clients, services,       *)
(* calls, advertisements and requests.                                     *)
(***************************************************************************)
EXTENDS BridgeServices, TLAPS

(***************************************************************************)
(* Calls.  Every pending call was issued by its owner, has had no reply    *)
(* yet and has a ROS client of its own; every other call of a connected    *)
(* client has had one reply.                                               *)
(***************************************************************************)
Pending(n) == \E x \in calls : x.entity = n

CallType ==
    /\ ClientsTypeOK
    /\ calls \subseteq CallRec
    /\ asker \in Seq(Conn)
    /\ asked <= MaxCalls
    /\ replies \in [1..MaxCalls -> 0..1]

CallInv ==
    /\ CallType
    /\ clients = {x.entity : x \in calls}
    /\ \A x \in calls : /\ x.owner \in outputs
                        /\ x.entity \in 1..asked
                        /\ asker[x.entity] = x.owner
                        /\ replies[x.entity] = 0
    /\ \A n \in 1..asked :
          /\ asker[n] \in seen
          /\ asker[n] \in outputs => Pending(n) \/ replies[n] = 1
    /\ \A n \in 1..MaxCalls : n > asked => replies[n] = 0

LEMMA InitCalls == Init => CallInv
BY MaxCallsAssumption
   DEF Init, ClientsInit, CallInv, CallType, ClientsTypeOK, Phases, asked

(* A send only makes connected clients fail and close. *)
LEMMA SendFacts ==
    ASSUME ClientsTypeOK, NEW S, Send(S)
    PROVE  failed' \subseteq seen /\ closed' \subseteq seen
BY DEF Send, ClientsTypeOK

(* Nothing about calls changes, and nobody new is connected. *)
LEMMA CallsUntouched ==
    ASSUME CallInv, ClientsTypeOK', outputs' = outputs, seen' = seen,
           UNCHANGED <<calls, clients, asker, replies>>
    PROVE  CallInv'
BY DEF CallInv, CallType, asked, Pending

(* A call is known by its ROS client. *)
LEMMA UniqueCalls ==
    ASSUME CallInv, NEW x \in calls, NEW y \in calls, x.entity = y.entity
    PROVE  x = y
<1>1. x.owner = y.owner
  BY DEF CallInv
<1> QED
  BY <1>1 DEF CallInv, CallType, CallRec

(* A set of calls is answered, and their ROS clients are destroyed. *)
LEMMA SettleCalls ==
    ASSUME CallInv, ClientsTypeOK', outputs' = outputs, seen' = seen,
           NEW S \in SUBSET calls, Settle(S), UNCHANGED asker
    PROVE  CallInv'
<1>0. asked \in Nat /\ asked <= MaxCalls /\ asked' = asked
  BY DEF CallInv, CallType, asked
<1>1. \A n \in 1..MaxCalls :
         replies'[n] = IF \E x \in S : x.entity = n THEN replies[n] + 1
                       ELSE replies[n]
  BY DEF Settle, Answer
<1>2. \A x \in S : /\ x.entity \in 1..MaxCalls
                   /\ replies[x.entity] = 0
  BY <1>0, MaxCallsAssumption DEF CallInv
<1>3. \A x \in calls' : x \in calls /\ \A y \in S : y.entity # x.entity
  BY UniqueCalls DEF Settle
<1>4. CallType'
  <2>1. \A n \in 1..MaxCalls : replies'[n] \in 0..1
    BY <1>1, <1>2 DEF CallInv, CallType
  <2>2. replies' \in [1..MaxCalls -> 0..1]
    BY <2>1 DEF Settle, Answer
  <2> QED
    BY <1>0, <2>2 DEF CallInv, CallType, Settle
<1>5. clients' = {x.entity : x \in calls'}
  BY <1>3 DEF CallInv, Settle
<1>6. \A x \in calls' : /\ x.owner \in outputs'
                        /\ x.entity \in 1..asked'
                        /\ asker'[x.entity] = x.owner
                        /\ replies'[x.entity] = 0
  <2> TAKE x \in calls'
  <2>1. x \in calls /\ x.entity \in 1..MaxCalls
    BY <1>0, <1>3, MaxCallsAssumption DEF CallInv
  <2>2. replies'[x.entity] = replies[x.entity]
    BY <1>1, <1>3, <2>1
  <2> QED
    BY <1>0, <2>1, <2>2 DEF CallInv
<1>7. \A n \in 1..asked' :
          /\ asker'[n] \in seen'
          /\ asker'[n] \in outputs' => Pending(n)' \/ replies'[n] = 1
  <2> SUFFICES ASSUME NEW n \in 1..asked, asker[n] \in outputs
               PROVE  Pending(n)' \/ replies'[n] = 1
    BY <1>0 DEF CallInv
  <2>1. n \in 1..MaxCalls
    BY <1>0, MaxCallsAssumption
  <2>2. CASE \E x \in S : x.entity = n
    BY <1>1, <1>2, <2>1, <2>2
  <2>3. CASE Pending(n) /\ ~ \E x \in S : x.entity = n
    BY <2>3 DEF Pending, Settle
  <2>4. CASE replies[n] = 1 /\ ~ \E x \in S : x.entity = n
    BY <1>1, <2>1, <2>4
  <2> QED
    BY <2>2, <2>3, <2>4 DEF CallInv
<1>8. \A n \in 1..MaxCalls : n > asked' => replies'[n] = 0
  BY <1>0, <1>1 DEF CallInv
<1> QED
  BY <1>4, <1>5, <1>6, <1>7, <1>8 DEF CallInv

(* The clients in D are disconnected and their calls dropped. *)
LEMMA ReleaseCalls ==
    ASSUME CallInv, ClientsTypeOK', seen' = seen, NEW D, Release(D),
           UNCHANGED <<asker, replies>>
    PROVE  CallInv'
<1>1. CallType'
  BY DEF CallInv, CallType, Release, asked
<1>2. clients' = {x.entity : x \in calls'}
  BY DEF CallInv, CallType, CallRec, Release
<1>3. \A x \in calls' : /\ x.owner \in outputs'
                        /\ x.entity \in 1..asked'
                        /\ asker'[x.entity] = x.owner
                        /\ replies'[x.entity] = 0
  BY DEF CallInv, Release, ReleaseServices, asked
<1>4. \A n \in 1..asked' :
          /\ asker'[n] \in seen'
          /\ asker'[n] \in outputs' => Pending(n)' \/ replies'[n] = 1
  BY DEF CallInv, CallType, CallRec, Release, ReleaseServices, asked, Pending
<1> QED
  BY <1>1, <1>2, <1>3, <1>4 DEF CallInv, asked

LEMMA CallServiceCalls ==
    ASSUME CallInv, NEW c \in Conn, CallService(c)
    PROVE  CallInv'
<1> DEFINE new == [entity |-> asked + 1, owner |-> c]
<1>0. /\ asked \in Nat /\ asked < MaxCalls /\ asked' = asked + 1
      /\ \A n \in 1..asked : asker'[n] = asker[n]
      /\ asker'[asked + 1] = c
      /\ asker' \in Seq(Conn)
  BY DEF CallService, CallInv, CallType, asked
<1>1. /\ calls' = calls \cup {new}
      /\ clients' = clients \cup {asked + 1}
      /\ UNCHANGED <<outputs, seen, failed, closed, phase, replies>>
      /\ c \in outputs
  BY DEF CallService, Commands, clientVars
<1>2. new \in CallRec /\ new.entity = asked + 1 /\ new.owner = c
  BY <1>0 DEF CallRec
<1> HIDE DEF new
<1>3. CallType'
  BY <1>0, <1>1, <1>2, MaxCallsAssumption DEF CallInv, CallType, ClientsTypeOK
<1>4. clients' = {x.entity : x \in calls'}
  BY <1>1, <1>2 DEF CallInv
<1>5. \A x \in calls' : /\ x.owner \in outputs'
                        /\ x.entity \in 1..asked'
                        /\ asker'[x.entity] = x.owner
                        /\ replies'[x.entity] = 0
  <2> TAKE x \in calls'
  <2>1. CASE x \in calls
    BY <1>0, <1>1, <2>1 DEF CallInv
  <2>2. CASE x = new
    BY <1>0, <1>1, <1>2, <2>2, MaxCallsAssumption DEF CallInv
  <2> QED
    BY <1>1, <2>1, <2>2
<1>6. \A n \in 1..asked' :
          /\ asker'[n] \in seen'
          /\ asker'[n] \in outputs' => Pending(n)' \/ replies'[n] = 1
  <2> TAKE n \in 1..asked'
  <2>1. CASE n \in 1..asked
    <3>1. Pending(n) => Pending(n)'
      BY <1>1 DEF Pending
    <3> QED
      BY <1>0, <1>1, <2>1, <3>1 DEF CallInv
  <2>2. CASE n = asked + 1
    <3>1. Pending(n)'
      BY <1>1, <1>2, <2>2 DEF Pending
    <3> QED
      BY <1>0, <1>1, <2>2, <3>1 DEF CallInv, CallType, ClientsTypeOK
  <2> QED
    BY <1>0, <2>1, <2>2
<1>7. \A n \in 1..MaxCalls : n > asked' => replies'[n] = 0
  BY <1>0, <1>1 DEF CallInv
<1> QED
  BY <1>3, <1>4, <1>5, <1>6, <1>7 DEF CallInv

LEMMA CallServiceFailsCalls ==
    ASSUME CallInv, NEW c \in Conn, CallServiceFails(c)
    PROVE  CallInv'
<1>0. /\ asked \in Nat /\ asked < MaxCalls /\ asked' = asked + 1
      /\ \A n \in 1..asked : asker'[n] = asker[n]
      /\ asker'[asked + 1] = c
      /\ asker' \in Seq(Conn)
  BY DEF CallServiceFails, CallInv, CallType, asked
<1>1. /\ replies' \in [1..MaxCalls -> 0..1]
      /\ replies'[asked + 1] = 1
      /\ \A n \in 1..MaxCalls : n # asked + 1 => replies'[n] = replies[n]
  BY <1>0, MaxCallsAssumption DEF CallServiceFails, CallInv, CallType
<1>2. UNCHANGED <<outputs, seen, phase, calls, clients>> /\ c \in outputs
  BY DEF CallServiceFails, Commands
<1>3. CallType'
  <2>1. ClientsTypeOK
    BY DEF CallInv, CallType
  <2>2. Send({c})
    BY DEF CallServiceFails
  <2>3. ClientsTypeOK'
    BY <1>2, <2>1, <2>2, SendFacts DEF ClientsTypeOK
  <2> QED
    BY <1>0, <1>1, <1>2, <2>3, MaxCallsAssumption DEF CallInv, CallType
<1>4. \A x \in calls' : /\ x.owner \in outputs'
                        /\ x.entity \in 1..asked'
                        /\ asker'[x.entity] = x.owner
                        /\ replies'[x.entity] = 0
  BY <1>0, <1>1, <1>2, MaxCallsAssumption DEF CallInv
<1>5. \A n \in 1..asked' :
          /\ asker'[n] \in seen'
          /\ asker'[n] \in outputs' => Pending(n)' \/ replies'[n] = 1
  <2> TAKE n \in 1..asked'
  <2>1. CASE n \in 1..asked
    <3>1. Pending(n)' <=> Pending(n)
      BY <1>2 DEF Pending
    <3> QED
      BY <1>0, <1>1, <1>2, <2>1, <3>1, MaxCallsAssumption DEF CallInv
  <2>2. CASE n = asked + 1
    BY <1>0, <1>1, <1>2, <2>2 DEF CallInv, CallType, ClientsTypeOK
  <2> QED
    BY <1>0, <2>1, <2>2
<1>6. \A n \in 1..MaxCalls : n > asked' => replies'[n] = 0
  BY <1>0, <1>1 DEF CallInv
<1>7. clients' = {x.entity : x \in calls'}
  BY <1>2 DEF CallInv
<1> QED
  BY <1>3, <1>4, <1>5, <1>6, <1>7 DEF CallInv

LEMMA ClientConnectCalls ==
    ASSUME CallInv, NEW c \in Conn, ClientConnect(c), UNCHANGED serviceVars
    PROVE  CallInv'
BY DEF ClientConnect, serviceVars, CallInv, CallType, ClientsTypeOK, asked,
       Pending, Phases

LEMMA WorkerFailsCalls == ASSUME CallInv, WorkerFails PROVE CallInv'
BY DEF WorkerFails, CallInv, CallType, ClientsTypeOK, asked, Pending, Phases

(* The steps that leave the clients' type alone or only send. *)
LEMMA ClientsTypeStep ==
    ASSUME ClientsTypeOK, [Next]_vars
    PROVE  ClientsTypeOK'
<1>1. CASE \E S : Send(S) /\ UNCHANGED <<outputs, seen, phase>>
  BY <1>1, SendFacts DEF ClientsTypeOK
<1>2. CASE UNCHANGED clientVars
  BY <1>2 DEF clientVars, ClientsTypeOK
<1>3. CASE \E from, to \in Phases :
         Advance(from, to) /\ UNCHANGED <<outputs, failed, closed, seen>>
  BY <1>3 DEF Advance, ClientsTypeOK
<1>4. ASSUME NEW c \in Conn, ClientConnect(c) PROVE ClientsTypeOK'
  BY <1>4 DEF ClientConnect, ClientsTypeOK
<1>5. ASSUME NEW c \in Conn, OutputCloses(c) PROVE ClientsTypeOK'
  BY <1>5 DEF OutputCloses, ClientsTypeOK
<1>6. ASSUME NEW D, ReleaseServices(D), failed' \in {failed, {}},
             UNCHANGED <<closed, seen>>, phase' \in Phases
      PROVE  ClientsTypeOK'
  BY <1>6 DEF ReleaseServices, ClientsTypeOK
<1>7. CASE WorkerFails
  BY <1>7 DEF WorkerFails, ClientsTypeOK, Phases
<1>8. ASSUME NEW c \in Conn, Client(c) PROVE ClientsTypeOK'
  <2>1. CASE CallService(c)
    BY <1>2, <2>1 DEF CallService
  <2>2. CASE CallServiceFails(c)
    BY <1>1, <2>2 DEF CallServiceFails
  <2>3. ASSUME NEW n \in Service, NEW t \in Type, AdvertiseService(c, n, t)
        PROVE  ClientsTypeOK'
    BY <1>2, <2>3 DEF AdvertiseService
  <2>4. ASSUME NEW n \in Service, NEW t \in Type,
               AdvertiseServiceFails(c, n, t)
        PROVE  ClientsTypeOK'
    BY <1>1, <2>4 DEF AdvertiseServiceFails
  <2>5. ASSUME NEW n \in Service, UnadvertiseService(c, n)
        PROVE  ClientsTypeOK'
    BY <1>2, <2>5 DEF UnadvertiseService
  <2>6. ASSUME NEW k \in told, ServiceResponse(c, k) PROVE ClientsTypeOK'
    BY <1>2, <2>6 DEF ServiceResponse
  <2>7. CASE CommandRefused(c)
    BY <1>1, <2>7 DEF CommandRefused, Refuse
  <2> QED
    BY <1>8, <2>1, <2>2, <2>3, <2>4, <2>5, <2>6, <2>7 DEF Client
<1>9. ASSUME NEW c \in Conn, Disconnect(c) PROVE ClientsTypeOK'
  BY <1>6, <1>9 DEF Disconnect, Release, ClientsTypeOK
<1>10. CASE Shutdown
  BY <1>6, <1>10 DEF Shutdown, Release, Advance, Phases
<1>11. CASE Tick
  <2>1. CASE StartTick
    BY <1>3, <2>1 DEF StartTick, Phases
  <2>2. CASE EndPoll
    BY <1>3, <2>2 DEF EndPoll, Phases
  <2>3. CASE EndEvents
    BY <1>3, <2>3 DEF EndEvents, Phases
  <2>4. CASE EndTimers
    BY <1>3, <2>4 DEF EndTimers, Phases
  <2>5. CASE Reap
    BY <1>6, <2>5 DEF Reap, Release, Advance, Phases
  <2>6. CASE HandleResponse
    BY <1>1, <2>6 DEF HandleResponse
  <2>7. CASE HandleRequest
    BY <1>1, <2>7 DEF HandleRequest
  <2> QED
    BY <1>11, <2>1, <2>2, <2>3, <2>4, <2>5, <2>6, <2>7 DEF Tick
<1>12. ASSUME NEW e, TakeResponse(e) PROVE ClientsTypeOK'
  BY <1>2, <1>12 DEF TakeResponse
<1>13. ASSUME NEW e, TakeRequest(e) PROVE ClientsTypeOK'
  BY <1>2, <1>13 DEF TakeRequest
<1>14. ASSUME NEW x, ExpireCall(x) PROVE ClientsTypeOK'
  BY <1>1, <1>14 DEF ExpireCall
<1>15. ASSUME NEW x, ExpireExternal(x) PROVE ClientsTypeOK'
  BY <1>2, <1>15 DEF ExpireExternal
<1>16. CASE UNCHANGED vars
  BY <1>2, <1>16 DEF vars
<1> QED
  BY <1>4, <1>5, <1>7, <1>8, <1>9, <1>10, <1>11, <1>12, <1>13, <1>14, <1>15,
     <1>16
     DEF Next

LEMMA NextCalls == CallInv /\ [Next]_vars => CallInv'
<1> SUFFICES ASSUME CallInv, [Next]_vars PROVE CallInv'
  OBVIOUS
<1>0. ClientsTypeOK'
  BY ClientsTypeStep DEF CallInv, CallType
<1>1. ASSUME NEW c \in Conn, Client(c) PROVE CallInv'
  <2>1. CASE CallService(c)
    BY <2>1, CallServiceCalls
  <2>2. CASE CallServiceFails(c)
    BY <2>2, CallServiceFailsCalls
  <2>3. ASSUME NEW n \in Service, NEW t \in Type, AdvertiseService(c, n, t)
        PROVE  CallInv'
    BY <1>0, <2>3, CallsUntouched DEF AdvertiseService, clientVars
  <2>4. ASSUME NEW n \in Service, NEW t \in Type,
               AdvertiseServiceFails(c, n, t)
        PROVE  CallInv'
    BY <1>0, <2>4, CallsUntouched DEF AdvertiseServiceFails
  <2>5. ASSUME NEW n \in Service, UnadvertiseService(c, n)
        PROVE  CallInv'
    BY <1>0, <2>5, CallsUntouched DEF UnadvertiseService, clientVars
  <2>6. ASSUME NEW k \in told, ServiceResponse(c, k) PROVE CallInv'
    BY <1>0, <2>6, CallsUntouched DEF ServiceResponse, clientVars
  <2>7. CASE CommandRefused(c)
    BY <1>0, <2>7, CallsUntouched DEF CommandRefused, Refuse, serviceVars
  <2> QED
    BY <1>1, <2>1, <2>2, <2>3, <2>4, <2>5, <2>6, <2>7 DEF Client
<1>2. ASSUME NEW c \in Conn, ClientConnect(c) /\ UNCHANGED serviceVars
      PROVE  CallInv'
  BY <1>2, ClientConnectCalls
<1>3. ASSUME NEW c \in Conn, OutputCloses(c) /\ UNCHANGED serviceVars
      PROVE  CallInv'
  BY <1>0, <1>3, CallsUntouched DEF OutputCloses, serviceVars
<1>4. ASSUME NEW c \in Conn, Disconnect(c) PROVE CallInv'
  BY <1>0, <1>4, ReleaseCalls DEF Disconnect
<1>5. CASE Shutdown
  BY <1>0, <1>5, ReleaseCalls DEF Shutdown
<1>6. CASE WorkerFails
  BY <1>6, WorkerFailsCalls
<1>7. CASE Tick
  <2>1. CASE StartTick
    BY <1>0, <2>1, CallsUntouched DEF StartTick, serviceVars
  <2>2. CASE EndPoll
    BY <1>0, <2>2, CallsUntouched DEF EndPoll, serviceVars
  <2>3. CASE EndEvents
    BY <1>0, <2>3, CallsUntouched DEF EndEvents, serviceVars
  <2>4. CASE EndTimers
    BY <1>0, <2>4, CallsUntouched DEF EndTimers, serviceVars
  <2>5. CASE Reap
    BY <1>0, <2>5, ReleaseCalls DEF Reap
  <2>6. CASE HandleResponse
    <3> DEFINE found == {x \in calls : x.entity = Head(events).entity}
    <3>1. /\ found \in SUBSET calls /\ Settle(found)
          /\ UNCHANGED <<outputs, seen, asker>>
      BY <2>6 DEF HandleResponse
    <3> QED
      BY <1>0, <3>1, SettleCalls
  <2>7. CASE HandleRequest
    <3>1. UNCHANGED <<outputs, seen, calls, clients, asker, replies>>
      BY <2>7 DEF HandleRequest
    <3> QED
      BY <1>0, <3>1, CallsUntouched
  <2> QED
    BY <1>7, <2>1, <2>2, <2>3, <2>4, <2>5, <2>6, <2>7 DEF Tick
<1>8. ASSUME NEW e, TakeResponse(e) PROVE CallInv'
  BY <1>0, <1>8, CallsUntouched DEF TakeResponse, clientVars
<1>9. ASSUME NEW e, TakeRequest(e) PROVE CallInv'
  BY <1>0, <1>9, CallsUntouched DEF TakeRequest, clientVars
<1>10. ASSUME NEW x, ExpireCall(x) PROVE CallInv'
  <2>1. /\ {x} \in SUBSET calls /\ Settle({x})
        /\ UNCHANGED <<outputs, seen, asker>>
    BY <1>10 DEF ExpireCall
  <2> QED
    BY <1>0, <2>1, SettleCalls
<1>11. ASSUME NEW x, ExpireExternal(x) PROVE CallInv'
  BY <1>0, <1>11, CallsUntouched DEF ExpireExternal, clientVars
<1>12. CASE UNCHANGED vars
  BY <1>0, <1>12, CallsUntouched DEF vars, clientVars, serviceVars
<1> QED
  BY <1>1, <1>2, <1>3, <1>4, <1>5, <1>6, <1>7, <1>8, <1>9, <1>10, <1>11,
     <1>12
     DEF Next

(* The call table, the replies and the ROS clients stay consistent. *)
THEOREM CallInvariance == Spec => []CallInv
BY InitCalls, NextCalls, PTL DEF Spec

(* call_service is answered exactly once, whatever response, time-out and  *)
(* disconnect race for it, for any number of clients and calls.            *)
THEOREM OneReply == Spec => []AnsweredOnce
<1>1. CallInv => AnsweredOnce
  <2> SUFFICES ASSUME CallInv, NEW n \in 1..asked
               PROVE  LET pending == \E x \in calls :
                                        x.entity = n /\ x.owner = asker[n]
                      IN  /\ pending => replies[n] = 0
                          /\ asker[n] \in outputs =>
                                (pending \/ replies[n] = 1)
    BY DEF AnsweredOnce
  <2> QED
    BY DEF CallInv, Pending
<1> QED
  BY <1>1, CallInvariance, PTL

-----------------------------------------------------------------------------
(***************************************************************************)
(* Advertised services.  Each has a live ROS service of its own, numbered  *)
(* below every later one, and a connected owner.                           *)
(***************************************************************************)
Live == {n \in Service : services[n] # NoService}

ServiceInv ==
    /\ services \in [Service -> ServiceRec \cup {NoService}]
    /\ adverts \in Nat
    /\ servers = Gone(Live)
    /\ \A n \in Live : /\ services[n].owner \in outputs
                      /\ services[n].entity \in 1..adverts
    /\ \A n, m \in Live : services[n].entity = services[m].entity => n = m

LEMMA InitServices == Init => ServiceInv
BY DEF Init, ClientsInit, ServiceInv, Live, Gone

LEMMA LiveType ==
    ASSUME ServiceInv, NEW n \in Live
    PROVE  n \in Service /\ services[n] \in ServiceRec
BY DEF ServiceInv, Live

(* Nothing about services changes, or only the request numbers do. *)
LEMMA ServicesUntouched ==
    ASSUME ServiceInv, UNCHANGED <<servers, adverts>>,
           \A n \in Live : services[n].owner \in outputs =>
                              services[n].owner \in outputs',
           services' \in [Service -> ServiceRec \cup {NoService}],
           Live' = Live,
           \A n \in Live : /\ services'[n].owner = services[n].owner
                            /\ services'[n].entity = services[n].entity
    PROVE  ServiceInv'
<1>1. Gone(Live)' = Gone(Live)
  BY DEF Gone
<1> QED
  BY <1>1 DEF ServiceInv

(* The services in N are removed. *)
LEMMA RemoveServicesFacts ==
    ASSUME ServiceInv, NEW N \in SUBSET Live,
           services' = [n \in Service |-> IF n \in N THEN NoService
                                          ELSE services[n]],
           servers' = servers \ Gone(N), UNCHANGED adverts,
           \A n \in Live \ N : services[n].owner \in outputs'
    PROVE  ServiceInv' /\ Live' = Live \ N
<1>1. Live' = Live \ N
  BY DEF Live
<1>2. \A n \in Live' : services'[n] = services[n] /\ n \in Live
  BY <1>1 DEF Live
<1>3. Gone(Live)' = Gone(Live) \ Gone(N)
  <2>1. \A n \in Live', m \in N : services[n].entity # services[m].entity
    BY <1>1 DEF ServiceInv
  <2>2. Gone(Live)' = {services[n].entity : n \in Live'}
    BY <1>2 DEF Gone
  <2> QED
    BY <1>1, <2>1, <2>2 DEF Gone
<1>4. services' \in [Service -> ServiceRec \cup {NoService}]
  BY DEF ServiceInv
<1>5. servers' = Gone(Live)'
  BY <1>3 DEF ServiceInv
<1>6. \A n \in Live' : /\ services'[n].owner \in outputs'
                       /\ services'[n].entity \in 1..adverts'
  BY <1>1, <1>2 DEF ServiceInv
<1>7. \A n, m \in Live' : services'[n].entity = services'[m].entity => n = m
  <2>1. \A n, m \in Live : services[n].entity = services[m].entity => n = m
    BY DEF ServiceInv
  <2> SUFFICES ASSUME NEW n \in Live', NEW m \in Live',
                      services'[n].entity = services'[m].entity
               PROVE  n = m
    OBVIOUS
  <2>2. n \in Live /\ m \in Live /\ services'[n] = services[n] /\ services'[m] = services[m]
    BY <1>2, Zenon
  <2>3. services[n].entity = services[m].entity
    BY <2>2, Zenon
  <2> QED
    BY <2>1, <2>2, <2>3, Zenon
<1>8. adverts' \in Nat
  BY DEF ServiceInv
<1> QED
  BY <1>1, <1>4, <1>5, <1>6, <1>7, <1>8, Zenon DEF ServiceInv

LEMMA AdvertiseServices ==
    ASSUME ServiceInv, NEW c \in Conn, NEW n \in Service, NEW t \in Type,
           AdvertiseService(c, n, t)
    PROVE  ServiceInv'
<1> DEFINE new == [owner |-> c, entity |-> adverts + 1, typ |-> t, next |-> 0]
           old == IF services[n] = NoService THEN {} ELSE {n}
<1>0. /\ adverts \in Nat /\ adverts' = adverts + 1
      /\ services' = [services EXCEPT ![n] = new]
      /\ servers' = (servers \ Gone(old)) \cup {adverts + 1}
      /\ c \in outputs' /\ outputs' = outputs
  BY DEF AdvertiseService, Commands, clientVars, ServiceInv
<1>1. /\ new \in ServiceRec /\ new # NoService
      /\ new.owner = c /\ new.entity = adverts + 1
  BY <1>0, NoServiceAssumption DEF ServiceRec
<1>2. old = Live \cap {n}
  BY DEF Live
<1> HIDE DEF new, old
<1>3. /\ services' \in [Service -> ServiceRec \cup {NoService}]
      /\ services'[n] = new
      /\ \A m \in Service \ {n} : services'[m] = services[m]
  BY <1>0, <1>1 DEF ServiceInv
<1>4. Live' = Live \cup {n}
  BY <1>1, <1>3 DEF Live
<1>5. \A m \in Live' \ {n} : m \in Live /\ services'[m] = services[m]
  BY <1>3, <1>4 DEF Live
<1>6. Gone(Live)' = servers'
  <2>1. Gone(Live)' = {services'[m].entity : m \in Live'}
    BY DEF Gone
  <2>2. Gone(Live)' = {services[m].entity : m \in Live \ {n}} \cup {adverts + 1}
    BY <1>1, <1>3, <1>4, <1>5, <2>1
  <2>3. {services[m].entity : m \in Live \ {n}} = servers \ Gone(old)
    BY <1>2 DEF ServiceInv, Gone
  <2> QED
    BY <1>0, <2>2, <2>3
<1>7. \A m \in Live' : /\ services'[m].owner \in outputs'
                       /\ services'[m].entity \in 1..adverts'
  BY <1>0, <1>1, <1>3, <1>5 DEF ServiceInv
<1>8. \A k, m \in Live' : services'[k].entity = services'[m].entity => k = m
  BY <1>0, <1>1, <1>3, <1>5 DEF ServiceInv
<1> QED
  BY <1>0, <1>3, <1>6, <1>7, <1>8 DEF ServiceInv

(* Nothing about services changes, and nobody is disconnected. *)
LEMMA ServicesUnchanged ==
    ASSUME ServiceInv, UNCHANGED <<services, servers, adverts>>,
           outputs \subseteq outputs'
    PROVE  ServiceInv'
<1>1. Live' = Live
  BY DEF Live
<1>2. services' \in [Service -> ServiceRec \cup {NoService}]
  BY DEF ServiceInv
<1> QED
  BY <1>1, <1>2, ServicesUntouched

(* One service is removed. *)
LEMMA RemoveOneService ==
    ASSUME ServiceInv, NEW k \in Live,
           services' = [services EXCEPT ![k] = NoService],
           servers' = servers \ Gone({k}), UNCHANGED <<adverts, outputs>>
    PROVE  ServiceInv'
<1>1. services' = [n \in Service |-> IF n \in {k} THEN NoService
                                     ELSE services[n]]
  BY DEF ServiceInv
<1>2. \A n \in Live \ {k} : services[n].owner \in outputs'
  BY DEF ServiceInv
<1> QED
  BY <1>1, <1>2, RemoveServicesFacts

(* The clients in D are disconnected. *)
LEMMA ReleaseServicesKeeps ==
    ASSUME ServiceInv, NEW D, ReleaseServices(D), UNCHANGED adverts
    PROVE  ServiceInv'
<1>1. Owned(D) \in SUBSET Live
  BY DEF Owned, Live
<1>2. \A n \in Live \ Owned(D) : services[n].owner \in outputs'
  BY DEF ReleaseServices, ServiceInv, Owned, Live
<1>3. /\ services' = [n \in Service |-> IF n \in Owned(D) THEN NoService
                                       ELSE services[n]]
      /\ servers' = servers \ Gone(Owned(D))
  BY DEF ReleaseServices
<1> QED
  BY <1>1, <1>2, <1>3, RemoveServicesFacts

(* A request handed to its service only takes a number of that service. *)
LEMMA HandleRequestServices ==
    ASSUME ServiceInv, HandleRequest
    PROVE  ServiceInv'
<1> DEFINE found == {n \in Service :
                       /\ services[n] # NoService
                       /\ services[n].entity = Head(events).entity}
<1>1. /\ services' = [n \in Service |->
                        IF n \in found
                        THEN [services[n] EXCEPT !.next = @ + 1]
                        ELSE services[n]]
      /\ UNCHANGED <<servers, adverts, outputs>>
  BY DEF HandleRequest
<1>2. found \in SUBSET Live
  BY DEF Live
<1> HIDE DEF found
<1>3. \A n \in found : /\ services'[n] \in ServiceRec
                        /\ services'[n].owner = services[n].owner
                        /\ services'[n].entity = services[n].entity
  <2> TAKE n \in found
  <2>1. n \in Service /\ services[n] \in ServiceRec
    BY <1>2, LiveType
  <2>2. services'[n] = [services[n] EXCEPT !.next = @ + 1]
    BY <1>1, <2>1
  <2> QED
    BY <2>1, <2>2 DEF ServiceRec
<1>4. \A n \in Service \ found : services'[n] = services[n]
  BY <1>1
<1>5. services' \in [Service -> ServiceRec \cup {NoService}]
  <2>1. \A n \in Service : services'[n] \in ServiceRec \cup {NoService}
    BY <1>3, <1>4 DEF ServiceInv
  <2>2. services' = [n \in Service |-> services'[n]]
    BY <1>1
  <2> HIDE DEF found
  <2> QED
    BY <2>1, <2>2, Zenon
<1>6. Live' = Live
  BY <1>2, <1>3, <1>4, NoServiceAssumption DEF Live
<1>7. \A n \in Live : /\ services'[n].owner = services[n].owner
                       /\ services'[n].entity = services[n].entity
  BY <1>3, <1>4 DEF Live
<1>8. \A n \in Live : services[n].owner \in outputs'
  BY <1>1 DEF ServiceInv
<1> QED
  BY <1>1, <1>5, <1>6, <1>7, <1>8, ServicesUntouched, Zenon

LEMMA WorkerFailsServices == ASSUME ServiceInv, WorkerFails PROVE ServiceInv'
BY DEF WorkerFails, ServiceInv, Live, Gone

LEMMA NextServices == ServiceInv /\ [Next]_vars => ServiceInv'
<1> SUFFICES ASSUME ServiceInv, [Next]_vars PROVE ServiceInv'
  OBVIOUS
<1>1. ASSUME NEW c \in Conn, Client(c) PROVE ServiceInv'
  <2>1. CASE CallService(c)
    BY <2>1, ServicesUnchanged DEF CallService, clientVars
  <2>2. CASE CallServiceFails(c)
    BY <2>2, ServicesUnchanged DEF CallServiceFails
  <2>3. ASSUME NEW n \in Service, NEW t \in Type, AdvertiseService(c, n, t)
        PROVE  ServiceInv'
    BY <2>3, AdvertiseServices
  <2>4. ASSUME NEW n \in Service, NEW t \in Type,
               AdvertiseServiceFails(c, n, t)
        PROVE  ServiceInv'
    <3>1. n \in Live
      BY <2>4 DEF AdvertiseServiceFails, Live
    <3> QED
      BY <2>4, <3>1, RemoveOneService DEF AdvertiseServiceFails, RemoveServices
  <2>5. ASSUME NEW n \in Service, UnadvertiseService(c, n)
        PROVE  ServiceInv'
    <3>1. n \in Live
      BY <2>5 DEF UnadvertiseService, Owned, Live
    <3> QED
      BY <2>5, <3>1, RemoveOneService
         DEF UnadvertiseService, RemoveServices, clientVars
  <2>6. ASSUME NEW k \in told, ServiceResponse(c, k) PROVE ServiceInv'
    BY <2>6, ServicesUnchanged DEF ServiceResponse, clientVars
  <2>7. CASE CommandRefused(c)
    BY <2>7, ServicesUnchanged DEF CommandRefused, Refuse, serviceVars
  <2> QED
    BY <1>1, <2>1, <2>2, <2>3, <2>4, <2>5, <2>6, <2>7 DEF Client
<1>2. ASSUME NEW c \in Conn, ClientConnect(c) /\ UNCHANGED serviceVars
      PROVE  ServiceInv'
  BY <1>2, ServicesUnchanged DEF ClientConnect, serviceVars
<1>3. ASSUME NEW c \in Conn, OutputCloses(c) /\ UNCHANGED serviceVars
      PROVE  ServiceInv'
  BY <1>3, ServicesUnchanged DEF OutputCloses, serviceVars
<1>4. ASSUME NEW c \in Conn, Disconnect(c) PROVE ServiceInv'
  BY <1>4, ReleaseServicesKeeps DEF Disconnect, Release
<1>5. CASE Shutdown
  BY <1>5, ReleaseServicesKeeps DEF Shutdown, Release
<1>6. CASE WorkerFails
  BY <1>6, WorkerFailsServices
<1>7. CASE Tick
  <2>1. CASE StartTick
    BY <2>1, ServicesUnchanged DEF StartTick, serviceVars
  <2>2. CASE EndPoll
    BY <2>2, ServicesUnchanged DEF EndPoll, serviceVars
  <2>3. CASE EndEvents
    BY <2>3, ServicesUnchanged DEF EndEvents, serviceVars
  <2>4. CASE EndTimers
    BY <2>4, ServicesUnchanged DEF EndTimers, serviceVars
  <2>5. CASE Reap
    BY <2>5, ReleaseServicesKeeps DEF Reap, Release
  <2>6. CASE HandleResponse
    BY <2>6, ServicesUnchanged DEF HandleResponse
  <2>7. CASE HandleRequest
    BY <2>7, HandleRequestServices
  <2> QED
    BY <1>7, <2>1, <2>2, <2>3, <2>4, <2>5, <2>6, <2>7 DEF Tick
<1>8. ASSUME NEW e, TakeResponse(e) PROVE ServiceInv'
  BY <1>8, ServicesUnchanged DEF TakeResponse, clientVars
<1>9. ASSUME NEW e, TakeRequest(e) PROVE ServiceInv'
  BY <1>9, ServicesUnchanged DEF TakeRequest, clientVars
<1>10. ASSUME NEW x, ExpireCall(x) PROVE ServiceInv'
  BY <1>10, ServicesUnchanged DEF ExpireCall
<1>11. ASSUME NEW x, ExpireExternal(x) PROVE ServiceInv'
  BY <1>11, ServicesUnchanged DEF ExpireExternal, clientVars
<1>12. CASE UNCHANGED vars
  BY <1>12, ServicesUnchanged DEF vars, clientVars, serviceVars
<1> QED
  BY <1>1, <1>2, <1>3, <1>4, <1>5, <1>6, <1>7, <1>8, <1>9, <1>10, <1>11,
     <1>12
     DEF Next

(* The service table and the ROS services stay consistent. *)
THEOREM ServiceInvariance == Spec => []ServiceInv
BY InitServices, NextServices, PTL DEF Spec

(* No ROS client or service outlives the call or advertisement it was      *)
(* created for, none is destroyed early, and no two share one, for any     *)
(* number of clients, services and calls.                                  *)
THEOREM HandlesAreOwned == Spec => []HandlesOwned
<1>1. CallInv /\ ServiceInv => HandlesOwned
  <2> SUFFICES ASSUME CallInv, ServiceInv PROVE HandlesOwned
    OBVIOUS
  <2>1. clients = {x.entity : x \in calls}
    BY DEF CallInv
  <2>2. servers = Gone({n \in Service : services[n] # NoService})
    BY DEF ServiceInv, Live
  <2>3. \A x, y \in calls : x.entity = y.entity => x = y
    BY UniqueCalls
  <2>4. \A n, m \in Service :
          /\ services[n] # NoService
          /\ services[m] # NoService
          /\ services[n].entity = services[m].entity
          => n = m
    BY DEF ServiceInv, Live
  <2> QED
    BY <2>1, <2>2, <2>3, <2>4 DEF HandlesOwned
<1> QED
  BY <1>1, CallInvariance, ServiceInvariance, PTL

-----------------------------------------------------------------------------
(* The client that a forwarded request waits for is connected. *)
Awaited == \A x \in external : x.owner \in outputs

(* No request is added and nobody is disconnected. *)
LEMMA AwaitedShrinks ==
    ASSUME Awaited, external' \subseteq external, outputs \subseteq outputs'
    PROVE  Awaited'
BY DEF Awaited

LEMMA ReleaseAwaited ==
    ASSUME Awaited, NEW D, ReleaseServices(D)
    PROVE  Awaited'
BY DEF Awaited, ReleaseServices, ExternalWithout

(* A request is forwarded to the owner of its service. *)
LEMMA HandleRequestAwaited ==
    ASSUME ServiceInv, Awaited, HandleRequest
    PROVE  Awaited'
<1> DEFINE found == {n \in Service :
                       /\ services[n] # NoService
                       /\ services[n].entity = Head(events).entity}
           new(n) == [name |-> n, n |-> services[n].next + 1,
                      owner |-> services[n].owner,
                      entity |-> services[n].entity,
                      request |-> Head(events).request]
<1>1. /\ external' \subseteq external \cup {new(n) : n \in found}
      /\ outputs' = outputs
  BY DEF HandleRequest
<1>2. \A n \in found : new(n).owner = services[n].owner /\ n \in Live
  BY DEF Live
<1> HIDE DEF found, new
<1> QED
  BY <1>1, <1>2 DEF Awaited, ServiceInv

LEMMA NextAwaited == ServiceInv /\ Awaited /\ [Next]_vars => Awaited'
<1> SUFFICES ASSUME ServiceInv, Awaited, [Next]_vars PROVE Awaited'
  OBVIOUS
<1>1. ASSUME NEW c \in Conn, Client(c) PROVE Awaited'
  <2>1. CASE CallService(c)
    BY <2>1, AwaitedShrinks DEF CallService, clientVars
  <2>2. CASE CallServiceFails(c)
    BY <2>2, AwaitedShrinks DEF CallServiceFails
  <2>3. ASSUME NEW n \in Service, NEW t \in Type, AdvertiseService(c, n, t)
        PROVE  Awaited'
    <3>1. external' \subseteq external /\ outputs' = outputs
      BY <2>3 DEF AdvertiseService, ExternalWithout, clientVars
    <3> QED
      BY <3>1, AwaitedShrinks
  <2>4. ASSUME NEW n \in Service, NEW t \in Type,
               AdvertiseServiceFails(c, n, t)
        PROVE  Awaited'
    <3>1. external' \subseteq external /\ outputs' = outputs
      BY <2>4 DEF AdvertiseServiceFails, RemoveServices, ExternalWithout
    <3> QED
      BY <3>1, AwaitedShrinks
  <2>5. ASSUME NEW n \in Service, UnadvertiseService(c, n)
        PROVE  Awaited'
    <3>1. external' \subseteq external /\ outputs' = outputs
      BY <2>5 DEF UnadvertiseService, RemoveServices, ExternalWithout,
                  clientVars
    <3> QED
      BY <3>1, AwaitedShrinks
  <2>6. ASSUME NEW k \in told, ServiceResponse(c, k) PROVE Awaited'
    BY <2>6, AwaitedShrinks DEF ServiceResponse, clientVars
  <2>7. CASE CommandRefused(c)
    BY <2>7, AwaitedShrinks DEF CommandRefused, Refuse, serviceVars
  <2> QED
    BY <1>1, <2>1, <2>2, <2>3, <2>4, <2>5, <2>6, <2>7 DEF Client
<1>2. ASSUME NEW c \in Conn, ClientConnect(c) /\ UNCHANGED serviceVars
      PROVE  Awaited'
  BY <1>2, AwaitedShrinks DEF ClientConnect, serviceVars
<1>3. ASSUME NEW c \in Conn, OutputCloses(c) /\ UNCHANGED serviceVars
      PROVE  Awaited'
  BY <1>3, AwaitedShrinks DEF OutputCloses, serviceVars
<1>4. ASSUME NEW c \in Conn, Disconnect(c) PROVE Awaited'
  BY <1>4, ReleaseAwaited DEF Disconnect, Release
<1>5. CASE Shutdown
  BY <1>5, ReleaseAwaited DEF Shutdown, Release
<1>6. CASE WorkerFails
  BY <1>6 DEF WorkerFails, Awaited
<1>7. CASE Tick
  <2>1. CASE StartTick
    BY <2>1, AwaitedShrinks DEF StartTick, serviceVars
  <2>2. CASE EndPoll
    BY <2>2, AwaitedShrinks DEF EndPoll, serviceVars
  <2>3. CASE EndEvents
    BY <2>3, AwaitedShrinks DEF EndEvents, serviceVars
  <2>4. CASE EndTimers
    BY <2>4, AwaitedShrinks DEF EndTimers, serviceVars
  <2>5. CASE Reap
    BY <2>5, ReleaseAwaited DEF Reap, Release
  <2>6. CASE HandleResponse
    BY <2>6, AwaitedShrinks DEF HandleResponse
  <2>7. CASE HandleRequest
    BY <2>7, HandleRequestAwaited
  <2> QED
    BY <1>7, <2>1, <2>2, <2>3, <2>4, <2>5, <2>6, <2>7 DEF Tick
<1>8. ASSUME NEW e, TakeResponse(e) PROVE Awaited'
  BY <1>8, AwaitedShrinks DEF TakeResponse, clientVars
<1>9. ASSUME NEW e, TakeRequest(e) PROVE Awaited'
  BY <1>9, AwaitedShrinks DEF TakeRequest, clientVars
<1>10. ASSUME NEW x, ExpireCall(x) PROVE Awaited'
  BY <1>10, AwaitedShrinks DEF ExpireCall
<1>11. ASSUME NEW x, ExpireExternal(x) PROVE Awaited'
  BY <1>11, AwaitedShrinks DEF ExpireExternal, clientVars
<1>12. CASE UNCHANGED vars
  BY <1>12, AwaitedShrinks DEF vars, clientVars, serviceVars
<1> QED
  BY <1>1, <1>2, <1>3, <1>4, <1>5, <1>6, <1>7, <1>8, <1>9, <1>10, <1>11,
     <1>12
     DEF Next

(* A client that disconnects, fails or is shut down leaves no service, no  *)
(* call and no forwarded request in the tables of the bridge, whatever was *)
(* in flight, for any number of clients.                                   *)
THEOREM NothingOrphaned == Spec => []NoOrphans
<1>1. Init => Awaited
  BY DEF Init, Awaited
<1>2. CallInv /\ ServiceInv /\ Awaited => NoOrphans
  BY DEF CallInv, ServiceInv, Live, Awaited, NoOrphans
<1>3. Spec => []Awaited
  BY <1>1, NextAwaited, ServiceInvariance, PTL DEF Spec
<1> QED
  BY <1>2, <1>3, CallInvariance, ServiceInvariance, PTL

(* For any number of clients and calls, whoever is gone owns nothing, and  *)
(* the handles in ROS are those of the tables.                             *)
THEOREM OwnedResources == Spec => []ResourcesOwned
BY NothingOrphaned, HandlesAreOwned, PTL DEF ResourcesOwned

-----------------------------------------------------------------------------
(***************************************************************************)
(* Requests from ROS.  The batch of a tick holds requests that arrived     *)
(* once each, for services that are still there, because services only go  *)
(* while the batch is empty; a forwarded request has left it.              *)
(***************************************************************************)
Requested(s) == {i \in 1..Len(s) : s[i].kind = "request"}
Headers(s) == {<<s[i].entity, s[i].request>> : i \in Requested(s)}

Batch ==
    /\ events \in Seq(EventRec)
    /\ arrived \in Nat
    /\ phase \notin {"poll", "events"} => events = << >>
    /\ \A i \in Requested(events) : /\ events[i].entity \in servers
                                    /\ events[i].request \in 1..arrived
    /\ \A i, j \in Requested(events) :
          events[i].request = events[j].request => i = j

Forwarded ==
    /\ external \subseteq ExternalRec
    /\ \A x \in external : /\ x.request \in 1..arrived
                           /\ \A i \in Requested(events) :
                                 events[i].request # x.request
    /\ \A x, y \in external : x.request = y.request => x = y
    /\ Answerable

HeadersKept ==
    requests = Headers(events) \cup {<<x.entity, x.request>> : x \in external}

RequestInv == Batch /\ Forwarded /\ HeadersKept

LEMMA InitRequests == Init => RequestInv
BY DEF Init, ClientsInit, RequestInv, Batch, Forwarded, HeadersKept, Answerable,
       Requested, Headers

(* The first event leaves the batch. *)
LEMMA TailRequested ==
    ASSUME NEW s \in Seq(EventRec), s # << >>
    PROVE  /\ Tail(s) \in Seq(EventRec)
           /\ \A i \in Requested(Tail(s)) : /\ i + 1 \in Requested(s)
                                            /\ Tail(s)[i] = s[i + 1]
                                            /\ i \in Nat
           /\ \A i \in Requested(s) : i = 1 \/ (i - 1 \in Requested(Tail(s)) /\ Tail(s)[i - 1] = s[i])
           /\ 1 \in Requested(s) <=> s[1].kind = "request"
           /\ Head(s) = s[1] /\ s[1] \in EventRec
<1>1. Len(s) \in Nat /\ Len(s) > 0 /\ Len(Tail(s)) = Len(s) - 1 /\ Tail(s) \in Seq(EventRec)
  OBVIOUS
<1>2. \A i \in 1..Len(Tail(s)) : Tail(s)[i] = s[i + 1]
  OBVIOUS
<1> QED
  BY <1>1, <1>2 DEF Requested

LEMMA TailHeaders ==
    ASSUME NEW s \in Seq(EventRec), s # << >>
    PROVE  /\ s[1].kind # "request" => Headers(Tail(s)) = Headers(s)
           /\ s[1].kind = "request" =>
                 Headers(s) = Headers(Tail(s)) \cup {<<s[1].entity, s[1].request>>}
<1>1. ASSUME NEW h \in Headers(Tail(s)) PROVE h \in Headers(s)
  <2>1. PICK i \in Requested(Tail(s)) : h = <<Tail(s)[i].entity, Tail(s)[i].request>>
    BY <1>1 DEF Headers
  <2>2. i + 1 \in Requested(s) /\ Tail(s)[i] = s[i + 1]
    BY TailRequested
  <2> QED
    BY <2>1, <2>2 DEF Headers
<1>2. ASSUME NEW h \in Headers(s)
      PROVE  h \in Headers(Tail(s)) \/ (h = <<s[1].entity, s[1].request>> /\ s[1].kind = "request")
  <2>1. PICK i \in Requested(s) : h = <<s[i].entity, s[i].request>>
    BY <1>2 DEF Headers
  <2>2. i = 1 \/ (i - 1 \in Requested(Tail(s)) /\ Tail(s)[i - 1] = s[i])
    BY TailRequested
  <2> QED
    BY <2>1, <2>2, TailRequested DEF Headers
<1>3. s[1].kind = "request" => <<s[1].entity, s[1].request>> \in Headers(s)
  BY TailRequested DEF Headers
<1> QED
  BY <1>1, <1>2, <1>3

(* a is s with the event v behind it. *)
Appended(s, v, a) ==
    /\ a \in Seq(EventRec)
    /\ \A i \in Requested(s) : i \in Requested(a) /\ a[i] = s[i]
    /\ \A i \in Requested(a) : \/ i \in Requested(s) /\ a[i] = s[i]
                               \/ i = Len(s) + 1 /\ a[i] = v /\ v.kind = "request"
    /\ v.kind = "request" => Len(s) + 1 \in Requested(a) /\ a[Len(s) + 1] = v

LEMMA AppendRequested ==
    ASSUME NEW s \in Seq(EventRec), NEW v \in EventRec
    PROVE  Appended(s, v, Append(s, v))
<1>0. PICK a : a = Append(s, v)
  OBVIOUS
<1>1. Len(s) \in Nat /\ Len(a) = Len(s) + 1 /\ a \in Seq(EventRec)
  BY <1>0
<1>2. /\ \A i \in 1..Len(s) : a[i] = s[i]
      /\ a[Len(s) + 1] = v
  BY <1>0
<1>3. Appended(s, v, a)
  BY <1>1, <1>2 DEF Requested, Appended
<1> QED
  BY <1>0, <1>3, Zenon

LEMMA AppendHeaders ==
    ASSUME NEW s, NEW v, NEW a, Appended(s, v, a)
    PROVE  /\ v.kind # "request" => Headers(a) = Headers(s)
           /\ v.kind = "request" => Headers(a) = Headers(s) \cup {<<v.entity, v.request>>}
<1>0. /\ \A i \in Requested(s) : i \in Requested(a) /\ a[i] = s[i]
      /\ \A i \in Requested(a) : \/ i \in Requested(s) /\ a[i] = s[i]
                                 \/ a[i] = v /\ v.kind = "request"
      /\ v.kind = "request" => \E i \in Requested(a) : a[i] = v
  BY Zenon DEF Appended
<1>1. ASSUME NEW h \in Headers(s) PROVE h \in Headers(a)
  <2>1. PICK i \in Requested(s) : h = <<s[i].entity, s[i].request>>
    BY <1>1, Zenon DEF Headers
  <2>2. i \in Requested(a) /\ a[i] = s[i]
    BY <1>0, Zenon
  <2> QED
    BY <2>1, <2>2, Zenon DEF Headers
<1>2. ASSUME NEW h \in Headers(a)
      PROVE  h \in Headers(s) \/ (h = <<v.entity, v.request>> /\ v.kind = "request")
  <2>1. PICK i \in Requested(a) : h = <<a[i].entity, a[i].request>>
    BY <1>2, Zenon DEF Headers
  <2> QED
    BY <1>0, <2>1, Zenon DEF Headers
<1>3. v.kind = "request" => <<v.entity, v.request>> \in Headers(a)
  BY <1>0, Zenon DEF Headers
<1> QED
  BY <1>1, <1>2, <1>3

-----------------------------------------------------------------------------
(* Nothing about requests changes; the batch is empty where it must be. *)
LEMMA RequestsQuiet ==
    ASSUME RequestInv, UNCHANGED <<services, external, servers, requests, events, arrived>>,
           phase' \notin {"poll", "events"} => events = << >>
    PROVE  RequestInv'
<1>1. Batch'
  BY DEF RequestInv, Batch
<1>2. Forwarded'
  BY DEF RequestInv, Forwarded, Answerable
<1>3. HeadersKept'
  BY DEF RequestInv, HeadersKept
<1> QED
  BY <1>1, <1>2, <1>3 DEF RequestInv

(* The services in N are removed while the batch is empty, and with them   *)
(* all that is known of their requests.                                    *)
LEMMA RequestsRemoved ==
    ASSUME RequestInv, events = << >>, UNCHANGED <<events, arrived>>,
           NEW N \in SUBSET Live, requests' = RequestsWithout(N),
           external' = ExternalWithout(N),
           \A m \in Live \ N : services'[m] = services[m]
    PROVE  RequestInv'
<1>1. Requested(events') = {} /\ Requested(events) = {}
  BY DEF Requested
<1>2. Batch'
  BY <1>1 DEF RequestInv, Batch
<1>3. \A x \in external' : x \in external /\ x.entity \notin Gone(N)
  BY DEF ExternalWithout
<1>4. \A x \in external' : services'[x.name] = services[x.name]
  <2> TAKE x \in external'
  <2>1. services[x.name] # NoService /\ services[x.name].entity = x.entity
        /\ x.name \in Service
    BY <1>3 DEF RequestInv, Forwarded, Answerable, ExternalRec
  <2>2. x.name \in Live /\ x.name \notin N
    BY <1>3, <2>1 DEF Live, Gone
  <2> QED
    BY <2>2
<1>5. Forwarded'
  <2>1. Answerable'
    BY <1>3, <1>4 DEF RequestInv, Forwarded, Answerable
  <2> QED
    BY <1>1, <1>3, <2>1 DEF RequestInv, Forwarded
<1>6. HeadersKept'
  <2>1. Headers(events) = {} /\ Headers(events') = {}
    BY <1>1 DEF Headers
  <2>2. requests = {<<x.entity, x.request>> : x \in external}
    BY <2>1 DEF RequestInv, HeadersKept
  <2>3. requests' = {<<x.entity, x.request>> : x \in external'}
    BY <2>2 DEF RequestsWithout, ExternalWithout
  <2> QED
    BY <2>1, <2>3 DEF HeadersKept
<1> QED
  BY <1>2, <1>5, <1>6 DEF RequestInv

(* The clients in D are disconnected. *)
LEMMA RequestsReleased ==
    ASSUME RequestInv, events = << >>, UNCHANGED <<events, arrived>>,
           NEW D, ReleaseServices(D)
    PROVE  RequestInv'
<1>1. Owned(D) \in SUBSET Live
  BY DEF Owned, Live
<1>2. \A x \in ExternalWithout(Owned(D)) : x.owner \notin D
  <2> TAKE x \in ExternalWithout(Owned(D))
  <2>1. x \in external /\ x.entity \notin Gone(Owned(D))
    BY DEF ExternalWithout
  <2>2. /\ x.name \in Service /\ services[x.name] # NoService
        /\ services[x.name].entity = x.entity /\ services[x.name].owner = x.owner
    BY <2>1 DEF RequestInv, Forwarded, Answerable, ExternalRec
  <2> QED
    BY <2>1, <2>2 DEF Owned, Gone
<1>3. external' = ExternalWithout(Owned(D)) /\ requests' = RequestsWithout(Owned(D))
  BY <1>2 DEF ReleaseServices
<1>4. \A m \in Live \ Owned(D) : services'[m] = services[m]
  BY DEF ReleaseServices, Live
<1> QED
  BY <1>1, <1>3, <1>4, RequestsRemoved

LEMMA AdvertiseRequests ==
    ASSUME RequestInv, ServiceInv, NEW c \in Conn, NEW n \in Service, NEW t \in Type,
           AdvertiseService(c, n, t)
    PROVE  RequestInv'
<1> DEFINE old == IF services[n] = NoService THEN {} ELSE {n}
           new == [owner |-> c, entity |-> adverts + 1, typ |-> t, next |-> 0]
<1>1. /\ services' = [services EXCEPT ![n] = new]
      /\ requests' = RequestsWithout(old)
      /\ external' = ExternalWithout(old)
      /\ UNCHANGED <<events, arrived>>
  BY DEF AdvertiseService
<1>2. events = << >>
  BY DEF AdvertiseService, Commands, RequestInv, Batch
<1>3. old \in SUBSET Live
  BY DEF Live
<1>4. \A m \in Live \ old : m # n
  BY DEF Live
<1> HIDE DEF old, new
<1>5. \A m \in Live \ old : services'[m] = services[m]
  BY <1>1, <1>4 DEF ServiceInv, Live
<1> QED
  BY <1>1, <1>2, <1>3, <1>5, RequestsRemoved

LEMMA RemoveOneRequests ==
    ASSUME RequestInv, ServiceInv, events = << >>, UNCHANGED <<events, arrived>>,
           NEW n \in Live, services' = [services EXCEPT ![n] = NoService],
           requests' = RequestsWithout({n}), external' = ExternalWithout({n})
    PROVE  RequestInv'
<1>1. \A m \in Live \ {n} : services'[m] = services[m]
  BY DEF ServiceInv, Live
<1>2. {n} \in SUBSET Live
  OBVIOUS
<1> QED
  BY <1>1, <1>2, RequestsRemoved

(* A forwarded request is answered or expires. *)
LEMMA RequestSettled ==
    ASSUME RequestInv, UNCHANGED <<services, servers, events, arrived, phase>>, NEW x \in external,
           external' = external \ {x}, requests' = requests \ {<<x.entity, x.request>>}
    PROVE  RequestInv'
<1>1. Batch'
  BY DEF RequestInv, Batch
<1>2. Forwarded'
  BY DEF RequestInv, Forwarded, Answerable
<1>3. \A y \in external' : <<y.entity, y.request>> # <<x.entity, x.request>>
  BY DEF RequestInv, Forwarded
<1>4. <<x.entity, x.request>> \notin Headers(events)
  BY DEF RequestInv, Forwarded, Headers
<1>5. HeadersKept'
  <2>1. requests = Headers(events) \cup {<<y.entity, y.request>> : y \in external}
    BY DEF RequestInv, HeadersKept
  <2>2. requests' = Headers(events) \cup {<<y.entity, y.request>> : y \in external'}
    BY <1>3, <1>4, <2>1
  <2> QED
    BY <2>2 DEF HeadersKept
<1> QED
  BY <1>1, <1>2, <1>5 DEF RequestInv

(* poll takes an event. *)
LEMMA TakeResponseRequests ==
    ASSUME RequestInv, CallInv, NEW e \in clients, TakeResponse(e)
    PROVE  RequestInv'
<1> DEFINE v == [kind |-> "response", entity |-> e, request |-> 0]
<1>1. e \in Nat
  BY DEF CallInv, CallType, CallRec
<1>2. v \in EventRec /\ v.kind # "request"
  BY <1>1 DEF EventRec
<1>3. /\ events' = Append(events, v) /\ phase = "poll"
      /\ UNCHANGED <<phase, services, external, servers, requests, arrived>>
  BY DEF TakeResponse, clientVars
<1>4. events \in Seq(EventRec)
  BY DEF RequestInv, Batch
<1> HIDE DEF v
<1>5. /\ events' \in Seq(EventRec) /\ Headers(events') = Headers(events)
      /\ \A i \in Requested(events') : i \in Requested(events) /\ events'[i] = events[i]
  <2>1. Appended(events, v, events')
    BY <1>2, <1>3, <1>4, AppendRequested, Zenon
  <2>2. Headers(events') = Headers(events)
    <3>1. v.kind # "request"
      BY <1>2
    <3> QED
      BY <2>1, <3>1, AppendHeaders
  <2> QED
    BY <1>2, <2>1, <2>2, Zenon DEF Appended
<1>6. Batch'
  <2>1. /\ \A i \in Requested(events) : events[i].entity \in servers /\ events[i].request \in 1..arrived
        /\ \A i, j \in Requested(events) : events[i].request = events[j].request => i = j
    BY DEF RequestInv, Batch
  <2>2. /\ \A i \in Requested(events') : events'[i].entity \in servers /\ events'[i].request \in 1..arrived
        /\ \A i, j \in Requested(events') : events'[i].request = events'[j].request => i = j
    BY <1>5, <2>1, Zenon
  <2> QED
    BY <1>3, <1>5, <2>2 DEF RequestInv, Batch
<1>7. Forwarded'
  <2>1. \A x \in external : /\ x.request \in 1..arrived
                            /\ \A i \in Requested(events) : events[i].request # x.request
    BY DEF RequestInv, Forwarded
  <2>2. \A x \in external : \A i \in Requested(events') : events'[i].request # x.request
    BY <1>5, <2>1, Zenon
  <2>3. Answerable'
    BY <1>3 DEF RequestInv, Forwarded, Answerable
  <2> QED
    BY <1>3, <2>1, <2>2, <2>3 DEF RequestInv, Forwarded
<1>8. HeadersKept'
  BY <1>3, <1>5 DEF RequestInv, HeadersKept
<1> QED
  BY <1>6, <1>7, <1>8 DEF RequestInv

LEMMA TakeRequestRequests ==
    ASSUME RequestInv, ServiceInv, NEW e \in servers, TakeRequest(e)
    PROVE  RequestInv'
<1> DEFINE v == [kind |-> "request", entity |-> e, request |-> arrived + 1]
<1>0. arrived \in Nat
  BY DEF RequestInv, Batch
<1>1. e \in Nat
  BY DEF ServiceInv, Gone
<1>2. v \in EventRec /\ v.kind = "request" /\ v.entity = e /\ v.request = arrived + 1
  BY <1>0, <1>1 DEF EventRec
<1>3. /\ events' = Append(events, v) /\ phase = "poll" /\ arrived' = arrived + 1
      /\ requests' = requests \cup {<<e, arrived + 1>>}
      /\ UNCHANGED <<phase, services, external, servers>>
  BY DEF TakeRequest, clientVars
<1>4. events \in Seq(EventRec)
  BY DEF RequestInv, Batch
<1> HIDE DEF v
<1>5. /\ Appended(events, v, events')
      /\ events' \in Seq(EventRec)
      /\ Headers(events') = Headers(events) \cup {<<e, arrived + 1>>}
  <2>1. Appended(events, v, events')
    BY <1>2, <1>3, <1>4, AppendRequested, Zenon
  <2>2. Headers(events') = Headers(events) \cup {<<v.entity, v.request>>}
    <3>1. v.kind = "request"
      BY <1>2
    <3> QED
      BY <2>1, <3>1, AppendHeaders
  <2> QED
    BY <1>2, <2>1, <2>2, Zenon DEF Appended
<1>6. \A i \in Requested(events') :
         (i \in Requested(events) /\ events'[i] = events[i]) \/ (i = Len(events) + 1 /\ events'[i] = v)
  BY <1>5, Zenon DEF Appended
<1>7. \A i \in Requested(events) : events[i].entity \in servers /\ events[i].request \in 1..arrived
  BY DEF RequestInv, Batch
<1>8. Batch'
  <2>1. \A i \in Requested(events') : events'[i].entity \in servers' /\ events'[i].request \in 1..arrived'
    <3> SUFFICES ASSUME NEW i \in Requested(events')
                 PROVE  events'[i].entity \in servers /\ events'[i].request \in 1..(arrived + 1)
      BY <1>3
    <3>1. CASE i \in Requested(events) /\ events'[i] = events[i]
      <4>1. events'[i].entity \in servers /\ events'[i].request \in 1..arrived
        BY <1>7, <3>1, Zenon
      <4> QED
        BY <1>0, <4>1
    <3>2. CASE events'[i] = v
      BY <1>0, <1>2, <3>2
    <3> QED
      BY <1>6, <3>1, <3>2, Zenon
  <2>2. \A i, j \in Requested(events') : events'[i].request = events'[j].request => i = j
    <3> SUFFICES ASSUME NEW i \in Requested(events'), NEW j \in Requested(events'),
                        events'[i].request = events'[j].request
                 PROVE  i = j
      OBVIOUS
    <3>1. CASE i \in Requested(events) /\ events'[i] = events[i] /\ j \in Requested(events) /\ events'[j] = events[j]
      BY <3>1 DEF RequestInv, Batch
    <3>2. \A m \in Requested(events) : events[m].request # arrived + 1
      BY <1>0, <1>7
    <3>3. v.request = arrived + 1
      BY <1>2
    <3> QED
      BY <1>6, <3>1, <3>2, <3>3, Zenon
  <2>3. arrived' \in Nat /\ phase' = "poll"
    BY <1>0, <1>3
  <2> QED
    BY <1>5, <2>1, <2>2, <2>3, Zenon DEF Batch
<1>9. Forwarded'
  <2>1. \A x \in external : /\ x.request \in 1..arrived
                            /\ \A i \in Requested(events) : events[i].request # x.request
    BY DEF RequestInv, Forwarded
  <2>2. \A x \in external' : /\ x.request \in 1..arrived'
                             /\ \A i \in Requested(events') : events'[i].request # x.request
    <3> SUFFICES ASSUME NEW x \in external
                 PROVE  /\ x.request \in 1..(arrived + 1)
                        /\ \A i \in Requested(events') : events'[i].request # x.request
      BY <1>3
    <3>1. x.request \in 1..arrived
      BY <2>1
    <3>2. x.request \in 1..(arrived + 1) /\ x.request # v.request
      BY <1>0, <1>2, <3>1
    <3> QED
      BY <1>6, <2>1, <3>2, Zenon
  <2>3. Answerable'
    BY <1>3 DEF RequestInv, Forwarded, Answerable
  <2> QED
    BY <1>3, <2>2, <2>3 DEF RequestInv, Forwarded
<1>10. HeadersKept'
  BY <1>3, <1>5 DEF RequestInv, HeadersKept
<1> QED
  BY <1>8, <1>9, <1>10 DEF RequestInv

(* The batch without its first event. *)
LEMMA TailBatch ==
    ASSUME Batch, events # << >>, phase = "events", events' = Tail(events),
           UNCHANGED <<phase, servers, arrived>>
    PROVE  /\ Batch'
           /\ \A i \in Requested(events') : i + 1 \in Requested(events) /\ events'[i] = events[i + 1] /\ i + 1 # 1
<1>1. events \in Seq(EventRec)
  BY DEF Batch
<1>2. /\ events' \in Seq(EventRec)
      /\ \A i \in Requested(events') : i + 1 \in Requested(events) /\ events'[i] = events[i + 1] /\ i \in Nat
  BY <1>1, TailRequested
<1>3. \A i \in Requested(events') : i >= 1 /\ i + 1 # 1
  BY <1>2 DEF Requested
<1>4. \A i, j \in Requested(events') : events'[i].request = events'[j].request => i = j
  <2> SUFFICES ASSUME NEW i \in Requested(events'), NEW j \in Requested(events'),
                      events'[i].request = events'[j].request
               PROVE  i = j
    OBVIOUS
  <2>1. events[i + 1].request = events[j + 1].request
    BY <1>2
  <2>2. i + 1 = j + 1
    BY <1>2, <2>1 DEF Batch
  <2> QED
    BY <1>2, <2>2
<1>5. \A i \in Requested(events') : events'[i].entity \in servers' /\ events'[i].request \in 1..arrived'
  BY <1>2 DEF Batch
<1> QED
  BY <1>2, <1>3, <1>4, <1>5 DEF Batch

LEMMA HandleResponseRequests == ASSUME RequestInv, HandleResponse PROVE RequestInv'
<1>1. /\ phase = "events" /\ events # << >> /\ Head(events).kind = "response"
      /\ events' = Tail(events)
      /\ UNCHANGED <<phase, services, external, servers, requests, arrived>>
  BY DEF HandleResponse
<1>2. events \in Seq(EventRec) /\ Batch
  BY DEF RequestInv, Batch
<1>3. /\ Batch'
      /\ \A i \in Requested(events') : i + 1 \in Requested(events) /\ events'[i] = events[i + 1]
  BY <1>1, <1>2, TailBatch
<1>4. Headers(events') = Headers(events)
  BY <1>1, <1>2, TailHeaders, TailRequested
<1>5. Forwarded'
  <2>1. \A x \in external : /\ x.request \in 1..arrived
                            /\ \A i \in Requested(events) : events[i].request # x.request
    BY DEF RequestInv, Forwarded
  <2>2. \A x \in external : \A i \in Requested(events') : events'[i].request # x.request
    <3> SUFFICES ASSUME NEW x \in external, NEW i \in Requested(events')
                 PROVE  events'[i].request # x.request
      OBVIOUS
    <3>1. i + 1 \in Requested(events) /\ events'[i] = events[i + 1]
      BY <1>3
    <3> QED
      BY <2>1, <3>1, Zenon
  <2>3. Answerable'
    BY <1>1 DEF RequestInv, Forwarded, Answerable
  <2> QED
    BY <1>1, <2>1, <2>2, <2>3 DEF RequestInv, Forwarded
<1>6. HeadersKept'
  BY <1>1, <1>4 DEF RequestInv, HeadersKept
<1> QED
  BY <1>3, <1>5, <1>6 DEF RequestInv

(* A request is handed to its service, which exists and is the only one it *)
(* can be for; the number it gets is a new one.                            *)
(* The request gets an identifier that no other pending request of its     *)
(* service has, and so replaces none.                                      *)
LEMMA Forwards ==
    ASSUME RequestInv, ServiceInv, HandleRequest
    PROVE  \E k \in Live, y \in ExternalRec :
              /\ k \in Service /\ services[k] \in ServiceRec
              /\ y.name = k /\ y.n = services[k].next + 1 /\ y.owner = services[k].owner
              /\ y.entity = services[k].entity
              /\ y.entity = Head(events).entity /\ y.request = Head(events).request
              /\ external' = external \cup {y} /\ told' = told \cup {y}
              /\ services'[k].entity = services[k].entity /\ services'[k].owner = services[k].owner
              /\ services'[k].next = services[k].next + 1 /\ services'[k] # NoService
              /\ \A n \in Service : n # k => services'[n] = services[n]
<1> DEFINE h == Head(events)
           found == {n \in Service : /\ services[n] # NoService
                                     /\ services[n].entity = Head(events).entity}
           new(n) == [name |-> n, n |-> services[n].next + 1,
                      owner |-> services[n].owner,
                      entity |-> services[n].entity,
                      request |-> Head(events).request]
<1>1. /\ phase = "events" /\ events # << >> /\ h.kind = "request"
      /\ events' = Tail(events)
      /\ services' = [n \in Service |->
                        IF n \in found
                        THEN [services[n] EXCEPT !.next = @ + 1]
                        ELSE services[n]]
      /\ external' = {x \in external : \A n \in found :
                         x.name # n \/ x.n # services[n].next + 1}
                      \cup {new(n) : n \in found}
      /\ told' = told \cup {new(n) : n \in found}
  BY DEF HandleRequest
<1>2. events \in Seq(EventRec) /\ Batch /\ h = events[1] /\ h \in EventRec /\ 1 \in Requested(events)
  BY <1>1, TailRequested DEF RequestInv, Batch
<1>3. h.entity \in servers /\ h.request \in 1..arrived
  BY <1>2 DEF Batch
<1>4. PICK k \in Live : services[k].entity = h.entity
  BY <1>3 DEF ServiceInv, Gone
<1>5. \A n \in Service : n \in found <=> n = k
  BY <1>4 DEF ServiceInv, Live
<1>6. services[k] \in ServiceRec /\ k \in Service
  BY LiveType
<1>7. PICK y : y = new(k)
  OBVIOUS
<1>8. /\ y \in ExternalRec /\ y.name = k /\ y.n = services[k].next + 1
      /\ y.owner = services[k].owner /\ y.entity = h.entity /\ y.request = h.request
  <2>1. h.request \in Nat /\ services[k].next + 1 \in Nat
    BY <1>2, <1>6 DEF EventRec, ServiceRec
  <2> QED
    BY <1>4, <1>6, <1>7, <2>1 DEF ExternalRec, ServiceRec
<1>9. found = {k}
  <2>1. found \subseteq Service
    OBVIOUS
  <2> HIDE DEF found
  <2> QED
    BY <1>5, <1>6, <2>1
<1>10. {new(n) : n \in found} = {y}
  BY <1>7, <1>9
<1>11. {x \in external : \A n \in found : x.name # n \/ x.n # services[n].next + 1} = external
  <2>1. \A x \in external : x.name = k => x.n # services[k].next + 1
    BY <1>6 DEF RequestInv, Forwarded, Answerable, ServiceRec
  <2> QED
    BY <1>9, <2>1
<1>12. external' = external \cup {y} /\ told' = told \cup {y}
  BY <1>1, <1>10, <1>11
<1>13. /\ services'[k].entity = services[k].entity /\ services'[k].owner = services[k].owner
       /\ services'[k].next = services[k].next + 1 /\ services'[k] # NoService
       /\ \A n \in Service : n # k => services'[n] = services[n]
  <2>1. services'[k] = [services[k] EXCEPT !.next = @ + 1] /\ \A n \in Service : n # k => services'[n] = services[n]
    BY <1>1, <1>5, <1>6
  <2>2. services'[k] \in ServiceRec
    BY <1>6, <2>1 DEF ServiceRec
  <2> QED
    BY <1>6, <2>1, <2>2, NoServiceAssumption DEF ServiceRec
<1> HIDE DEF found, new
<1> QED
  BY <1>4, <1>6, <1>8, <1>12, <1>13

LEMMA HandleRequestRequests == ASSUME RequestInv, ServiceInv, HandleRequest PROVE RequestInv'
<1> DEFINE h == Head(events)
<1>1. /\ phase = "events" /\ events # << >> /\ h.kind = "request"
      /\ events' = Tail(events)
      /\ UNCHANGED <<phase, servers, requests, arrived>>
  BY DEF HandleRequest
<1>2. events \in Seq(EventRec) /\ Batch /\ h = events[1] /\ h \in EventRec /\ 1 \in Requested(events)
  BY <1>1, TailRequested DEF RequestInv, Batch
<1>3. h.entity \in servers /\ h.request \in 1..arrived
  BY <1>2 DEF Batch
<1>4. PICK k \in Live, y \in ExternalRec :
              /\ k \in Service /\ services[k] \in ServiceRec
              /\ y.name = k /\ y.n = services[k].next + 1 /\ y.owner = services[k].owner
              /\ y.entity = services[k].entity
              /\ y.entity = h.entity /\ y.request = h.request
              /\ external' = external \cup {y} /\ told' = told \cup {y}
              /\ services'[k].entity = services[k].entity /\ services'[k].owner = services[k].owner
              /\ services'[k].next = services[k].next + 1 /\ services'[k] # NoService
              /\ \A n \in Service : n # k => services'[n] = services[n]
  BY Forwards
<1> HIDE DEF h
<1>5. /\ Batch'
       /\ \A i \in Requested(events') :
             i + 1 \in Requested(events) /\ events'[i] = events[i + 1] /\ i + 1 # 1
  BY <1>1, <1>2, TailBatch
<1>6. \A i \in Requested(events') : events'[i].request # h.request
  BY <1>2, <1>5 DEF Batch
<1>7. \A x \in external : x.request # h.request
  BY <1>2 DEF RequestInv, Forwarded
<1>8. Answerable'
  <2>1. \A x \in external : /\ x.name \in Service /\ services[x.name] # NoService
                            /\ services[x.name].entity = x.entity
                            /\ services[x.name].owner = x.owner
                            /\ x.n \in 1..services[x.name].next
    BY DEF RequestInv, Forwarded, Answerable, ExternalRec
  <2>2. services[k].next \in Nat
    BY <1>4 DEF ServiceRec
  <2>3. \A x \in external' : /\ services'[x.name] # NoService
                             /\ services'[x.name].entity = x.entity
                             /\ services'[x.name].owner = x.owner
                             /\ x.n \in 1..services'[x.name].next
    <3> TAKE x \in external'
    <3>1. CASE x = y
      <4>1. x.name = k /\ x.n = services[k].next + 1 /\ x.owner = services[k].owner /\ x.entity = services[k].entity
        BY <1>4, <3>1
      <4>2. services'[k].next = services[k].next + 1
        BY <1>4
      <4>3. x.n \in 1..services'[k].next
        BY <2>2, <4>1, <4>2
      <4> QED
        BY <1>4, <4>1, <4>3
    <3>2. CASE x \in external /\ x.name = k
      <4>1. /\ x.entity = services[k].entity /\ x.owner = services[k].owner
            /\ x.n \in 1..services[k].next
        BY <2>1, <3>2
      <4>2. services'[k].next = services[k].next + 1
        BY <1>4
      <4>3. x.n \in 1..services'[k].next
        BY <2>2, <4>1, <4>2
      <4> QED
        BY <1>4, <3>2, <4>1, <4>3
    <3>3. CASE x \in external /\ x.name # k
      <4>1. services'[x.name] = services[x.name]
        BY <1>4, <2>1, <3>3
      <4> QED
        BY <2>1, <3>3, <4>1
    <3> QED
      BY <1>4, <3>1, <3>2, <3>3
  <2>4. \A x \in external : x.name = k => x.n # y.n
    BY <1>4, <2>1, <2>2
  <2>5. \A x, z \in external' : x.name = z.name /\ x.n = z.n => x = z
    <3>1. \A x, z \in external : x.name = z.name /\ x.n = z.n => x = z
      BY DEF RequestInv, Forwarded, Answerable
    <3> QED
      BY <1>4, <2>4, <3>1
  <2> QED
    BY <2>3, <2>5 DEF Answerable
<1>9. Forwarded'
  <2>1. external' \subseteq ExternalRec
    BY <1>4 DEF RequestInv, Forwarded
  <2>2. \A x \in external' : /\ x.request \in 1..arrived'
                             /\ \A i \in Requested(events') : events'[i].request # x.request
    <3>1. \A x \in external : /\ x.request \in 1..arrived
                              /\ \A i \in Requested(events) : events[i].request # x.request
      BY DEF RequestInv, Forwarded
    <3>2. \A x \in external : \A i \in Requested(events') : events'[i].request # x.request
      <4> SUFFICES ASSUME NEW x \in external, NEW i \in Requested(events')
                   PROVE  events'[i].request # x.request
        OBVIOUS
      <4>1. i + 1 \in Requested(events) /\ events'[i] = events[i + 1]
        BY <1>5
      <4> QED
        BY <3>1, <4>1, Zenon
    <3>3. y.request \in 1..arrived /\ \A i \in Requested(events') : events'[i].request # y.request
      BY <1>3, <1>4, <1>6
    <3>4. arrived' = arrived /\ external' = external \cup {y}
      BY <1>1, <1>4
    <3> QED
      BY <3>1, <3>2, <3>3, <3>4
  <2>3. \A x, z \in external' : x.request = z.request => x = z
    BY <1>4, <1>7 DEF RequestInv, Forwarded
  <2> QED
    BY <1>8, <2>1, <2>2, <2>3 DEF Forwarded
<1>10. HeadersKept'
  <2>1. Headers(events) = Headers(events') \cup {<<h.entity, h.request>>}
    BY <1>1, <1>2, TailHeaders
  <2>2. {<<x.entity, x.request>> : x \in external'}
            = {<<x.entity, x.request>> : x \in external} \cup {<<h.entity, h.request>>}
    BY <1>4
  <2>3. requests = Headers(events) \cup {<<x.entity, x.request>> : x \in external}
    BY DEF RequestInv, HeadersKept
  <2>4. requests' = Headers(events') \cup {<<x.entity, x.request>> : x \in external'}
    BY <1>1, <2>1, <2>2, <2>3
  <2> QED
    BY <2>4 DEF HeadersKept
<1> QED
  BY <1>5, <1>9, <1>10 DEF RequestInv

LEMMA WorkerFailsRequests == ASSUME RequestInv, WorkerFails PROVE RequestInv'
<1>1. /\ external' = {} /\ requests' = {} /\ events' = << >> /\ arrived' = arrived
  BY DEF WorkerFails
<1>2. Requested(events') = {}
  BY <1>1 DEF Requested
<1> QED
  BY <1>1, <1>2 DEF RequestInv, Batch, Forwarded, HeadersKept, Answerable, Headers

LEMMA NextRequests == CallInv /\ ServiceInv /\ RequestInv /\ [Next]_vars => RequestInv'
<1> SUFFICES ASSUME CallInv, ServiceInv, RequestInv, [Next]_vars PROVE RequestInv'
  OBVIOUS
<1>0. phase \notin {"poll", "events"} => events = << >>
  BY DEF RequestInv, Batch
<1>1. ASSUME NEW c \in Conn, Client(c) PROVE RequestInv'
  <2>0. events = << >> /\ phase = "commands"
    BY <1>0, <1>1 DEF Client, Commands, CallService, CallServiceFails, AdvertiseService,
       AdvertiseServiceFails, UnadvertiseService, ServiceResponse, CommandRefused
  <2>1. CASE CallService(c)
    BY <2>0, <2>1, RequestsQuiet DEF CallService
  <2>2. CASE CallServiceFails(c)
    BY <2>0, <2>2, RequestsQuiet DEF CallServiceFails
  <2>3. ASSUME NEW n \in Service, NEW t \in Type, AdvertiseService(c, n, t)
        PROVE  RequestInv'
    BY <2>3, AdvertiseRequests
  <2>4. ASSUME NEW n \in Service, NEW t \in Type,
               AdvertiseServiceFails(c, n, t)
        PROVE  RequestInv'
    <3>1. n \in Live
      BY <2>4 DEF AdvertiseServiceFails, Live
    <3> QED
      BY <2>0, <2>4, <3>1, RemoveOneRequests DEF AdvertiseServiceFails, RemoveServices
  <2>5. ASSUME NEW n \in Service, UnadvertiseService(c, n)
        PROVE  RequestInv'
    <3>1. n \in Live
      BY <2>5 DEF UnadvertiseService, Owned, Live
    <3> QED
      BY <2>0, <2>5, <3>1, RemoveOneRequests DEF UnadvertiseService, RemoveServices
  <2>6. ASSUME NEW k \in told, ServiceResponse(c, k) PROVE RequestInv'
    BY <2>6, RequestSettled DEF ServiceResponse, FoundByOwner, clientVars
  <2>7. CASE CommandRefused(c)
    BY <2>0, <2>7, RequestsQuiet DEF CommandRefused, Refuse, serviceVars
  <2> QED
    BY <1>1, <2>1, <2>2, <2>3, <2>4, <2>5, <2>6, <2>7 DEF Client
<1>2. ASSUME NEW c \in Conn, ClientConnect(c) /\ UNCHANGED serviceVars
      PROVE  RequestInv'
  BY <1>0, <1>2, RequestsQuiet DEF ClientConnect, serviceVars
<1>3. ASSUME NEW c \in Conn, OutputCloses(c) /\ UNCHANGED serviceVars
      PROVE  RequestInv'
  BY <1>0, <1>3, RequestsQuiet DEF OutputCloses, serviceVars
<1>4. ASSUME NEW c \in Conn, Disconnect(c) PROVE RequestInv'
  BY <1>0, <1>4, RequestsReleased DEF Disconnect, Release
<1>5. CASE Shutdown
  BY <1>0, <1>5, RequestsReleased DEF Shutdown, Release, Advance
<1>6. CASE WorkerFails
  BY <1>6, WorkerFailsRequests
<1>7. CASE Tick
  <2>1. CASE StartTick
    BY <1>0, <2>1, RequestsQuiet DEF StartTick, serviceVars, Advance
  <2>2. CASE EndPoll
    BY <2>2, RequestsQuiet DEF EndPoll, serviceVars, Advance
  <2>3. CASE EndEvents
    BY <2>3, RequestsQuiet DEF EndEvents, serviceVars, Advance
  <2>4. CASE EndTimers
    BY <1>0, <2>4, RequestsQuiet DEF EndTimers, serviceVars, Advance
  <2>5. CASE Reap
    BY <1>0, <2>5, RequestsReleased DEF Reap, Release, Advance
  <2>6. CASE HandleResponse
    BY <2>6, HandleResponseRequests
  <2>7. CASE HandleRequest
    BY <2>7, HandleRequestRequests
  <2> QED
    BY <1>7, <2>1, <2>2, <2>3, <2>4, <2>5, <2>6, <2>7 DEF Tick
<1>8. ASSUME NEW e \in clients, TakeResponse(e) PROVE RequestInv'
  BY <1>8, TakeResponseRequests
<1>9. ASSUME NEW e \in servers, TakeRequest(e) PROVE RequestInv'
  BY <1>9, TakeRequestRequests
<1>10. ASSUME NEW x, ExpireCall(x) PROVE RequestInv'
  BY <1>0, <1>10, RequestsQuiet DEF ExpireCall
<1>11. ASSUME NEW x \in external, ExpireExternal(x) PROVE RequestInv'
  BY <1>11, RequestSettled DEF ExpireExternal, clientVars
<1>12. CASE UNCHANGED vars
  BY <1>0, <1>12, RequestsQuiet DEF vars, clientVars, serviceVars
<1> QED
  BY <1>1, <1>2, <1>3, <1>4, <1>5, <1>6, <1>7, <1>8, <1>9, <1>10, <1>11,
     <1>12
     DEF Next

-----------------------------------------------------------------------------
(***************************************************************************)
(* What the clients were told.  The identifiers that a service has handed  *)
(* out reach up to its counter, and no two requests of one advertisement   *)
(* have the same.                                                          *)
(***************************************************************************)
Told ==
    /\ told \subseteq ExternalRec /\ external \subseteq told
    /\ \A k \in told : k.entity \in 1..adverts
    /\ \A k \in told, n \in Live : services[n].entity = k.entity => k.n <= services[n].next
    /\ \A k, l \in told : k.entity = l.entity /\ k.n = l.n => k = l

Answers ==
    /\ answers \subseteq [asked : told, given : told]
    /\ \A a \in answers : a.asked.owner = a.given.owner /\ a.asked.n = a.given.n

ToldInv == Told /\ Answers

LEMMA InitTold == Init => ToldInv
BY DEF Init, ToldInv, Told, Answers

(* Services are removed and requests end; nobody is told anything. *)
LEMMA ToldQuiet ==
    ASSUME ToldInv, UNCHANGED <<adverts, answerVars>>, external' \subseteq external,
           \A n \in Service : services'[n] \in {services[n], NoService}
    PROVE  ToldInv'
<1>1. \A n \in Live' : n \in Live /\ services'[n] = services[n]
  BY DEF Live
<1>2. UNCHANGED <<told, answers>>
  BY DEF answerVars
<1> QED
  BY <1>1, <1>2 DEF ToldInv, Told, Answers

(* No request has come from the ROS service of a new advertisement. *)
LEMMA AdvertiseTold ==
    ASSUME ServiceInv, ToldInv, NEW c \in Conn, NEW n \in Service, NEW t \in Type,
           AdvertiseService(c, n, t)
    PROVE  ToldInv'
<1>1. /\ adverts \in Nat /\ adverts' = adverts + 1
      /\ services'[n].entity = adverts + 1
      /\ \A m \in Service : m # n => services'[m] = services[m]
      /\ external' \subseteq external
      /\ UNCHANGED <<told, answers>>
  BY DEF AdvertiseService, ServiceInv, ExternalWithout, answerVars
<1>2. \A k \in told : k.entity \in 1..adverts /\ k.entity # adverts + 1
  BY <1>1 DEF ToldInv, Told
<1>3. \A k \in told, m \in Live' : services'[m].entity = k.entity => k.n <= services'[m].next
  <2> SUFFICES ASSUME NEW k \in told, NEW m \in Live', services'[m].entity = k.entity
               PROVE  k.n <= services'[m].next
    OBVIOUS
  <2>1. m \in Service /\ m # n /\ services'[m] # NoService
    BY <1>1, <1>2 DEF Live
  <2>2. services'[m] = services[m] /\ m \in Live
    BY <1>1, <2>1 DEF Live
  <2> QED
    BY <2>2 DEF ToldInv, Told
<1>4. \A k \in told : k.entity \in 1..adverts'
  BY <1>1, <1>2
<1> QED
  BY <1>1, <1>3, <1>4 DEF ToldInv, Told, Answers

(* The answer for a request goes to a pending one of the same client. *)
LEMMA ServiceResponseTold ==
    ASSUME ToldInv, NEW c \in Conn, NEW k \in told, ServiceResponse(c, k)
    PROVE  ToldInv'
<1>1. PICK x \in external : /\ x.n = k.n /\ x.owner = k.owner
                            /\ external' = external \ {x}
                            /\ answers' = answers \cup {[asked |-> k, given |-> x]}
  BY DEF ServiceResponse, FoundByOwner
<1>2. UNCHANGED <<services, adverts, told>>
  BY DEF ServiceResponse
<1>3. Told'
  BY <1>1, <1>2 DEF ToldInv, Told, Live
<1>4. x \in told
  BY DEF ToldInv, Told
<1>5. Answers'
  BY <1>1, <1>2, <1>4 DEF ToldInv, Answers
<1> QED
  BY <1>3, <1>5 DEF ToldInv

(* A forwarded request gets an identifier above all those of its service. *)
LEMMA HandleRequestTold ==
    ASSUME RequestInv, ServiceInv, ToldInv, HandleRequest
    PROVE  ToldInv'
<1>1. PICK k \in Live, y \in ExternalRec :
              /\ k \in Service /\ services[k] \in ServiceRec
              /\ y.n = services[k].next + 1
              /\ y.entity = services[k].entity
              /\ external' = external \cup {y} /\ told' = told \cup {y}
              /\ services'[k].entity = services[k].entity
              /\ services'[k].next = services[k].next + 1 /\ services'[k] # NoService
              /\ \A n \in Service : n # k => services'[n] = services[n]
  BY Forwards
<1>2. UNCHANGED <<adverts, answers>>
  BY DEF HandleRequest
<1>3. services[k].next \in Nat /\ services[k].entity \in 1..adverts
  BY <1>1 DEF ServiceRec, ServiceInv
<1>4. \A l \in told : /\ l.n \in Nat
                      /\ l.entity = y.entity => l.n <= services[k].next
  BY <1>1 DEF ToldInv, Told, ExternalRec
<1>5. \A n \in Live' : n \in Live /\ services'[n].entity = services[n].entity
  BY <1>1 DEF Live
<1>6. ASSUME NEW l \in told', NEW n \in Live', services'[n].entity = l.entity
      PROVE  l.n <= services'[n].next
  <2>1. CASE n = k
    <3>1. l = y \/ (l \in told /\ l.entity = y.entity)
      BY <1>1, <1>6, <2>1
    <3>2. l.n \in Nat /\ l.n <= services[k].next + 1
      <4>1. l = y => l.n = services[k].next + 1
        BY <1>1
      <4>2. l # y => l.n \in Nat /\ l.n <= services[k].next
        BY <1>4, <3>1
      <4>3. PICK i \in Nat : i = services[k].next
        BY <1>3
      <4>4. PICK j : j = l.n
        OBVIOUS
      <4>5. j \in Nat /\ j <= i + 1
        BY <4>1, <4>2, <4>3, <4>4
      <4> QED
        BY <4>3, <4>4, <4>5
    <3>3. services'[n].next = services[k].next + 1
      BY <1>1, <2>1
    <3> QED
      BY <3>2, <3>3
  <2>2. CASE n # k
    <3>1. services'[n] = services[n] /\ n \in Live
      BY <1>1, <1>5, <2>2 DEF Live
    <3>2. l # y
      <4>1. services[n].entity # services[k].entity
        BY <2>2, <3>1 DEF ServiceInv
      <4> QED
        BY <1>1, <1>6, <3>1, <4>1
    <3> QED
      BY <1>1, <1>6, <3>1, <3>2 DEF ToldInv, Told
  <2> QED
    BY <2>1, <2>2
<1>7. \A l \in told : l.entity = y.entity => l.n # y.n
  BY <1>1, <1>3, <1>4
<1>8. Told'
  <2>1. told' \subseteq ExternalRec /\ external' \subseteq told'
    BY <1>1 DEF ToldInv, Told
  <2>2. \A l \in told' : l.entity \in 1..adverts'
    BY <1>1, <1>2, <1>3 DEF ToldInv, Told
  <2>3. \A l, m \in told' : l.entity = m.entity /\ l.n = m.n => l = m
    BY <1>1, <1>7 DEF ToldInv, Told
  <2> QED
    BY <1>6, <2>1, <2>2, <2>3 DEF Told
<1>9. Answers'
  BY <1>1, <1>2 DEF ToldInv, Answers
<1> QED
  BY <1>8, <1>9 DEF ToldInv

LEMMA ReleaseTold ==
    ASSUME ToldInv, NEW D, ReleaseServices(D), UNCHANGED <<adverts, answerVars>>
    PROVE  ToldInv'
BY ToldQuiet DEF ReleaseServices, ExternalWithout

LEMMA NextTold == ServiceInv /\ RequestInv /\ ToldInv /\ [Next]_vars => ToldInv'
<1> SUFFICES ASSUME ServiceInv, RequestInv, ToldInv, [Next]_vars PROVE ToldInv'
  OBVIOUS
<1>1. ASSUME NEW c \in Conn, Client(c) PROVE ToldInv'
  <2>1. CASE CallService(c)
    BY <2>1, ToldQuiet DEF CallService
  <2>2. CASE CallServiceFails(c)
    BY <2>2, ToldQuiet DEF CallServiceFails
  <2>3. ASSUME NEW n \in Service, NEW t \in Type, AdvertiseService(c, n, t)
        PROVE  ToldInv'
    BY <2>3, AdvertiseTold
  <2>4. ASSUME NEW n \in Service, NEW t \in Type,
               AdvertiseServiceFails(c, n, t)
        PROVE  ToldInv'
    BY <2>4, ToldQuiet DEF AdvertiseServiceFails, RemoveServices, ExternalWithout, ServiceInv
  <2>5. ASSUME NEW n \in Service, UnadvertiseService(c, n)
        PROVE  ToldInv'
    BY <2>5, ToldQuiet DEF UnadvertiseService, RemoveServices, ExternalWithout, ServiceInv
  <2>6. ASSUME NEW k \in told, ServiceResponse(c, k) PROVE ToldInv'
    BY <2>6, ServiceResponseTold
  <2>7. CASE CommandRefused(c)
    BY <2>7, ToldQuiet DEF CommandRefused, Refuse, serviceVars
  <2> QED
    BY <1>1, <2>1, <2>2, <2>3, <2>4, <2>5, <2>6, <2>7 DEF Client
<1>2. ASSUME NEW c \in Conn, (ClientConnect(c) \/ OutputCloses(c)) /\ UNCHANGED serviceVars
      PROVE  ToldInv'
  BY <1>2, ToldQuiet DEF serviceVars
<1>3. ASSUME NEW c \in Conn, Disconnect(c) PROVE ToldInv'
  BY <1>3, ReleaseTold DEF Disconnect, Release
<1>4. CASE Shutdown
  BY <1>4, ReleaseTold DEF Shutdown, Release
<1>5. CASE WorkerFails
  BY <1>5, ToldQuiet DEF WorkerFails
<1>6. CASE Tick
  <2>1. CASE StartTick \/ EndPoll \/ EndEvents \/ EndTimers
    BY <2>1, ToldQuiet DEF StartTick, EndPoll, EndEvents, EndTimers, serviceVars
  <2>2. CASE Reap
    BY <2>2, ReleaseTold DEF Reap, Release
  <2>3. CASE HandleResponse
    BY <2>3, ToldQuiet DEF HandleResponse
  <2>4. CASE HandleRequest
    BY <2>4, HandleRequestTold
  <2> QED
    BY <1>6, <2>1, <2>2, <2>3, <2>4 DEF Tick
<1>7. ASSUME NEW e, TakeResponse(e) \/ TakeRequest(e) PROVE ToldInv'
  BY <1>7, ToldQuiet DEF TakeResponse, TakeRequest
<1>8. ASSUME NEW x, ExpireCall(x) PROVE ToldInv'
  BY <1>8, ToldQuiet DEF ExpireCall
<1>9. ASSUME NEW x, ExpireExternal(x) PROVE ToldInv'
  BY <1>9, ToldQuiet DEF ExpireExternal
<1>10. CASE UNCHANGED vars
  BY <1>10, ToldQuiet DEF vars, serviceVars
<1> QED
  BY <1>1, <1>2, <1>3, <1>4, <1>5, <1>6, <1>7, <1>8, <1>9, <1>10
     DEF Next

LEMMA UnhandledHeaders == Unhandled = Headers(events) \/ events \notin Seq(EventRec)
<1> SUFFICES ASSUME events \in Seq(EventRec) PROVE Unhandled = Headers(events)
  OBVIOUS
<1>1. DOMAIN events = 1..Len(events)
  OBVIOUS
<1>2. {w \in Range(events) : w.kind = "request"} = {events[i] : i \in Requested(events)}
  BY <1>1 DEF Range, Requested
<1> QED
  BY <1>2 DEF Unhandled, Headers

(* A request that ROS delivered waits in exactly one place until it is     *)
(* answered, expires or its service goes, the header it is answered with   *)
(* is kept as long, and the client that was asked can answer it and no     *)
(* other: of the requests of one advertisement, a client's answer reaches  *)
(* the one it was given for, however late.  For any number of clients,     *)
(* services and requests.                                                  *)
THEOREM RequestsStayAnswerable == Spec => []RequestsAnswerable
<1>1. Spec => []RequestInv
  BY InitRequests, NextRequests, CallInvariance, ServiceInvariance, PTL DEF Spec
<1>2. Spec => []ToldInv
  BY <1>1, InitTold, NextTold, ServiceInvariance, PTL DEF Spec
<1>3. CallInv /\ ServiceInv /\ RequestInv /\ ToldInv => RequestsAnswerable
  <2> SUFFICES ASSUME CallInv, ServiceInv, RequestInv, ToldInv PROVE RequestsAnswerable
    OBVIOUS
  <2>1. Unhandled = Headers(events) /\ events \in Seq(EventRec)
    BY UnhandledHeaders DEF RequestInv, Batch
  <2>2. \A x \in external : <<x.entity, x.request>> \notin Headers(events)
    BY DEF RequestInv, Forwarded, Headers
  <2>3. RequestsTracked
    BY <2>1, <2>2 DEF RequestsTracked, RequestInv, HeadersKept, Forwarded
  <2>4. servers \subseteq Nat /\ clients \subseteq Nat
    BY DEF ServiceInv, Gone, CallInv, CallType, CallRec
  <2>5. Headers(events) \subseteq Nat \X Nat
    <3>1. \A i \in Requested(events) : events[i] \in EventRec
      BY <2>1 DEF Requested
    <3>2. \A v \in EventRec : v.entity \in Nat /\ v.request \in Nat
      BY DEF EventRec
    <3> QED
      BY <3>1, <3>2 DEF Headers
  <2>6. {<<x.entity, x.request>> : x \in external} \subseteq Nat \X Nat
    BY DEF RequestInv, Forwarded, ExternalRec
  <2>7. requests \subseteq Nat \X Nat
    BY <2>5, <2>6 DEF RequestInv, HeadersKept
  <2>8. answers \subseteq [asked : ExternalRec, given : ExternalRec]
    BY DEF ToldInv, Told, Answers
  <2>9. told \subseteq ExternalRec
    BY DEF ToldInv, Told
  <2>10. AnswersMeet
    <3> SUFFICES ASSUME NEW a \in answers
                 PROVE  /\ a.asked.owner = a.given.owner
                        /\ a.asked.entity = a.given.entity => a.asked.request = a.given.request
      BY DEF AnswersMeet
    <3>1. a.asked \in told /\ a.given \in told /\ a.asked.owner = a.given.owner /\ a.asked.n = a.given.n
      BY DEF ToldInv, Answers
    <3> QED
      BY <3>1 DEF ToldInv, Told
  <2>11. TypeOK
    BY <2>1, <2>4, <2>7, <2>8, <2>9
       DEF TypeOK, CallInv, CallType, ServiceInv, RequestInv, Batch, Forwarded
  <2> QED
    BY <2>3, <2>10, <2>11 DEF RequestsAnswerable, RequestInv, Forwarded
<1> QED
  BY <1>1, <1>2, <1>3, CallInvariance, ServiceInvariance, PTL
=============================================================================
